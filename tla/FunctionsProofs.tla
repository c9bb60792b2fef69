--------------------------- MODULE FunctionsProofs ---------------------------
(***************************************************************************)
(* What holds of the pure functions of the system on every problem, not    *)
(* only on those of a bounded size.                                        *)
(***************************************************************************)
EXTENDS MCFunctions, PolicyFacts

-----------------------------------------------------------------------------
(* Division. *)

LEMMA Division ==
  ASSUME NEW a \in Int, NEW b \in Nat \ {0}
  PROVE  /\ a \div b \in Int
         /\ (a \div b) * b <= a /\ a < (a \div b + 1) * b
  OBVIOUS

LEMMA DivisionMonotone ==
  ASSUME NEW a \in Int, NEW c \in Int, a <= c, NEW b \in Nat \ {0}
  PROVE  a \div b <= c \div b
<1> DEFINE x == a \div b
           y == c \div b
<1>1. x \in Int /\ x * b <= a /\ y \in Int /\ c < (y + 1) * b
  BY Division
<1> HIDE DEF x, y
<1>2. SUFFICES ASSUME y + 1 <= x PROVE FALSE
  BY <1>1 DEF x, y
<1>3. \A u, v, w \in Int : u <= v /\ w >= 0 => u * w <= v * w
  OBVIOUS
<1>4. (y + 1) * b <= x * b
  BY <1>1, <1>2, <1>3
<1>5. (y + 1) * b \in Int /\ x * b \in Int
  BY <1>1
<1> QED BY <1>1, <1>4, <1>5

LEMMA DivisionAntitone ==
  ASSUME NEW a \in Nat, NEW b \in Nat \ {0}, NEW c \in Nat \ {0}, b <= c
  PROVE  a \div c <= a \div b
<1> DEFINE x == a \div c
           y == a \div b
<1>1. x \in Int /\ x * c <= a /\ a < (x + 1) * c /\ y \in Int /\ y * b <= a /\ a < (y + 1) * b
  BY Division
<1> HIDE DEF x, y
<1>2. SUFFICES ASSUME y + 1 <= x PROVE FALSE
  BY <1>1 DEF x, y
<1>3. \A u, v, w \in Int : u <= v /\ w >= 0 => u * w <= v * w /\ w * u <= w * v
  OBVIOUS
<1>4. x >= 0
  <2> SUFFICES ASSUME x + 1 <= 0 PROVE FALSE
    BY <1>1
  <2>1. (x + 1) * c <= 0 * c
    BY <1>1, <1>3
  <2>2. (x + 1) * c \in Int /\ 0 * c = 0
    BY <1>1
  <2> QED BY <1>1, <2>1, <2>2
<1>5. (y + 1) * b <= x * b /\ x * b <= x * c
  BY <1>1, <1>2, <1>3, <1>4
<1>6. (y + 1) * b \in Int /\ x * b \in Int /\ x * c \in Int
  BY <1>1
<1> QED BY <1>1, <1>5, <1>6



-----------------------------------------------------------------------------
(* The runtime estimate: how each factor is bounded. *)

LEMMA ClampBounds ==
  ASSUME NEW lo \in Int, NEW x \in Int, NEW hi \in Int, lo <= hi
  PROVE  Clamp(lo, x, hi) \in Int /\ lo <= Clamp(lo, x, hi) /\ Clamp(lo, x, hi) <= hi
  BY DEF Clamp

LEMMA CountInInterval ==
  ASSUME NEW lo \in Int, NEW hi \in Int, NEW S, S \subseteq lo .. hi
  PROVE  Cardinality(S) \in Nat
<1>1. IsFiniteSet(lo .. hi)
  BY FS_Interval
<1>2. IsFiniteSet(S)
  BY <1>1, FS_Subset
<1> QED BY <1>2, FS_CardinalityType

LEMMA SqrtBounds ==
  ASSUME NEW lo \in Nat, NEW x, NEW hi \in Int
  PROVE  Sqrt(lo, x, hi) \in Nat /\ Sqrt(lo, x, hi) >= lo
<1> DEFINE S == {r \in (lo + 1) .. hi : r * r <= One * x}
<1>1. PICK l \in Int : l = lo + 1
  OBVIOUS
<1>2. Cardinality(S) \in Nat
  <2>1. S \subseteq l .. hi
    BY <1>1
  <2> HIDE DEF S
  <2> QED BY <2>1, CountInInterval
<1> QED BY <1>2 DEF Sqrt, S

LEMMA Log2Type ==
  ASSUME NEW n
  PROVE  Log2(n) \in Nat
<1> DEFINE S == {k \in 1 .. 29 : 2^k <= n}
<1>1. PICK lo \in Int, hi \in Int : lo = 1 /\ hi = 29
  OBVIOUS
<1>2. Cardinality(S) \in Nat
  <2>1. S \subseteq lo .. hi
    BY <1>1
  <2> HIDE DEF S
  <2> QED BY <2>1, CountInInterval
<1> QED BY <1>2 DEF Log2, S

LEMMA TimesType ==
  ASSUME NEW x \in Int, NEW y \in Int
  PROVE  Times(x, y) \in Int
  BY DEF Times, One

LEMMA OverType ==
  ASSUME NEW x \in Int, NEW y \in Nat \ {0}
  PROVE  Over(x, y) \in Int
  BY DEF Over, One

LEMMA GainBounds ==
  ASSUME NEW slope \in Int, NEW n, NEW max \in Int, One <= max
  PROVE  Gain(slope, n, max) \in Int /\ Gain(slope, n, max) >= One
<1>1. slope * Log2(n) \in Int /\ One \in Int
  BY Log2Type DEF One
<1>2. One + slope * Log2(n) \in Int
  BY <1>1
<1> QED BY <1>1, <1>2, ClampBounds DEF Gain

LEMMA ThroughputGainBounds ==
  ASSUME NEW k, NEW a \in Int, NEW b \in Int, NEW c \in Int, NEW d \in Int, NEW e \in Int,
         One <= b, One <= d, One <= e
  PROVE  /\ batchThroughputGain(k, a, b, c, d, e) \in Int
         /\ batchThroughputGain(k, a, b, c, d, e) >= One
<1> DEFINE micro == maxInt(k.microBatch, 1)
           ratio == maxInt(k.globalBatch, 1) \div (micro * maxInt(k.gradAccum, 1))
           x == Times(Gain(a, maxInt(ratio, 1), b), Gain(c, micro, d))
<1>1. x \in Int
  BY GainBounds, TimesType
<1>2. batchThroughputGain(k, a, b, c, d, e) = Clamp(One, x, e)
  BY DEF batchThroughputGain
<1> HIDE DEF x
<1>3. One \in Int
  BY DEF One
<1> QED BY <1>1, <1>2, <1>3, ClampBounds

\* The numbers of an input are integers.  Those that are not named here only enter
\* a logarithm or a root.
Numeric(input) ==
  LET k == input.knobs
  IN  /\ input.kind \in {"training", "fine_tune"} => k.gradAccum \in Int
      /\ input.kind = "eval" => k.metric \in Int /\ k.validation \in Int
      /\ input.kind = "fine_tune" => k.warmStart \in Int /\ k.checkpointLoad \in Int
      /\ input.kind = "rlhf" => k.policySteps \in Int
      /\ input.kind = "data_preprocess" => k.tokenization \in Int /\ k.augmentation \in Int
      /\ input.kind = "distillation" => k.teacherForward \in Int

LEMMA TrainingMultiplier ==
  ASSUME NEW k, k.gradAccum \in Int
  PROVE  /\ trainingRuntimeSecondsMultiplier(k) \in Int
         /\ 350 <= trainingRuntimeSecondsMultiplier(k)
         /\ trainingRuntimeSecondsMultiplier(k) <= 3000
<1> DEFINE seqPenalty == Sqrt(750, (maxInt(k.seqLen, 2048) * One) \div 2048, 2500)
           gradPenalty == Clamp(One, One + 30 * (maxInt(k.gradAccum, 1) - 1), 1500)
           gain == batchThroughputGain(k, 200, 1800, 120, 1500, 2500)
           x == Over(Times(seqPenalty, gradPenalty), gain)
<1>1. gradPenalty \in Int
  BY DEF maxInt, Clamp, One
<1>2. seqPenalty \in Int
  BY SqrtBounds
<1>3. gain \in Nat \ {0}
  BY ThroughputGainBounds DEF One
<1>4. trainingRuntimeSecondsMultiplier(k) = Clamp(350, x, 3000)
  BY DEF trainingRuntimeSecondsMultiplier
<1> HIDE DEF seqPenalty, gradPenalty, gain
<1>5. x \in Int
  BY <1>1, <1>2, <1>3, TimesType, OverType
<1> HIDE DEF x
<1> QED BY <1>4, <1>5, ClampBounds

LEMMA EvalMultiplier ==
  ASSUME NEW k, k.metric \in Int, k.validation \in Int
  PROVE  /\ evalRuntimeSecondsMultiplier(k) \in Int
         /\ 1000 <= evalRuntimeSecondsMultiplier(k)
         /\ evalRuntimeSecondsMultiplier(k) <= 3000
  BY DEF evalRuntimeSecondsMultiplier, Clamp, One

LEMMA FineTuneMultiplier ==
  ASSUME NEW k, k.gradAccum \in Int, k.warmStart \in Int, k.checkpointLoad \in Int
  PROVE  /\ fineTuneRuntimeSecondsMultiplier(k) \in Int
         /\ 400 <= fineTuneRuntimeSecondsMultiplier(k)
         /\ fineTuneRuntimeSecondsMultiplier(k) <= 3000
<1> DEFINE gradPenalty == Clamp(One, One + 25 * (maxInt(k.gradAccum, 1) - 1), 1400)
           warmPenalty == Clamp(One, One + k.warmStart + k.checkpointLoad, 2500)
           gain == batchThroughputGain(k, 180, 1700, 100, 1400, 2200)
           x == Over(Times(gradPenalty, warmPenalty), gain)
<1>1. gradPenalty \in Int /\ warmPenalty \in Int
  BY DEF maxInt, Clamp, One
<1>2. gain \in Nat \ {0}
  BY ThroughputGainBounds DEF One
<1>3. fineTuneRuntimeSecondsMultiplier(k) = Clamp(400, x, 3000)
  BY DEF fineTuneRuntimeSecondsMultiplier
<1> HIDE DEF gradPenalty, warmPenalty, gain
<1>4. x \in Int
  BY <1>1, <1>2, TimesType, OverType
<1> HIDE DEF x
<1> QED BY <1>3, <1>4, ClampBounds

LEMMA RLHFMultiplier ==
  ASSUME NEW k, k.policySteps \in Int
  PROVE  /\ rlhfRuntimeSecondsMultiplier(k) \in Int
         /\ 800 <= rlhfRuntimeSecondsMultiplier(k)
         /\ rlhfRuntimeSecondsMultiplier(k) <= 4000
<1> DEFINE root(n) == Sqrt(One, One * n, MaxRoot)
           rollout == maxInt(k.rollout, 1)
           rolloutPenalty == One + Over(200, root(rollout)) + Times(15, root(rollout))
           rewardPenalty == One + Over(220, root(maxInt(k.reward, rollout)))
           steps == One + 60 * (maxInt(k.policySteps, 1) - 1)
           updatePenalty == Times(One + Over(180, root(maxInt(k.update, 1))), steps)
           x == Times(400, rolloutPenalty) + Times(250, rewardPenalty)
                  + Times(350, updatePenalty)
<1>1. steps \in Int /\ One \in Nat \ {0}
  BY DEF maxInt, One
<1>2. ASSUME NEW n PROVE root(n) \in Nat \ {0}
  <2>1. MaxRoot \in Int
    BY RuntimeAssumption
  <2> QED BY <1>1, <2>1, SqrtBounds
<1>3. rlhfRuntimeSecondsMultiplier(k) = Clamp(800, x, 4000)
  BY DEF rlhfRuntimeSecondsMultiplier
<1> HIDE DEF root, rollout, steps
<1>4. rolloutPenalty \in Int /\ rewardPenalty \in Int
  BY <1>2 DEF Over, Times, One
<1>5. One + Over(180, root(maxInt(k.update, 1))) \in Int
  BY <1>2 DEF Over, One
<1>6. updatePenalty \in Int
  BY <1>1, <1>5, TimesType
<1> HIDE DEF rolloutPenalty, rewardPenalty, updatePenalty
<1>7. x \in Int
  BY <1>4, <1>6 DEF Times, One
<1> HIDE DEF x
<1> QED BY <1>3, <1>7, ClampBounds

LEMMA EmbeddingMultiplier ==
  ASSUME NEW k
  PROVE  /\ embeddingRuntimeSecondsMultiplier(k) \in Int
         /\ 600 <= embeddingRuntimeSecondsMultiplier(k)
         /\ embeddingRuntimeSecondsMultiplier(k) <= 3500
<1> DEFINE vectorPenalty == Sqrt(700, (maxInt(k.vectorDim, 1024) * One) \div 1024, 2500)
           tokenPenalty == Sqrt(700, (maxInt(k.tokenLen, 512) * One) \div 512, 2500)
           x == Times(vectorPenalty, tokenPenalty)
<1>1. vectorPenalty \in Int /\ tokenPenalty \in Int
  BY SqrtBounds
<1>2. embeddingRuntimeSecondsMultiplier(k) = Clamp(600, x, 3500)
  BY DEF embeddingRuntimeSecondsMultiplier
<1> HIDE DEF vectorPenalty, tokenPenalty
<1>3. x \in Int
  BY <1>1, TimesType
<1> HIDE DEF x
<1> QED BY <1>2, <1>3, ClampBounds

LEMMA DataPreprocessMultiplier ==
  ASSUME NEW k, NEW tokens, k.tokenization \in Int, k.augmentation \in Int
  PROVE  /\ dataPreprocessRuntimeSecondsMultiplier(k, tokens) \in Int
         /\ 600 <= dataPreprocessRuntimeSecondsMultiplier(k, tokens)
         /\ dataPreprocessRuntimeSecondsMultiplier(k, tokens) <= 6000
<1> DEFINE bytesPenalty == Sqrt(600, maxInt(k.inputBytes, 4 * tokens) \div 4000, 4000)
           overhead == One + k.tokenization + k.augmentation
           x == Times(bytesPenalty, overhead)
<1>1. bytesPenalty \in Int
  BY SqrtBounds
<1>2. overhead \in Int
  BY DEF One
<1>3. dataPreprocessRuntimeSecondsMultiplier(k, tokens) = Clamp(600, x, 6000)
  BY DEF dataPreprocessRuntimeSecondsMultiplier
<1> HIDE DEF bytesPenalty, overhead
<1>4. x \in Int
  BY <1>1, <1>2, TimesType
<1> HIDE DEF x
<1> QED BY <1>3, <1>4, ClampBounds

LEMMA DistillationMultiplier ==
  ASSUME NEW input, input.knobs.teacherForward \in Int
  PROVE  /\ distillationRuntimeSecondsMultiplier(input) \in Int
         /\ 600 <= distillationRuntimeSecondsMultiplier(input)
         /\ distillationRuntimeSecondsMultiplier(input) <= 3500
<1> DEFINE k == input.knobs
           forward == One + k.teacherForward
           profilePenalty == Sqrt(750, Over(profileTokensPerSecond[input.profile],
                                            profileTokensPerSecond[Teacher(input)]), 1500)
           gain == Gain(200, maxInt(k.batch, 1), 2000)
           x == Over(Times(forward, profilePenalty), gain)
<1>1. profilePenalty \in Int
  BY SqrtBounds
<1>2. forward \in Int
  BY DEF One
<1>3. gain \in Nat \ {0}
  BY GainBounds DEF One
<1>4. distillationRuntimeSecondsMultiplier(input) = Clamp(600, x, 3500)
  BY DEF distillationRuntimeSecondsMultiplier
<1> HIDE DEF forward, profilePenalty, gain
<1>5. x \in Int
  BY <1>1, <1>2, <1>3, TimesType, OverType
<1> HIDE DEF x
<1> QED BY <1>4, <1>5, ClampBounds

LEMMA MultiplierBounds ==
  ASSUME NEW input, Numeric(input)
  PROVE  /\ RuntimeSecondsMultiplier(input) \in Nat
         /\ RuntimeSecondsMultiplier(input) <= 6000
<1> DEFINE k == input.knobs
           m == RuntimeSecondsMultiplier(input)
<1>1. CASE input.kind = "training"
  <2>1. m = trainingRuntimeSecondsMultiplier(k) /\ k.gradAccum \in Int
    BY <1>1 DEF RuntimeSecondsMultiplier, Numeric
  <2> QED BY <2>1, TrainingMultiplier
<1>2. CASE input.kind = "eval"
  <2>1. m = evalRuntimeSecondsMultiplier(k) /\ k.metric \in Int /\ k.validation \in Int
    BY <1>2 DEF RuntimeSecondsMultiplier, Numeric
  <2> QED BY <2>1, EvalMultiplier
<1>3. CASE input.kind = "fine_tune"
  <2>1. /\ m = fineTuneRuntimeSecondsMultiplier(k)
        /\ k.gradAccum \in Int /\ k.warmStart \in Int /\ k.checkpointLoad \in Int
    BY <1>3 DEF RuntimeSecondsMultiplier, Numeric
  <2> QED BY <2>1, FineTuneMultiplier
<1>4. CASE input.kind = "rlhf"
  <2>1. m = rlhfRuntimeSecondsMultiplier(k) /\ k.policySteps \in Int
    BY <1>4 DEF RuntimeSecondsMultiplier, Numeric
  <2> QED BY <2>1, RLHFMultiplier
<1>5. CASE input.kind = "embedding"
  <2>1. m = embeddingRuntimeSecondsMultiplier(k)
    BY <1>5 DEF RuntimeSecondsMultiplier
  <2> QED BY <2>1, EmbeddingMultiplier
<1>6. CASE input.kind = "data_preprocess"
  <2>1. /\ m = dataPreprocessRuntimeSecondsMultiplier(k, input.tokens)
        /\ k.tokenization \in Int /\ k.augmentation \in Int
    BY <1>6 DEF RuntimeSecondsMultiplier, Numeric
  <2> QED BY <2>1, DataPreprocessMultiplier
<1>7. CASE input.kind = "distillation"
  <2>1. m = distillationRuntimeSecondsMultiplier(input) /\ k.teacherForward \in Int
    BY <1>7 DEF RuntimeSecondsMultiplier, Numeric
  <2> QED BY <2>1, DistillationMultiplier
<1>8. CASE input.kind \notin {"training", "eval", "fine_tune", "rlhf", "embedding",
                              "data_preprocess", "distillation"}
  BY <1>8 DEF RuntimeSecondsMultiplier, One
<1> QED BY <1>1, <1>2, <1>3, <1>4, <1>5, <1>6, <1>7, <1>8

LEMMA KnownProfile ==
  ASSUME NEW p \in Known
  PROVE  /\ p \in DOMAIN hardwareProfiles
         /\ profileTokensPerSecond[p] \in {12000, 7000, 6500, 5000}
<1>1. p \in DOMAIN hardwareProfiles /\ p \in DOMAIN profileTokensPerSecond
  BY Zenon DEF Known
<1>2. DOMAIN profileTokensPerSecond = {"h100_sxm", "a100_80gb", "tpu_v5e_chip", "trn1_instance"}
  BY DEF profileTokensPerSecond
<1>3. /\ profileTokensPerSecond["h100_sxm"] = 12000 /\ profileTokensPerSecond["a100_80gb"] = 7000
      /\ profileTokensPerSecond["tpu_v5e_chip"] = 6500
      /\ profileTokensPerSecond["trn1_instance"] = 5000
  BY DEF profileTokensPerSecond
<1>4. p \in {"h100_sxm", "a100_80gb", "tpu_v5e_chip", "trn1_instance"}
  BY <1>1, <1>2, Zenon
<1> QED BY <1>1, <1>3, <1>4

\* A name without a word.
NoWord == ""

\* The profiles of the table are names.
LEMMA KnownIsNamed == NoWord \notin Known
<1>1. DOMAIN profileTokensPerSecond = {"h100_sxm", "a100_80gb", "tpu_v5e_chip", "trn1_instance"}
  BY DEF profileTokensPerSecond
<1> QED BY <1>1, Zenon DEF Known, NoWord

LEMMA RelativeType ==
  ASSUME NEW p \in Known, NEW m \in DOMAIN weightOf
  PROVE  relative[p][m] \in Nat
<1> DEFINE x == (2 * One * hardwareProfiles[p][m]) \div medianTwice(m)
           lo == Sqrt(0, 100, One)
<1>1. p \in DOMAIN hardwareProfiles
  BY KnownProfile
<1>2. relative[p][m] = Sqrt(lo, x, MaxRelative)
  BY <1>1 DEF relative
<1>3. lo \in Nat
  BY SqrtBounds DEF One
<1>4. MaxRelative \in Int
  BY DEF MaxRelative, One
<1> HIDE DEF lo, x
<1> QED BY <1>2, <1>3, <1>4, SqrtBounds

\* From the second device on, the number of devices does not change the factor.
LEMMA FactorBounds ==
  ASSUME NEW p \in Known, NEW n \in Nat \ {0}
  PROVE  /\ hardwareThroughputFactor(p, n) \in Int
         /\ 750 <= hardwareThroughputFactor(p, n)
         /\ hardwareThroughputFactor(p, n) <= 1250
         /\ n > 1 => hardwareThroughputFactor(p, n + 1) = hardwareThroughputFactor(p, n)
<1> DEFINE counts(m) == \/ m = "memBandwidth"
                        \/ hardwareProfiles[p][m] > 0
                           /\ (m = "interconnect" => n > 1)
           weight(m) == IF counts(m) THEN weightOf[m] ELSE 0
           term(m) == weight(m) * relative[p][m]
           weighted == term("memBandwidth") + term("peakTFLOPS") + term("interconnect")
           weights == weight("memBandwidth") + weight("peakTFLOPS") + weight("interconnect")
<1>1. /\ weightOf["memBandwidth"] = 600 /\ weightOf["peakTFLOPS"] = 250
      /\ weightOf["interconnect"] = 150
      /\ {"memBandwidth", "peakTFLOPS", "interconnect"} \subseteq DOMAIN weightOf
  BY DEF weightOf
<1>2. /\ relative[p]["memBandwidth"] \in Nat /\ relative[p]["peakTFLOPS"] \in Nat
      /\ relative[p]["interconnect"] \in Nat
  BY <1>1, RelativeType
<1>3. /\ weight("memBandwidth") \in Nat \ {0}
      /\ weight("peakTFLOPS") \in Nat /\ weight("interconnect") \in Nat
  BY <1>1
<1>4. hardwareThroughputFactor(p, n) = Clamp(750, weighted \div weights, 1250)
  BY DEF hardwareThroughputFactor
<1>5. n > 1 => hardwareThroughputFactor(p, n + 1) = hardwareThroughputFactor(p, n)
  <2> SUFFICES ASSUME n > 1 PROVE hardwareThroughputFactor(p, n + 1)
                                    = hardwareThroughputFactor(p, n)
    OBVIOUS
  <2>1. n + 1 > 1
    OBVIOUS
  <2> QED BY <2>1 DEF hardwareThroughputFactor
<1> HIDE DEF weight
<1>6. weighted \in Int /\ weights \in Nat \ {0}
  BY <1>2, <1>3
<1> HIDE DEF weighted, weights
<1>7. weighted \div weights \in Int
  BY <1>6
<1> QED BY <1>4, <1>5, <1>7, ClampBounds

LEMMA EfficiencyBounds ==
  ASSUME NEW kind, NEW k
  PROVE  BatchEfficiencyMultiplier(kind, k) \in Int /\ BatchEfficiencyMultiplier(kind, k) >= One
<1>1. One \in Int /\ One <= 2000
  BY DEF One
<1>2. CASE kind = "inference"
  BY <1>1, <1>2, GainBounds DEF BatchEfficiencyMultiplier
<1>3. CASE kind = "eval"
  BY <1>1, <1>3, GainBounds DEF BatchEfficiencyMultiplier
<1>4. CASE kind = "embedding"
  BY <1>1, <1>4, GainBounds DEF BatchEfficiencyMultiplier
<1>5. CASE kind \notin {"inference", "eval", "embedding"}
  BY <1>1, <1>5 DEF BatchEfficiencyMultiplier
<1> QED BY <1>2, <1>3, <1>4, <1>5

\* Every device adds throughput, the second one too.
LEMMA ThroughputBounds ==
  ASSUME NEW input, input.profile \in Known, NEW n \in Nat \ {0}
  PROVE  /\ EffectiveTPS(input, n) \in Int /\ EffectiveTPS(input, n) >= 3750
         /\ EffectiveTPS(input, n + 1) \in Int
         /\ EffectiveTPS(input, n) <= EffectiveTPS(input, n + 1)
<1> DEFINE base == profileTokensPerSecond[input.profile]
           f == hardwareThroughputFactor(input.profile, n)
           g == hardwareThroughputFactor(input.profile, n + 1)
           m == BatchEfficiencyMultiplier(input.kind, input.knobs)
           s == Times(base, f)
           t == Times(base, g)
<1>1. base \in {12000, 7000, 6500, 5000}
  BY KnownProfile
<1>2. m \in Int /\ m >= One
  BY EfficiencyBounds
<1>3. n + 1 \in Nat \ {0}
  OBVIOUS
<1>4. /\ f \in Int /\ 750 <= f /\ f <= 1250 /\ g \in Int /\ 750 <= g /\ g <= 1250
      /\ n > 1 => g = f
  BY <1>3, FactorBounds
<1>5. /\ EffectiveTPS(input, n) = Times(s * n, m)
      /\ EffectiveTPS(input, n + 1) = Times(t * (n + 1), m)
  BY DEF EffectiveTPS
<1> HIDE DEF base, f, g, m
<1>6. s \in Int /\ t \in Int /\ s >= 3750 /\ t >= 3750 /\ s <= 2 * t /\ (n > 1 => s = t)
  BY <1>1, <1>4 DEF Times, One
<1> HIDE DEF s, t
<1>7. s * n \in Int /\ t * (n + 1) \in Int
  BY <1>6
<1>8. s * n <= t * (n + 1)
  <2>1. CASE n = 1
    BY <1>6, <2>1
  <2>2. CASE n > 1
    BY <1>6, <2>2
  <2> QED BY <2>1, <2>2
<1>9. \A u, v, w \in Int : u <= v /\ w >= 0 => u * w <= v * w /\ w * u <= w * v
  OBVIOUS
<1>10. s * n >= 3750
  <2>1. s * 1 <= s * n
    BY <1>6, <1>9
  <2> QED BY <1>6, <1>7, <2>1
<1>11. /\ (s * n) * m \in Int /\ (t * (n + 1)) * m \in Int
       /\ (s * n) * m <= (t * (n + 1)) * m /\ (s * n) * m >= 3750 * One
  <2>1. (s * n) * m \in Int /\ (t * (n + 1)) * m \in Int
    BY <1>2, <1>7
  <2>2. (s * n) * m <= (t * (n + 1)) * m
    BY <1>2, <1>7, <1>8, <1>9 DEF One
  <2>3. 3750 * m <= (s * n) * m
    BY <1>2, <1>7, <1>9, <1>10 DEF One
  <2> QED BY <1>2, <2>1, <2>2, <2>3 DEF One
<1> QED BY <1>5, <1>11, DivisionMonotone DEF Times, One

-----------------------------------------------------------------------------
(* The runtime estimate: the length of a run. *)

\* The seconds of a run before the jitter.
Plain(input, n) ==
  AtLeastOne(Times(Over(input.tokens, EffectiveTPS(input, n)), RuntimeSecondsMultiplier(input)))

LEMMA TimesMonotone ==
  ASSUME NEW x \in Int, NEW y \in Int, x <= y, NEW m \in Nat
  PROVE  Times(x, m) <= Times(y, m)
<1>1. \A u, v, w \in Int : u <= v /\ w >= 0 => u * w <= v * w
  OBVIOUS
<1>2. x * m <= y * m /\ x * m \in Int /\ y * m \in Int
  BY <1>1
<1>3. One \in Nat \ {0}
  BY DEF One
<1> QED BY <1>2, <1>3, DivisionMonotone DEF Times

LEMMA PlainBounds ==
  ASSUME NEW input, Numeric(input), input.profile \in Known, input.tokens \in Nat,
         NEW n \in Nat \ {0}
  PROVE  /\ Plain(input, n) \in Int /\ Plain(input, n + 1) \in Int
         /\ Plain(input, n) = One \/ 5 * Plain(input, n) <= 8 * input.tokens
         /\ One <= Plain(input, n + 1) /\ Plain(input, n + 1) <= Plain(input, n)
<1> DEFINE tokens == input.tokens
           s == EffectiveTPS(input, n)
           t == EffectiveTPS(input, n + 1)
           m == RuntimeSecondsMultiplier(input)
           x == Over(tokens, s)
           y == Over(tokens, t)
<1>1. s \in Nat \ {0} /\ t \in Nat \ {0} /\ s <= t /\ s >= 3750
  BY ThroughputBounds
<1>2. m \in Nat /\ m <= 6000
  BY MultiplierBounds
<1>3. /\ Plain(input, n) = AtLeastOne(Times(x, m))
      /\ Plain(input, n + 1) = AtLeastOne(Times(y, m))
  BY DEF Plain
<1> HIDE DEF s, t, m
<1>4. PICK a \in Nat : a = tokens * 1000
  OBVIOUS
<1>5. x \in Int /\ y \in Int /\ y <= x /\ x * s <= a /\ x >= 0
  <2>1. x = a \div s /\ y = a \div t
    BY <1>4 DEF Over, One
  <2> HIDE DEF x, y
  <2>2. x \in Int /\ x * s <= a
    BY <1>1, <2>1, Division
  <2>3. y \in Int
    BY <1>1, <2>1, Division
  <2>4. a \div t <= a \div s
    <3>1. s \in Nat \ {0} /\ t \in Nat \ {0} /\ s <= t
      BY <1>1
    <3> QED BY <3>1, DivisionAntitone, Zenon
  <2>5. x >= 0
    BY <1>1, <2>1
  <2> QED BY <2>1, <2>2, <2>3, <2>4, <2>5
<1> HIDE DEF x, y
<1>6. \A u, v, w \in Int : u <= v /\ w >= 0 => w * u <= w * v
  OBVIOUS
<1>7. 15 * x <= 4 * tokens
  <2>1. x * 3750 <= x * s /\ x * s \in Int
    BY <1>1, <1>5, <1>6
  <2> QED BY <1>4, <1>5, <2>1
<1>8. Times(x, m) \in Int /\ Times(y, m) \in Int /\ Times(y, m) <= Times(x, m)
  <2>1. m \in Int
    BY <1>2
  <2>2. Times(x, m) \in Int /\ Times(y, m) \in Int
    BY <1>5, <2>1, TimesType
  <2> QED BY <1>2, <1>5, <2>2, TimesMonotone
<1>9. Times(x, m) <= 6 * x
  <2>1. x * m <= x * 6000 /\ x * m \in Int
    BY <1>2, <1>5, <1>6
  <2> QED BY <1>5, <2>1 DEF Times, One
<1> QED BY <1>3, <1>5, <1>7, <1>8, <1>9 DEF AtLeastOne, One

LEMMA SecondsBounds ==
  ASSUME NEW input, Numeric(input), input.profile \in Known, input.tokens \in Nat,
         NEW n \in Nat \ {0}, NEW delta \in -One .. One
  PROVE  /\ wholeSeconds(input, n, delta) \in Int /\ wholeSeconds(input, n + 1, delta) \in Int
         /\ 1 <= wholeSeconds(input, n, delta)
         /\ wholeSeconds(input, n, delta) <= MaxSeconds(input.tokens)
         /\ wholeSeconds(input, n, delta) >= wholeSeconds(input, n + 1, delta)
<1> DEFINE x == Plain(input, n)
           y == Plain(input, n + 1)
           jittered(z) == IF input.jitter = {} THEN z ELSE applyRuntimeJitter(z, delta)
<1>1. /\ x \in Int /\ y \in Int /\ One <= y /\ y <= x
      /\ x = One \/ 5 * x <= 8 * input.tokens
  BY PlainBounds
<1>2. /\ wholeSeconds(input, n, delta) = (jittered(x) + One - 1) \div One
      /\ wholeSeconds(input, n + 1, delta) = (jittered(y) + One - 1) \div One
  BY DEF wholeSeconds, Plain
<1> HIDE DEF x, y
<1>3. PICK d \in Nat : d = One + delta /\ d <= 2000
  BY DEF One
<1>4. Times(x, d) \in Int /\ Times(y, d) \in Int /\ Times(y, d) <= Times(x, d)
  <2>1. d \in Int
    OBVIOUS
  <2>2. Times(x, d) \in Int /\ Times(y, d) \in Int
    BY <1>1, <2>1, TimesType
  <2> QED BY <1>1, <2>2, TimesMonotone
<1>5. Times(x, d) <= 2 * x
  <2>1. \A u, v, w \in Int : u <= v /\ w >= 0 => w * u <= w * v
    OBVIOUS
  <2>2. x * d <= x * 2000 /\ x * d \in Int
    BY <1>1, <1>3, <2>1 DEF One
  <2> QED BY <1>1, <2>2 DEF Times, One
<1>6. \A z : applyRuntimeJitter(z, delta) = AtLeastOne(Times(z, d))
  BY <1>3 DEF applyRuntimeJitter
<1>7. /\ jittered(x) \in Int /\ jittered(y) \in Int /\ jittered(y) <= jittered(x)
      /\ One <= jittered(x) /\ jittered(x) <= 2 * x
  <2>1. CASE input.jitter = {}
    <3>1. jittered(x) = x /\ jittered(y) = y
      BY <2>1
    <3> HIDE DEF jittered
    <3> QED BY <1>1, <3>1 DEF One
  <2>2. CASE input.jitter # {}
    <3>1. jittered(x) = AtLeastOne(Times(x, d)) /\ jittered(y) = AtLeastOne(Times(y, d))
      BY <1>6, <2>2
    <3> HIDE DEF jittered
    <3> QED BY <1>1, <1>4, <1>5, <3>1 DEF AtLeastOne, One
  <2> QED BY <2>1, <2>2
<1> HIDE DEF jittered
<1>8. wholeSeconds(input, n, delta) >= wholeSeconds(input, n + 1, delta)
  BY <1>2, <1>7 DEF One
<1>9. 1 <= wholeSeconds(input, n, delta)
  BY <1>2, <1>7 DEF One
<1>10. wholeSeconds(input, n, delta) <= MaxSeconds(input.tokens)
  <2>1. PICK j \in Int : j = jittered(x)
    BY <1>7
  <2>2. j <= 2000 \/ 5 * j <= 16 * input.tokens
    BY <1>1, <1>7, <2>1 DEF One
  <2>3. (j + 999) \div 1000 <= 2 + (16 * input.tokens) \div 5000
    BY <2>1, <2>2
  <2> QED BY <1>2, <2>1, <2>3 DEF One, MaxSeconds
<1>11. wholeSeconds(input, n, delta) \in Int /\ wholeSeconds(input, n + 1, delta) \in Int
  BY <1>2, <1>7 DEF One
<1> QED BY <1>8, <1>9, <1>10, <1>11

\* On every input that is accepted, for every number of devices, every random number
\* and whatever the build makes of a float that is too large: as long as 2 s and
\* 3.2 ms per token fit a time.Duration, a run takes at least one second and at most
\* that, and one device more never makes it longer (contract.go:766-811).
THEOREM EstimateIsSound ==
  ASSUME NEW input, Numeric(input), input.profile \in Known, input.tokens \in Nat,
         MaxSeconds(input.tokens) <= MaxDuration,
         NEW n \in Nat \ {0}, NEW delta \in -One .. One
  PROVE  /\ 1 <= estimateDuration(input, n, delta)
         /\ estimateDuration(input, n, delta) <= MaxSeconds(input.tokens)
         /\ estimateDuration(input, n, delta) >= estimateDuration(input, n + 1, delta)
<1>1. PICK x \in Int, y \in Int :
        /\ x = wholeSeconds(input, n, delta) /\ y = wholeSeconds(input, n + 1, delta)
        /\ 1 <= x /\ x <= MaxSeconds(input.tokens) /\ x >= y
  BY SecondsBounds
<1>2. PICK max \in Int : max = MaxSeconds(input.tokens)
  BY DEF MaxSeconds
<1>3. estimateDuration(input, n, delta) = Duration(x)
      /\ estimateDuration(input, n + 1, delta) = Duration(y)
  BY <1>1 DEF estimateDuration
<1>4. Duration(x) = x /\ Duration(y) = y
  BY <1>1, <1>2, RuntimeAssumption DEF Duration
<1> QED BY <1>1, <1>3, <1>4

\* From here on Zenon is tried first, and SMT on what Zenon does not prove.
USE ZenonT(3), SMTT(20)

-----------------------------------------------------------------------------
(* Problems and answers. *)

Answered ==
  \/ answer = << >>
  \/ problem.tag = "place" /\ answer = <<pickDevices(E, in.ord, need, opts)>>
  \/ problem.tag = "order"
       /\ answer = AfterTurns(in.queue, in.quotas, Turns(in.queue)).out
  \/ problem.tag = "run"
       /\ answer = <<estimateDuration(in.input, in.deviceCount, in.delta)>>
  \/ problem.tag = "request"
       /\ answer = <<Accepted(in), Validate(SchedulingInputs(in, << >>)),
                     /\ StartAccepts(buildRuntimeInput(in))
                     /\ StartAccepts(WorkloadToRuntimeInput(in))>>
  \/ problem.tag = "fit" /\ answer = <<Fits(in.obj, in.pools), CanAllocate(in.obj, in.pools, in.others)>>

LEMMA AnswersAreTheFunctions == Spec => [](Posed /\ Answered)
<1>1. Init => Posed /\ Answered
  BY DEF Init, Answered
<1>2. ASSUME Posed, Answered, [Next]_vars
      PROVE  Posed' /\ Answered'
  <2>1. CASE UNCHANGED vars
    BY <1>2, <2>1, Zenon DEF vars, Posed, Answered, in, E, need, opts
  <2>2. ASSUME UNCHANGED problem PROVE Posed'
    BY <1>2, <2>2, Zenon DEF Posed
  <2>3. CASE Pick
    BY <2>2, <2>3, Zenon DEF Pick, Answered, in, E, need, opts
  <2>4. CASE Order
    BY <2>2, <2>4, Zenon DEF Order, Answered, in
  <2>5. CASE Estimate
    BY <2>2, <2>5, Zenon DEF Estimate, Answered, in
  <2>6. CASE Follow
    BY <2>2, <2>6, Zenon DEF Follow, Answered, in
  <2>7. CASE Fit
    BY <2>2, <2>7, Zenon DEF Fit, Answered, in
  <2> QED BY <1>2, <2>1, <2>3, <2>4, <2>5, <2>6, <2>7 DEF Next
<1> QED BY <1>1, <1>2, PTL DEF Spec

LEMMA RunProblems ==
  ASSUME Posed, problem.tag = "run"
  PROVE  /\ Numeric(in.input) /\ in.input.profile \in Known /\ in.input.tokens \in Nat
         /\ in.deviceCount \in Nat \ {0} /\ in.delta \in -One .. One
<1>1. PICK kind \in Kinds, jitter \in {{}, {One}} :
        problem \in [tag : {"run"}, in : RuntimeProblems(kind, jitter)]
  BY Zenon DEF Posed
<1>2. in \in RuntimeProblems(kind, jitter)
  BY <1>1 DEF in
<1> DEFINE D == IF jitter = {} THEN {0} ELSE {-One, One}
           I == [kind : {kind}, profile : Known, tokens : TokenCounts, knobs : Knobs(kind),
                 jitter : {jitter}]
<1>3. in.input \in I /\ in.deviceCount \in 1 .. MaxDevices /\ in.delta \in D
  <2>1. in \in [input : I, deviceCount : 1 .. MaxDevices, delta : D]
    BY <1>2, Zenon DEF RuntimeProblems
  <2> HIDE DEF I, D
  <2> QED BY <2>1
<1>4. in.delta \in -One .. One
  <2> HIDE DEF I
  <2>1. in.delta \in {0, -One, One}
    BY <1>3
  <2>2. {0, -One, One} \subseteq -One .. One
    BY DEF One
  <2> QED BY <2>1, <2>2
<1>5. in.deviceCount \in Nat \ {0} /\ TokenCounts \subseteq Nat /\ Batches \subseteq Int
  BY <1>3, MCFunctionsBounds
<1>6. /\ in.input.kind = kind /\ in.input.profile \in Known /\ in.input.tokens \in TokenCounts
      /\ in.input.knobs \in Knobs(kind)
  BY <1>3
<1> DEFINE k == in.input.knobs
<1>7. Fractions \subseteq Int /\ Steps \subseteq Int
  BY DEF Fractions, Steps, One
<1>8. CASE kind = "training"
  <2>1. Knobs(kind) = [globalBatch : Batches, microBatch : Batches, gradAccum : Batches,
                      seqLen : SeqLens]
    BY <1>8, Zenon DEF Knobs
  <2>2. k.gradAccum \in Batches
    BY <1>6, <2>1
  <2> QED BY <1>4, <1>5, <1>6, <1>8, <2>2 DEF Numeric
<1>9. CASE kind = "eval"
  <2>1. Knobs(kind) = [batch : Batches, metric : Fractions, validation : Fractions]
    BY <1>9, Zenon DEF Knobs
  <2>2. k.metric \in Fractions /\ k.validation \in Fractions
    BY <1>6, <2>1
  <2> QED BY <1>4, <1>5, <1>6, <1>7, <1>9, <2>2 DEF Numeric
<1>10. CASE kind = "fine_tune"
  <2>1. Knobs(kind) = [globalBatch : Batches, microBatch : Batches, gradAccum : Batches,
                      warmStart : Fractions, checkpointLoad : Fractions]
    BY <1>10, Zenon DEF Knobs
  <2>2. k.gradAccum \in Batches /\ k.warmStart \in Fractions /\ k.checkpointLoad \in Fractions
    BY <1>6, <2>1
  <2> QED BY <1>4, <1>5, <1>6, <1>7, <1>10, <2>2 DEF Numeric
<1>11. CASE kind = "rlhf"
  <2>1. Knobs(kind) = [rollout : Rollouts, reward : Rollouts, update : {1},
                      policySteps : Steps]
    BY <1>11, Zenon DEF Knobs
  <2>2. k.policySteps \in Steps
    BY <1>6, <2>1
  <2> QED BY <1>4, <1>5, <1>6, <1>7, <1>11, <2>2 DEF Numeric
<1>12. CASE kind = "data_preprocess"
  <2>1. Knobs(kind) = [inputBytes : InputBytes, tokenization : Fractions,
                      augmentation : Fractions]
    BY <1>12, Zenon DEF Knobs
  <2>2. k.tokenization \in Fractions /\ k.augmentation \in Fractions
    BY <1>6, <2>1
  <2> QED BY <1>4, <1>5, <1>6, <1>7, <1>12, <2>2 DEF Numeric
<1>13. CASE kind = "distillation"
  <2>1. Knobs(kind) = [batch : Batches, teacher : Teachers, teacherForward : Fractions]
    BY <1>13, Zenon DEF Knobs
  <2>2. k.teacherForward \in Fractions
    BY <1>6, <2>1
  <2> QED BY <1>4, <1>5, <1>6, <1>7, <1>13, <2>2 DEF Numeric
<1>14. CASE kind \notin {"training", "eval", "fine_tune", "rlhf", "data_preprocess",
                         "distillation"}
  BY <1>4, <1>5, <1>6, <1>14 DEF Numeric
<1> QED BY <1>8, <1>9, <1>10, <1>11, <1>12, <1>13, <1>14

\* Every run that a problem describes, and whose longest duration fits a
\* time.Duration, takes at least one second and at most the bound, whatever the
\* number of devices, the batches and the jitter (contract.go:766-811).
THEOREM RunsAreBounded == Spec => []RunLengthInRange
<1>1. ASSUME Posed, Answered PROVE RunLengthInRange
  <2> SUFFICES ASSUME problem.tag = "run", answer # << >>,
                      MaxSeconds(in.input.tokens) <= MaxDuration
               PROVE  1 <= answer[1] /\ answer[1] <= MaxSeconds(in.input.tokens)
    BY Zenon DEF RunLengthInRange, Solved
  <2>1. answer = <<estimateDuration(in.input, in.deviceCount, in.delta)>>
    BY <1>1 DEF Answered
  <2>2. answer[1] = estimateDuration(in.input, in.deviceCount, in.delta)
    BY <2>1
  <2> QED BY <1>1, <2>2, RunProblems, EstimateIsSound
<1> QED BY <1>1, AnswersAreTheFunctions, PTL

\* One device more never makes such a run longer (contract.go:1367-1412).
THEOREM DevicesNeverHurt == Spec => []MoreDevicesNeverSlower
<1>1. ASSUME Posed, Answered PROVE MoreDevicesNeverSlower
  <2> SUFFICES ASSUME problem.tag = "run", answer # << >>,
                      MaxSeconds(in.input.tokens) <= MaxDuration
               PROVE  answer[1] >= estimateDuration(in.input, in.deviceCount + 1, in.delta)
    BY Zenon DEF MoreDevicesNeverSlower, Solved
  <2>1. answer = <<estimateDuration(in.input, in.deviceCount, in.delta)>>
    BY <1>1 DEF Answered
  <2>2. answer[1] = estimateDuration(in.input, in.deviceCount, in.delta)
    BY <2>1
  <2> QED BY <1>1, <2>2, RunProblems, EstimateIsSound
<1> QED BY <1>1, AnswersAreTheFunctions, PTL

-----------------------------------------------------------------------------
(* Order problems. *)

LEMMA OrderProblemFacts ==
  ASSUME Posed, Answered, problem.tag = "order", answer # << >>
  PROVE  /\ IsQueue(in.queue) /\ Len(in.queue) > 0 /\ HaveWeights(in.queue, in.quotas)
         /\ answer = AfterTurns(in.queue, in.quotas, Turns(in.queue)).out
<1>1. in \in OrderProblems
  <2>1. problem \in [tag : {"order"}, in : OrderProblems]
    BY Zenon DEF Posed
  <2> QED BY <2>1 DEF in
<1>2. PICK q : q = in.queue
  OBVIOUS
<1>3. PICK v : v = in.quotas
  OBVIOUS
<1>4. q \in Queues /\ v \in [Tenants -> [weight : Weights]]
  BY <1>1, <1>2, <1>3 DEF OrderProblems
<1>5. PICK n \in 1 .. MaxLen, f \in [1 .. MaxLen -> [tenant : Tenants, priority : {1, 2}]] :
        q = [i \in 1 .. n |->
              [id |-> i, tenant |-> f[i].tenant, priority |-> f[i].priority, at |-> i]]
  BY <1>4 DEF Queues
<1>6. MaxLen \in Nat /\ Weights \subseteq Nat
  BY MCFunctionsBounds
<1>7. Len(q) = n /\ DOMAIN q = 1 .. n /\ n \in Nat /\ n > 0
  BY <1>5, <1>6
<1>8. \A i \in 1 .. n : i \in 1 .. MaxLen /\ i \in Int
  BY <1>6
<1>9. \A i \in 1 .. n : /\ q[i].priority = f[i].priority /\ q[i].at = i
                        /\ q[i].tenant = f[i].tenant
  BY <1>5
<1>10. \A i \in 1 .. n : f[i].priority \in Int /\ f[i].tenant \in Tenants
  BY <1>8
<1>11. IsQueue(q)
  BY <1>7, <1>8, <1>9, <1>10 DEF IsQueue
<1>12. \A t \in TenantsOf(q) : t \in Tenants
  BY <1>7, <1>9, <1>10 DEF TenantsOf
<1>13. HaveWeights(q, v)
  <2>1. ASSUME NEW t \in TenantsOf(q) PROVE v[t].weight \in Int
    <3>1. v[t] \in [weight : Weights]
      BY <1>4, <1>12
    <3>2. v[t].weight \in Weights
      BY <3>1
    <3>3. v[t].weight \in Nat
      BY <1>6, <3>2, Zenon
    <3> QED BY <3>3
  <2> QED BY <2>1, Zenon DEF HaveWeights
<1>14. answer = AfterTurns(in.queue, in.quotas, Turns(in.queue)).out
  BY Zenon DEF Answered
<1> QED BY <1>2, <1>3, <1>7, <1>11, <1>13, <1>14, Zenon

\* The loop over the tenants yields every workload, in the order in which
\* SelectOneForAdmission considers them (fairness_wrr.go:49-71).
THEOREM LoopYields == Spec => []LoopYieldsOrder
<1>1. ASSUME Posed, Answered PROVE LoopYieldsOrder
  <2> SUFFICES ASSUME problem.tag = "order", answer # << >> PROVE LoopYieldsOrder
    BY Zenon DEF LoopYieldsOrder, Solved
  <2>1. PICK q, v : q = in.queue /\ v = in.quotas
    OBVIOUS
  <2>2. /\ IsQueue(q) /\ Len(q) > 0 /\ HaveWeights(q, v)
        /\ answer = AfterTurns(q, v, Turns(q)).out
    BY <1>1, <2>1, OrderProblemFacts
  <2>3. IsTheOrder(q, v, answer)
    BY <2>2, LoopIsTheOrder, Zenon
  <2> QED BY <2>1, <2>3, Zenon DEF LoopYieldsOrder, IsTheOrder
<1> QED BY <1>1, AnswersAreTheFunctions, PTL

-----------------------------------------------------------------------------
(* Placement problems. *)

LEMMA DevicesFinite == IsFiniteSet(Devices)
<1> DEFINE N == 0 .. NodesPerPool - 1
           G == 0 .. GPUsPerNode - 1
           T == (Pools \X N) \X G
           f == [d \in Devices |-> <<<<d.pool, d.node>>, d.gpu>>]
<1>1. IsFiniteSet(N) /\ IsFiniteSet(G)
  <2>1. 0 \in Int /\ NodesPerPool - 1 \in Int /\ GPUsPerNode - 1 \in Int
    BY MCFunctionsBounds
  <2> QED BY <2>1, FS_Interval
<1>2. \A d \in Devices : d.pool \in Pools /\ d.node \in N /\ d.gpu \in G
  BY DEF Devices
<1>3. \A d, e \in Devices : d.pool = e.pool /\ d.node = e.node /\ d.gpu = e.gpu => d = e
  BY DEF Devices
<1> HIDE DEF N, G
<1>4. IsFiniteSet(T)
  <2>1. IsFiniteSet(Pools \X N)
    BY <1>1, MCFunctionsBounds, FS_Product
  <2> QED BY <1>1, <2>1, FS_Product
<1>5. f \in Injection(Devices, T)
  <2>1. f \in [Devices -> T]
    BY <1>2
  <2>2. ASSUME NEW d \in Devices, NEW e \in Devices, f[d] = f[e] PROVE d = e
    BY <1>3, <2>2
  <2> QED BY <2>1, <2>2 DEF Injection, IsInjective
<1> QED BY <1>4, <1>5, FS_Injection

LEMMA PlaceProblems ==
  ASSUME Posed, problem.tag = "place"
  PROVE  /\ IsDevices(E, in.ord) /\ need \in Nat \ {0} /\ IsOptions(opts)
         /\ opts.maxNodes \in Nat
<1>1. in \in PlacementProblems
  BY DEF Posed, in
<1>2. /\ in.eligible \in SUBSET Devices /\ in.ord \in PoolOrders
      /\ in.need \in 1 .. MaxNeed /\ in.opts \in Options
  BY <1>1 DEF PlacementProblems
<1>3. need \in Nat \ {0}
  BY <1>2, MCFunctionsBounds DEF need
<1>4. IsOptions(opts) /\ opts.maxNodes \in Nat
  BY <1>2, MCFunctionsBounds DEF opts, Options, IsOptions
<1>5. IsFiniteSet(E)
  BY <1>2, DevicesFinite, FS_Subset DEF E
<1>6. /\ \A d \in E : d.pool \in Pools /\ d.node \in Int /\ d.gpu \in Int
      /\ \A d, e \in E : d.pool = e.pool /\ d.node = e.node /\ d.gpu = e.gpu => d = e
  BY <1>2, MCFunctionsBounds DEF E, Devices
<1>7. PICK u \in Int : in.ord \in [Pools -> 1 .. u]
  <2>1. in.ord \in [Pools -> 1 .. Cardinality(Pools)] /\ Cardinality(Pools) \in Int
    BY <1>2, MCFunctionsBounds, FS_CardinalityType DEF PoolOrders
  <2> QED BY <2>1
<1>8. \A p, q \in Pools : in.ord[p] \in Int /\ (in.ord[p] = in.ord[q] => p = q)
  BY <1>2, <1>7 DEF PoolOrders
<1>9. IsDevices(E, in.ord)
  BY <1>5, <1>6, <1>8, Zenon DEF IsDevices
<1> QED BY <1>3, <1>4, <1>9

\* Whatever devices are eligible, in whatever order Go visits the pools, pickDevices
\* returns only eligible ones, at most gpuCount, and keeps requireSameNode and
\* maxNodes (contract.go:199-296).
THEOREM PicksAreSafe == Spec => []PickRespectsLimits
<1>1. ASSUME Posed, Answered PROVE PickRespectsLimits
  <2> DEFINE R == pickDevices(E, in.ord, need, opts)
  <2> SUFFICES ASSUME problem.tag = "place", answer # << >>
               PROVE  /\ picked \subseteq E /\ Cardinality(picked) <= need
                      /\ opts.requireSameNode => Cardinality(NodesOf(picked)) <= 1
                      /\ opts.maxNodes > 0 => Cardinality(NodesOf(picked)) <= opts.maxNodes
    BY Zenon DEF PickRespectsLimits, Solved
  <2>1. answer = <<R>>
    BY <1>1 DEF Answered
  <2>2. picked = R
    BY <2>1 DEF picked
  <2>3. /\ R \subseteq E /\ Cardinality(R) <= need
        /\ opts.requireSameNode => Cardinality(NodesOf(R)) <= 1
        /\ opts.maxNodes > 0 => Cardinality(NodesOf(R)) <= opts.maxNodes
    BY <1>1, PlaceProblems, PicksWithinLimits
  <2> HIDE DEF R
  <2> QED BY <2>2, <2>3
<1> QED BY <1>1, AnswersAreTheFunctions, PTL

\* spread is balanced on every set of devices and in every order of the pools
\* (contract.go:265-296).
THEOREM SpreadBalances == Spec => []SpreadIsBalanced
<1>1. ASSUME Posed, Answered PROVE SpreadIsBalanced
  <2> DEFINE R == pickDevices(E, in.ord, need, opts)
  <2> DEFINE taken(x) == Cardinality(OnNode(picked, x))
  <2> SUFFICES ASSUME problem.tag = "place", answer # << >>, opts.policy = "spread",
                      ~opts.requireSameNode
               PROVE  \A m, n : /\ opts.maxNodes = 0 \/ n \in NodesOf(picked)
                                /\ taken(m) > taken(n) + 1
                                => taken(n) = Cardinality(OnNode(E, n))
    BY DEF SpreadIsBalanced, Solved
  <2> TAKE m, n
  <2> HAVE /\ opts.maxNodes = 0 \/ n \in NodesOf(picked)
           /\ taken(m) > taken(n) + 1
  <2>1. picked = R
    <3>1. answer = <<R>>
      BY <1>1 DEF Answered
    <3> QED BY <3>1 DEF picked
  <2>2. IsDevices(E, in.ord) /\ need \in Nat /\ IsOptions(opts) /\ opts.maxNodes \in Nat
    BY <1>1, PlaceProblems
  <2>3. R = Dealt(E, in.ord, need, opts.maxNodes)
    BY <2>2, PickCases
  <2> HIDE DEF R
  <2> QED BY <2>1, <2>2, <2>3, DealtIsBalanced
<1> QED BY <1>1, AnswersAreTheFunctions, PTL

\* No policy without a node limit fails while there are enough devices; pack, though
\* greedy, fails only if no choice of nodes would do, and uses as few as possible;
\* one node is used where one node suffices (contract.go:200-263).
THEOREM PicksComplete == Spec => []PlacementIsComplete
<1>1. ASSUME Posed, Answered PROVE PlacementIsComplete
  <2> DEFINE R == pickDevices(E, in.ord, need, opts)
  <2> SUFFICES ASSUME problem.tag = "place", answer # << >>
               PROVE  PlacementIsComplete
    BY Zenon DEF PlacementIsComplete, Solved
  <2>1. picked = R
    <3>1. answer = <<R>>
      BY <1>1 DEF Answered
    <3> QED BY <3>1 DEF picked
  <2>2. IsDevices(E, in.ord) /\ need \in Nat \ {0} /\ IsOptions(opts)
    BY <1>1, PlaceProblems
  <2>3. Completes(E, need, opts, picked)
    BY <2>1, <2>2, PicksAreComplete
  <2>4. \A j : FitsOn(j) <=> SomeFit(E, need, j)
    BY Zenon DEF FitsOn, SomeFit, On
  <2> QED BY <2>3, <2>4, Zenon DEF Completes, PlacementIsComplete, placed
<1> QED BY <1>1, AnswersAreTheFunctions, PTL

-----------------------------------------------------------------------------
(* The scheduler's view of the fleet and the simulator's. *)

\* The pools of a profile, those a workload may be placed on, and their devices.
PoolsOf(pools, p) == {i \in DOMAIN pools : pools[i].profile.word = p}

PoolsFor(pools, obj) ==
  {i \in DOMAIN pools : /\ pools[i].profile = [word |-> obj.profile.word, spelling |-> "exact"]
                        /\ pools[i].memMiB >= obj.gpuMemoryMiB}

Offer(pools, I) == MapThenSumSet(LAMBDA i : pools[i].available, I)

\* What is known of a list of pools and of an object.
IsPoolList(pools) ==
  /\ DOMAIN pools \in SUBSET Nat /\ IsFiniteSet(DOMAIN pools)
  /\ \A i \in DOMAIN pools :
       /\ pools[i].available \in Nat /\ pools[i].memMiB \in Nat \ {0}
       /\ pools[i].profile = [word |-> pools[i].profile.word,
                              spelling |-> pools[i].profile.spelling]

Uniform(pools) ==
  \A i, j \in DOMAIN pools :
    /\ pools[i].profile.spelling = "exact"
    /\ pools[i].profile = pools[j].profile => pools[i].memMiB = pools[j].memMiB

LEMMA NoPoolsOffer ==
  ASSUME NEW pools
  PROVE  Offer(pools, {}) = 0
<1> DEFINE Q(R) == R = [s \in SUBSET {} |->
                          IF s = {} THEN 0
                          ELSE pools[AnyOf(s)].available + R[s \ {AnyOf(s)}]]
           Z == [s \in SUBSET {} |-> 0]
<1>1. Offer(pools, {}) = (CHOOSE R : Q(R))[{}]
  BY DEF Offer, MapThenSumSet, MapThenFoldSet, AnyOf
<1>2. Q(Z)
  <2>1. \A s \in SUBSET {} : s = {}
    OBVIOUS
  <2> QED BY <2>1
<1>3. \A R : Q(R) => R[{}] = 0
  OBVIOUS
<1> HIDE DEF Q, Z
<1> QED BY <1>1, <1>2, <1>3

LEMMA OfferIsNat ==
  ASSUME NEW pools, NEW I \in SUBSET (DOMAIN pools), IsFiniteSet(I),
         \A i \in I : pools[i].available \in Nat
  PROVE  Offer(pools, I) \in Nat
<1> DEFINE f == [i \in DOMAIN pools |-> pools[i].available]
           Q(R) == R = [s \in SUBSET I |->
                          IF s = {} THEN 0
                          ELSE pools[AnyOf(s)].available + R[s \ {AnyOf(s)}]]
<1>1. \A i \in I : f[i] \in Nat /\ f[i] \in Int /\ f[i] = pools[i].available
  OBVIOUS
<1>2. Offer(pools, I) = (CHOOSE R : Q(R))[I]
  BY DEF Offer, MapThenSumSet, MapThenFoldSet, AnyOf
<1>3. \A s \in SUBSET I : s # {} => AnyOf(s) \in I
  BY DEF AnyOf
<1> HIDE DEF f
<1>4. \A R : Q(R) <=> Solves(R, f, I)
  BY <1>1, <1>3 DEF Solves
<1> HIDE DEF Q
<1>5. \E R : Q(R)
  BY <1>1, <1>4, SolutionExists
<1>6. Solves(CHOOSE R : Q(R), f, I)
  BY <1>4, <1>5
<1>7. (CHOOSE R : Q(R))[I] = Total(f, I)
  BY <1>1, <1>6, SolutionIsTotal
<1> QED BY <1>1, <1>2, <1>7, TotalNat

LEMMA FitsAsOffered ==
  ASSUME NEW pools, NEW obj, obj.profile.word \in HardwareProfiles, obj.profile.word # NoWord
  PROVE  Fits(obj, pools) <=>
           LET I == PoolsOf(pools, obj.profile.word)
           IN  /\ I # {}
               /\ Offer(pools, I) >= obj.gpuCount
               /\ pools[Min(I)].memMiB > 0
               /\ pools[Min(I)].memMiB >= obj.gpuMemoryMiB
<1> DEFINE w == GPUWorkloadToQueuedWorkload(obj)
           fleet == aggregateFleetFromPools(pools)
           p == obj.profile.word
           I == PoolsOf(pools, p)
<1>1. w.profile = p /\ w.gpuCount = obj.gpuCount /\ w.memMiB = obj.gpuMemoryMiB
  BY DEF GPUWorkloadToQueuedWorkload
<1>2. DOMAIN fleet = {pools[i].profile.word : i \in DOMAIN pools} \ {NoWord}
  BY Zenon DEF aggregateFleetFromPools, NoWord
<1>3. p \in DOMAIN fleet <=> I # {}
  BY <1>2, Zenon DEF PoolsOf
<1>4. ASSUME p \in DOMAIN fleet
      PROVE  /\ fleet[p].freeDevices = Offer(pools, I)
             /\ fleet[p].memMiBPerDevice = pools[Min(I)].memMiB
  <2> DEFINE memory == MapThenSumSet(LAMBDA i : pools[i].available * pools[i].memMiB, I)
  <2>1. p \in {pools[i].profile.word : i \in DOMAIN pools} \ {""}
    BY <1>2, <1>4, Zenon DEF NoWord
  <2>2. fleet[p] = [freeDevices |-> Offer(pools, I), freeMemMiB |-> memory,
                    memMiBPerDevice |-> pools[Min(I)].memMiB]
    BY <2>1, Zenon DEF aggregateFleetFromPools, PoolsOf, Offer
  <2> HIDE DEF fleet, I, memory
  <2> QED BY <2>2
<1> HIDE DEF fleet, w, I
<1>5. Fits(obj, pools) <=>
        /\ w.profile \in DOMAIN fleet \cap HardwareProfiles
        /\ fleet[w.profile].freeDevices >= w.gpuCount
        /\ fleet[w.profile].memMiBPerDevice > 0
        /\ fleet[w.profile].memMiBPerDevice >= w.memMiB
  BY DEF Fits, CompatibleProfileAndKind, FitsGPUCount, FitsPerDeviceMemory, w, fleet
<1> QED BY <1>1, <1>3, <1>4, <1>5 DEF I

LEMMA FittingIsOffering ==
  ASSUME NEW pools, IsPoolList(pools), Uniform(pools),
         NEW obj, obj.profile.word \in HardwareProfiles, obj.profile.word # NoWord,
         obj.gpuCount \in Nat \ {0}, obj.gpuMemoryMiB \in Int
  PROVE  Fits(obj, pools) <=> Eligible(obj, pools) >= obj.gpuCount
<1> DEFINE p == obj.profile.word
           I == PoolsOf(pools, p)
           J == PoolsFor(pools, obj)
           m == obj.gpuMemoryMiB
<1>1. Eligible(obj, pools) = Offer(pools, J)
  BY Zenon DEF Eligible, Offer, PoolsFor
<1>2. \A i \in DOMAIN pools :
        i \in I <=> pools[i].profile = [word |-> p, spelling |-> "exact"]
  <2> SUFFICES ASSUME NEW i \in DOMAIN pools
               PROVE  i \in I <=> pools[i].profile = [word |-> p, spelling |-> "exact"]
    OBVIOUS
  <2>1. pools[i].profile = [word |-> pools[i].profile.word, spelling |-> "exact"]
    BY Zenon DEF IsPoolList, Uniform
  <2>2. i \in I <=> pools[i].profile.word = p
    BY Zenon DEF PoolsOf
  <2>3. [word |-> p, spelling |-> "exact"].word = p
    OBVIOUS
  <2> QED BY <2>1, <2>2, <2>3, Zenon
<1>3. I \subseteq DOMAIN pools /\ J = {i \in I : pools[i].memMiB >= m}
  BY <1>2 DEF PoolsOf, PoolsFor
<1>4. \A i, j \in I : pools[i].memMiB = pools[j].memMiB
  <2> SUFFICES ASSUME NEW i \in I, NEW j \in I PROVE pools[i].memMiB = pools[j].memMiB
    OBVIOUS
  <2>1. i \in DOMAIN pools /\ j \in DOMAIN pools
    BY <1>3, Zenon
  <2>2. pools[i].profile = pools[j].profile
    BY <1>2, <2>1, Zenon
  <2> QED BY <2>1, <2>2, Zenon DEF Uniform
<1>5. J = {} => ~(Eligible(obj, pools) >= obj.gpuCount)
  BY <1>1, NoPoolsOffer
<1>6. ASSUME I # {} PROVE Min(I) \in I
  <2>1. I \in SUBSET Nat
    BY <1>3 DEF IsPoolList
  <2>2. \E n \in I : \A k \in I : n <= k
    BY <1>6, <2>1, SmallestNumber
  <2> QED BY <2>2 DEF Min
<1>7. CASE I = {}
  BY <1>3, <1>5, <1>7, FitsAsOffered
<1>8. CASE I # {} /\ pools[Min(I)].memMiB >= m
  <2>1. pools[Min(I)].memMiB > 0
    <3>1. \A i \in I : pools[i].memMiB \in Nat \ {0}
      BY <1>3, Zenon DEF IsPoolList
    <3> HIDE DEF I
    <3> QED BY <1>6, <1>8, <3>1
  <2>2. I = J
    BY <1>3, <1>4, <1>6, <1>8
  <2> HIDE DEF I, J
  <2>3. Offer(pools, J) = Offer(pools, I)
    BY <2>2, Zenon
  <2> QED BY <1>1, <1>8, <2>1, <2>3, FitsAsOffered DEF I
<1>9. CASE I # {} /\ ~(pools[Min(I)].memMiB >= m)
  <2>1. J = {}
    BY <1>3, <1>4, <1>6, <1>9
  <2> QED BY <1>5, <1>9, <2>1, FitsAsOffered
<1> QED BY <1>7, <1>8, <1>9

LEMMA EligibleIsNat ==
  ASSUME NEW pools, IsPoolList(pools), NEW obj
  PROVE  /\ Eligible(obj, pools) \in Nat
         /\ PoolsOf(pools, obj.profile.word) = {} => Eligible(obj, pools) = 0
<1> DEFINE J == PoolsFor(pools, obj)
<1>1. Eligible(obj, pools) = Offer(pools, J)
  BY Zenon DEF Eligible, Offer, PoolsFor
<1>2. J \in SUBSET (DOMAIN pools)
  BY DEF PoolsFor
<1>3. IsFiniteSet(J)
  BY <1>2, FS_Subset DEF IsPoolList
<1>4. \A i \in J : pools[i].available \in Nat
  BY <1>2 DEF IsPoolList
<1>5. Offer(pools, J) \in Nat
  <2> HIDE DEF J
  <2> QED BY <1>2, <1>3, <1>4, OfferIsNat
<1>6. ASSUME PoolsOf(pools, obj.profile.word) = {} PROVE Eligible(obj, pools) = 0
  <2>1. \A i \in J : pools[i].profile.word = obj.profile.word
    BY DEF PoolsFor
  <2>2. J = {}
    <3> HIDE DEF J
    <3> QED BY <1>2, <1>6, <2>1, Zenon DEF PoolsOf
  <2> QED BY <1>1, <2>2, NoPoolsOffer, Zenon
<1> QED BY <1>1, <1>5, <1>6

\* For any object, any pools of its namespace and any of the others: where the pools
\* of its namespace are spelled exactly and agree on the memory of a device, what
\* fits can be allocated, and what can be allocated fits or takes devices of another
\* namespace.
THEOREM FittingIsAllocating ==
  ASSUME NEW pools, IsPoolList(pools), Uniform(pools), NEW others, IsPoolList(others),
         NEW obj, obj.profile.word \in HardwareProfiles, obj.profile.word # NoWord,
         obj.gpuCount \in Nat \ {0}, obj.gpuMemoryMiB \in Int
  PROVE  /\ Fits(obj, pools) => CanAllocate(obj, pools, others)
         /\ CanAllocate(obj, pools, others) =>
              Fits(obj, pools) \/ PoolsOf(others, obj.profile.word) # {}
<1>1. PICK x \in Nat, y \in Nat :
        /\ x = Eligible(obj, pools) /\ y = Eligible(obj, others)
        /\ PoolsOf(others, obj.profile.word) = {} => y = 0
  BY EligibleIsNat
<1>2. Fits(obj, pools) <=> x >= obj.gpuCount
  BY <1>1, FittingIsOffering
<1>3. CanAllocate(obj, pools, others) <=> x + y >= obj.gpuCount
  BY <1>1, Zenon DEF CanAllocate
<1>4. obj.gpuCount \in Nat
  OBVIOUS
<1> QED BY <1>1, <1>2, <1>3, <1>4

LEMMA PoolListFacts ==
  ASSUME NEW pools \in PoolLists
  PROVE  IsPoolList(pools)
<1> DEFINE P == [profile : {Name("h100_sxm"), Cased("h100_sxm"), Name("a100_80gb")},
                 available : 0 .. MaxAvailable, memMiB : {4, 8}]
<1>1. \A q \in P : q.memMiB \in {4, 8} /\ q.available \in 0 .. MaxAvailable
                   /\ q.profile \in {Name("h100_sxm"), Cased("h100_sxm"), Name("a100_80gb")}
  OBVIOUS
<1>2. \A x \in {Name("h100_sxm"), Cased("h100_sxm"), Name("a100_80gb")} :
        x = [word |-> x.word, spelling |-> x.spelling]
  BY DEF Name, Cased
<1>3. \A q \in P : q.available \in Nat /\ q.memMiB \in Nat \ {0}
                   /\ q.profile = [word |-> q.profile.word, spelling |-> q.profile.spelling]
  <2> TAKE q \in P
  <2>1. q.memMiB \in {4, 8} /\ q.available \in 0 .. MaxAvailable
        /\ q.profile \in {Name("h100_sxm"), Cased("h100_sxm"), Name("a100_80gb")}
    BY <1>1
  <2>2. q.profile = [word |-> q.profile.word, spelling |-> q.profile.spelling]
    BY <1>2, <2>1, Zenon
  <2>3. q.available \in Nat /\ q.memMiB \in Nat \ {0}
    BY <2>1
  <2> QED BY <2>2, <2>3
<1>4. \/ pools = << >>
      \/ \E q \in P : pools = <<q>>
      \/ \E q, r \in P : pools = <<q, r>>
  BY DEF PoolLists
<1> HIDE DEF P
<1>5. DOMAIN pools \in SUBSET (1 .. 2) /\ \A i \in DOMAIN pools : pools[i] \in P
  <2>1. CASE pools = << >>
    BY <2>1
  <2>2. ASSUME NEW q \in P, pools = <<q>>
        PROVE  DOMAIN pools \in SUBSET (1 .. 2) /\ \A i \in DOMAIN pools : pools[i] \in P
    BY <2>2
  <2>3. ASSUME NEW q \in P, NEW r \in P, pools = <<q, r>>
        PROVE  DOMAIN pools \in SUBSET (1 .. 2) /\ \A i \in DOMAIN pools : pools[i] \in P
    BY <2>3
  <2> QED BY <1>4, <2>1, <2>2, <2>3
<1>6. DOMAIN pools \in SUBSET Nat /\ IsFiniteSet(DOMAIN pools)
  <2>1. IsFiniteSet(1 .. 2)
    <3>1. 1 \in Int /\ 2 \in Int
      OBVIOUS
    <3> QED BY <3>1, FS_Interval, Zenon
  <2>2. IsFiniteSet(DOMAIN pools)
    BY <1>5, <2>1, FS_Subset, Zenon
  <2>3. DOMAIN pools \in SUBSET Nat
    BY <1>5
  <2> QED BY <2>2, <2>3
<1> QED BY <1>3, <1>5, <1>6, Zenon DEF IsPoolList

\* What the scheduler admits to an idle fleet the simulator can place, and what it
\* does not admit the simulator could place only with the devices of another
\* namespace, where the pools are spelled as the table does and agree on the memory
\* of a device (scheduler_loop.go:730-753, contract.go:133, 169-197).
THEOREM FitsCanBeAllocated == Spec => []FitIsAllocatable
<1>1. ASSUME Posed, Answered PROVE FitIsAllocatable
  <2> SUFFICES ASSUME problem.tag = "fit", answer # << >>,
                      in.obj.profile.word \in Known, Uniform(in.pools)
               PROVE  /\ answer[1] => answer[2]
                      /\ answer[2] =>
                           answer[1] \/ PoolsOf(in.others, in.obj.profile.word) # {}
    BY Zenon DEF FitIsAllocatable, Solved, Uniform, PoolsOf
  <2>1. answer = <<Fits(in.obj, in.pools), CanAllocate(in.obj, in.pools, in.others)>>
    BY <1>1 DEF Answered
  <2>2. in \in FitProblems
    <3>1. problem \in [tag : {"fit"}, in : FitProblems]
      BY <1>1, Zenon DEF Posed
    <3> QED BY <3>1 DEF in
  <2>3. in.pools \in PoolLists /\ in.others \in PoolLists
    BY <2>2 DEF FitProblems
  <2>4. in.obj.gpuCount \in Nat \ {0} /\ in.obj.gpuMemoryMiB \in Int
    <3>1. in.obj \in {[GoodObject EXCEPT !.profile = p, !.gpuCount = n, !.gpuMemoryMiB = m] :
                        p \in {Name("h100_sxm"), Cased("a100_80gb"), Name("other")},
                        n \in 1 .. 3, m \in {4, 5, 8, 9}}
      BY <2>2 DEF FitProblems
    <3>2. PICK p \in {Name("h100_sxm"), Cased("a100_80gb"), Name("other")},
               n \in 1 .. 3, m \in {4, 5, 8, 9} :
            in.obj = [GoodObject EXCEPT !.profile = p, !.gpuCount = n, !.gpuMemoryMiB = m]
      BY <3>1
    <3>3. {"profile", "gpuCount", "gpuMemoryMiB"} \subseteq DOMAIN GoodObject
      BY DEF GoodObject
    <3>4. in.obj.gpuCount = n /\ in.obj.gpuMemoryMiB = m
      BY <3>2, <3>3
    <3> QED BY <3>4
  <2>5. in.obj.profile.word # NoWord
    BY KnownIsNamed
  <2>6. in.obj.profile.word \in HardwareProfiles
    BY MCFunctionsTables, Zenon
  <2>7. IsPoolList(in.pools) /\ IsPoolList(in.others)
    BY <2>3, PoolListFacts
  <2>8. /\ Fits(in.obj, in.pools) => CanAllocate(in.obj, in.pools, in.others)
        /\ CanAllocate(in.obj, in.pools, in.others) =>
             Fits(in.obj, in.pools) \/ PoolsOf(in.others, in.obj.profile.word) # {}
    BY <2>4, <2>5, <2>6, <2>7, FittingIsAllocating
  <2> QED BY <2>1, <2>8
<1> QED BY <1>1, AnswersAreTheFunctions, PTL

-----------------------------------------------------------------------------
(* The way of a request. *)

\* What is known of the fields of an object.
IsObject(o) ==
  /\ {"gpuCount", "gpuMemoryMiB", "tokens", "overhead", "jitter"} \subseteq DOMAIN o
  /\ o["gpuCount"] \in Int /\ o["gpuMemoryMiB"] \in Int /\ o["tokens"] \in Int
  /\ o["overhead"] \in Int /\ o["jitter"] \subseteq Int

\* The only workload of a namespace without pools is judged by its own fields.
LEMMA AloneIsJudged ==
  ASSUME NEW o, WellFormed(o), o.gpuMemoryMiB > 0
  PROVE  Validate(SchedulingInputs(o, << >>))
<1>1. PICK w : w = GPUWorkloadToQueuedWorkload(o)
  OBVIOUS
<1>2. w.wellFormed /\ w.memMiB > 0
  <2>1. w.wellFormed = WellFormed(o) /\ w.memMiB = o.gpuMemoryMiB
    BY <1>1 DEF GPUWorkloadToQueuedWorkload
  <2> QED BY <2>1
<1>3. PICK fleet : fleet = aggregateFleetFromPools(<< >>)
  OBVIOUS
<1>4. DOMAIN fleet = {}
  <2>1. DOMAIN fleet = {<< >>[i].profile.word : i \in DOMAIN << >>} \ {NoWord}
    BY <1>3, Zenon DEF aggregateFleetFromPools, NoWord
  <2> QED BY <2>1
<1>5. SchedulingInputs(o, << >>) =
        [queued |-> <<w>>, scheduled |-> << >>, running |-> << >>, fleet |-> fleet]
  BY <1>1, <1>3, Zenon DEF SchedulingInputs
<1>6. PICK inputs : inputs = SchedulingInputs(o, << >>)
  OBVIOUS
<1>7. /\ inputs.queued = <<w>> /\ inputs.scheduled = << >> /\ inputs.running = << >>
      /\ inputs.fleet = fleet
  BY <1>5, <1>6
<1>8. PICK all : all = inputs.queued \o inputs.scheduled \o inputs.running
  OBVIOUS
<1>9. DOMAIN all = {1} /\ all[1] = w
  <2>1. <<w>> \in Seq({w}) /\ DOMAIN <<w>> = {1} /\ <<w>>[1] = w
    OBVIOUS
  <2>2. \A s \in Seq({w}) : s \o << >> = s
    OBVIOUS
  <2>3. all = (<<w>> \o << >>) \o << >>
    BY <1>7, <1>8, Zenon
  <2> QED BY <2>1, <2>2, <2>3, Zenon
<1>10. /\ \A i \in DOMAIN all : all[i].wellFormed /\ all[i].memMiB > 0
       /\ \A i, j \in DOMAIN all : all[i].id = all[j].id => i = j
       /\ \A p \in DOMAIN inputs.fleet :
            /\ inputs.fleet[p].freeDevices >= 0
            /\ inputs.fleet[p].freeMemMiB >= 0
            /\ inputs.fleet[p].freeDevices > 0 => inputs.fleet[p].memMiBPerDevice > 0
  BY <1>2, <1>4, <1>7, <1>9, Zenon
<1>11. Validate(inputs)
  BY <1>8, <1>10, Zenon DEF Validate
<1> QED BY <1>6, <1>11, Zenon

\* For any object with a memory size and with names, or of the submitter's: what the
\* checks accept is valid for the scheduler.
THEOREM AcceptedObjectsAreValid ==
  ASSUME NEW o, IsObject(o), Accepted(o), o.gpuMemoryMiB > 0,
         o.via = "submitter" \/ NoWord \notin {o.tenant.word, o.profile.word}
  PROVE  Validate(SchedulingInputs(o, << >>))
<1>1. SchemaAccepts(o) /\ (o.via = "submitter" => ValidateRequest(o))
  BY Zenon DEF Accepted
<1>2. ValidateRequest(o) => NoWord \notin {o.tenant.word, o.profile.word}
  BY Zenon DEF ValidateRequest, NoWord
<1>3. o.tenant.word # NoWord /\ o.profile.word # NoWord
  BY <1>1, <1>2, Zenon
<1>4. /\ o.gpuCount >= 1 /\ o.tokens >= 1
      /\ o.kind.spelling = "exact" /\ o.kind.word \in Kinds
  BY <1>1, Zenon DEF SchemaAccepts
<1>5. o.gpuCount > 0 /\ o.tokens > 0
  BY <1>4 DEF IsObject
<1>6. o.kind.word \in SupportedKinds
  BY <1>4, MCFunctionsTables, Zenon
<1>7. WellFormed(o)
  BY <1>3, <1>4, <1>5, <1>6, Zenon DEF WellFormed, NoWord
<1> QED BY <1>7, AloneIsJudged, Zenon

\* Start accepts what both callers make of an object: they agree on its kind.
LEMMA StartTakes ==
  ASSUME NEW o, NEW input, input.kind = o.kind.word, input.profile = o.profile.word,
         input.tokens = o.tokens, input.jitter = o.jitter, input.knobs = Sections(o),
         o.tokens > 0, o.profile.word \in Known, o.kind.word \in SupportedKinds,
         \A pct \in o.jitter : 0 < pct /\ pct <= One,
         0 <= o.overhead /\ o.overhead <= One,
         o.kind.word = "distillation" => o.teacher.word \in Known \cup {NoWord}
  PROVE  StartAccepts(input)
<1>1. PICK k : k = Sections(o)
  OBVIOUS
<1>2. /\ k.metric = o.overhead /\ k.validation = o.overhead
      /\ k.warmStart = o.overhead /\ k.checkpointLoad = o.overhead
      /\ k.tokenization = o.overhead /\ k.augmentation = o.overhead
      /\ k.teacherForward = o.overhead /\ k.teacher = o.teacher.word
  BY <1>1 DEF Sections
<1>3. input.knobs = k
  BY <1>1
<1>4. \A pct \in Overheads(input) : pct = o.overhead
  BY <1>2, <1>3 DEF Overheads
<1>5. input.kind = "distillation" => Teacher(input) \in Known
  BY <1>2, <1>3, Zenon DEF Teacher, NoWord
<1>6. input.kind = "distillation" => Teacher(input) \in DOMAIN hardwareProfiles
  BY <1>5, Zenon DEF Known
<1> HIDE DEF Known
<1> QED BY <1>4, <1>6, Zenon DEF StartAccepts

\* For any object of a known profile, and teacher where one is named, and without
\* a jitter of zero: what the checks accept, the reconciler and the workers can start.
THEOREM AcceptedObjectsCanStart ==
  ASSUME NEW o, IsObject(o), Accepted(o), o.profile.word \in Known,
         o.kind.word = "distillation" => o.teacher.word \in Known \cup {NoWord},
         0 \notin o.jitter
  PROVE  StartAccepts(buildRuntimeInput(o)) /\ StartAccepts(WorkloadToRuntimeInput(o))
<1>1. SchemaAccepts(o)
  BY Zenon DEF Accepted
<1>2. /\ o.tokens >= 1
      /\ o.kind.spelling = "exact" /\ o.kind.word \in Kinds
      /\ \A pct \in {o.overhead} \cup o.jitter : 0 <= pct /\ pct <= 1000
  BY <1>1 DEF SchemaAccepts
<1>3. o.tokens > 0 /\ 0 <= o.overhead /\ o.overhead <= One
  BY <1>2 DEF IsObject, One
<1>4. \A pct \in o.jitter : 0 < pct /\ pct <= One
  BY <1>2 DEF IsObject, One
<1>5. o.kind.word \in SupportedKinds
  BY <1>2, MCFunctionsTables, Zenon
<1>6. Spelled(o.kind) = o.kind.word
  BY <1>2, Zenon DEF Spelled
<1>7. MapWorkloadKind(o.kind) = o.kind.word
  BY <1>6, Zenon DEF MapWorkloadKind
<1> DEFINE Suits(input) ==
             /\ input.kind = o.kind.word /\ input.profile = o.profile.word
             /\ input.tokens = o.tokens /\ input.jitter = o.jitter /\ input.knobs = Sections(o)
<1>8. \A input : Suits(input) => StartAccepts(input)
  <2> TAKE input
  <2> HAVE Suits(input)
  <2> QED BY <1>3, <1>4, <1>5, StartTakes
<1>9. Suits(buildRuntimeInput(o)) /\ Suits(WorkloadToRuntimeInput(o))
  BY <1>6, <1>7 DEF buildRuntimeInput, WorkloadToRuntimeInput
<1> HIDE DEF Suits
<1> QED BY <1>8, <1>9

LEMMA ChangedObjects ==
  ASSUME NEW objs, \A o \in objs : IsObject(o)
  PROVE  \A o \in Changed(objs) : IsObject(o)
<1>1. /\ FieldValues["gpuCount"] \subseteq Int /\ FieldValues["gpuMemoryMiB"] \subseteq Int
      /\ FieldValues["tokens"] \subseteq Int /\ FieldValues["overhead"] \subseteq Int
      /\ \A v \in FieldValues["jitter"] : v \subseteq Int
  <2>1. /\ FieldValues["gpuCount"] = {0, 2} /\ FieldValues["gpuMemoryMiB"] = {-1, 0}
        /\ FieldValues["tokens"] = {0} /\ FieldValues["overhead"] = {-1, One, One + 1}
        /\ FieldValues["jitter"] = {{0}, {One}, {One + 1}}
    BY Zenon DEF FieldValues
  <2> QED BY <2>1 DEF One
<1>2. ASSUME NEW o, IsObject(o), NEW f \in DOMAIN FieldValues, NEW v \in FieldValues[f]
      PROVE  IsObject([o EXCEPT ![f] = v])
  <2>1. /\ f = "gpuCount" => v \in Int
        /\ f = "gpuMemoryMiB" => v \in Int
        /\ f = "tokens" => v \in Int
        /\ f = "overhead" => v \in Int
        /\ f = "jitter" => v \subseteq Int
    BY <1>1, <1>2, Zenon
  <2> QED BY <1>2, <2>1 DEF IsObject
<1> SUFFICES ASSUME NEW x \in Changed(objs), x \notin objs
             PROVE  IsObject(x)
  OBVIOUS
<1> DEFINE With(o, f) == {[o EXCEPT ![f] = v] : v \in FieldValues[f]}
           By(o) == UNION {With(o, f) : f \in DOMAIN FieldValues}
<1>3. PICK o \in objs : x \in By(o)
  <2>1. x \in UNION {By(o) : o \in objs}
    BY Zenon DEF Changed
  <2> HIDE DEF By
  <2> QED BY <2>1
<1>4. PICK f \in DOMAIN FieldValues : x \in With(o, f)
  <2> HIDE DEF With
  <2> QED BY <1>3
<1>5. PICK v \in FieldValues[f] : x = [o EXCEPT ![f] = v]
  BY <1>4
<1> QED BY <1>2, <1>5, Zenon

LEMMA RequestObjects ==
  ASSUME NEW o \in RequestProblems
  PROVE  IsObject(o)
<1>1. IsObject(GoodObject)
  <2>1. /\ GoodObject["gpuCount"] = 1 /\ GoodObject["gpuMemoryMiB"] = 4
        /\ GoodObject["tokens"] = 1 /\ GoodObject["overhead"] = 0
        /\ GoodObject["jitter"] = {}
    BY Zenon DEF GoodObject
  <2>2. {"gpuCount", "gpuMemoryMiB", "tokens", "overhead", "jitter"} \subseteq DOMAIN GoodObject
    BY Zenon DEF GoodObject
  <2> QED BY <2>1, <2>2 DEF IsObject
<1>2. \A x \in {GoodObject} : IsObject(x)
  BY <1>1
<1> QED BY <1>2, ChangedObjects, Zenon DEF RequestProblems

LEMMA Requests ==
  ASSUME Posed, Answered, problem.tag = "request", answer # << >>
  PROVE  /\ IsObject(in)
         /\ answer[1] <=> Accepted(in)
         /\ answer[2] <=> Validate(SchedulingInputs(in, << >>))
         /\ answer[3] <=> /\ StartAccepts(buildRuntimeInput(in))
                          /\ StartAccepts(WorkloadToRuntimeInput(in))
<1>1. in \in RequestProblems
  <2>1. problem \in [tag : {"request"}, in : RequestProblems]
    BY Zenon DEF Posed
  <2> QED BY <2>1 DEF in
<1>2. answer = <<Accepted(in), Validate(SchedulingInputs(in, << >>)),
                 /\ StartAccepts(buildRuntimeInput(in))
                 /\ StartAccepts(WorkloadToRuntimeInput(in))>>
  BY DEF Answered
<1>3. IsObject(in)
  BY <1>1, RequestObjects
<1> QED BY <1>2, <1>3

\* No object that the submitter and the schema accepted makes the scheduler's Validate
\* reject the inputs of its namespace, but for 0 MiB and a user's blank names
\* (scheduler_loop.go:292-295).
THEOREM AcceptedAreValid == Spec => []AcceptedIsValid
<1>1. ASSUME Posed, Answered PROVE AcceptedIsValid
  <2> SUFFICES ASSUME problem.tag = "request", answer # << >>, answer[1],
                      in.gpuMemoryMiB > 0,
                      in.via = "submitter" \/ NoWord \notin {in.tenant.word, in.profile.word}
               PROVE  answer[2]
    BY Zenon DEF AcceptedIsValid, Solved, NoWord
  <2> QED BY <1>1, Requests, AcceptedObjectsAreValid, Zenon
<1> QED BY <1>1, AnswersAreTheFunctions, PTL

\* An accepted object of a known profile can be started once it has its devices, by
\* the reconciler and by a worker alike, but for an unknown teacher and a jitter of
\* zero (gpuworkload_controller.go:223-226).
THEOREM AcceptedStart == Spec => []AcceptedCanStart
<1>1. ASSUME Posed, Answered PROVE AcceptedCanStart
  <2> SUFFICES ASSUME problem.tag = "request", answer # << >>, answer[1],
                      in.profile.word \in Known,
                      in.kind.word = "distillation" => in.teacher.word \in Known \cup {NoWord},
                      0 \notin in.jitter
               PROVE  answer[3]
    BY Zenon DEF AcceptedCanStart, Solved, NoWord
  <2> QED BY <1>1, Requests, AcceptedObjectsCanStart, Zenon
<1> QED BY <1>1, AnswersAreTheFunctions, PTL
==============================================================================
