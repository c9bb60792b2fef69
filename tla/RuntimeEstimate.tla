--------------------------- MODULE RuntimeEstimate ---------------------------
(***************************************************************************)
(* How long a simulated run takes: what StartWithRuntimeInput accepts and  *)
(* estimateDuration computes (internal/sim/contract.go).                   *)
(*                                                                         *)
(* A runtime input is a record with the fields kind, profile, tokens,      *)
(* jitter (a set of at most one pct) and knobs, the section of its kind as *)
(* a record.  A section that is absent counts as one whose fields are 0.   *)
(*                                                                         *)
(* The code computes with floating-point numbers; here a factor, a         *)
(* fraction or a number of seconds is in thousandths, rounded down at each *)
(* operation.  Logarithms are those of the next power of two below.        *)
(***************************************************************************)
EXTENDS Integers, FiniteSets

CONSTANTS
  MaxRoot,       \* bound: the root of a batch size, in thousandths
  MaxDuration,   \* the whole seconds an int64 of nanoseconds holds, 9223372036
  Beyond         \* what the build makes of more: the least or the greatest int64

ASSUME RuntimeAssumption ==
  MaxRoot \in Nat /\ MaxDuration \in Nat /\ Beyond \in {-MaxDuration - 1, MaxDuration}

One == 1000

Times(x, y) == (x * y) \div One

Over(x, y) == (x * One) \div y

Clamp(lo, x, hi) == IF x < lo THEN lo ELSE IF x > hi THEN hi ELSE x

\* The square root of x, clamped to lo and hi.
Sqrt(lo, x, hi) == lo + Cardinality({r \in (lo + 1) .. hi : r * r <= One * x})

Log2(n) == Cardinality({k \in 1 .. 29 : 2^k <= n})

maxInt(v, fallback) == IF v > 0 THEN v ELSE fallback

-----------------------------------------------------------------------------
profileTokensPerSecond ==
  [h100_sxm |-> 12000, a100_80gb |-> 7000, tpu_v5e_chip |-> 6500, trn1_instance |-> 5000]

\* hardware_profiles.json; 0 for a metric that is not given.
hardwareProfiles ==
  [h100_sxm      |-> [memBandwidth |-> 3350, peakTFLOPS |-> 989, interconnect |-> 900],
   a100_80gb     |-> [memBandwidth |-> 2039, peakTFLOPS |-> 312, interconnect |-> 0],
   tpu_v5e_chip  |-> [memBandwidth |-> 819,  peakTFLOPS |-> 0,   interconnect |-> 0],
   trn1_instance |-> [memBandwidth |-> 8200, peakTFLOPS |-> 0,   interconnect |-> 0]]

Known == DOMAIN hardwareProfiles \cap DOMAIN profileTokensPerSecond

weightOf == [memBandwidth |-> 600, peakTFLOPS |-> 250, interconnect |-> 150]

\* Twice the median of a metric over the profiles that give it.
medianTwice(metric) ==
  LET value(p) == hardwareProfiles[p][metric]
      given == {p \in DOMAIN hardwareProfiles : value(p) > 0}
      n == Cardinality(given)
      ranked(k) == CHOOSE v \in {value(p) : p \in given} :
        /\ Cardinality({q \in given : value(q) < v}) <= k
        /\ Cardinality({q \in given : value(q) <= v}) > k
  IN  IF n = 0 THEN 2 ELSE ranked((n - 1) \div 2) + ranked(n \div 2)

\* Bound: no metric is sixteen times its median.
MaxRelative == 4 * One

\* The root of each profile's metrics relative to their medians; a ratio is at
\* least 0.1.
relative ==
  [p \in DOMAIN hardwareProfiles |-> [m \in DOMAIN weightOf |->
    Sqrt(Sqrt(0, 100, One),
         (2 * One * hardwareProfiles[p][m]) \div medianTwice(m), MaxRelative)]]

hardwareThroughputFactor(profile, deviceCount) ==
  LET counts(m) == \/ m = "memBandwidth"
                   \/ hardwareProfiles[profile][m] > 0
                      /\ (m = "interconnect" => deviceCount > 1)
      weight(m) == IF counts(m) THEN weightOf[m] ELSE 0
      term(m) == weight(m) * relative[profile][m]
      weighted == term("memBandwidth") + term("peakTFLOPS") + term("interconnect")
      weights == weight("memBandwidth") + weight("peakTFLOPS") + weight("interconnect")
  IN  Clamp(750, weighted \div weights, 1250)

-----------------------------------------------------------------------------
\* A gain of slope for each doubling of n, up to max.
Gain(slope, n, max) == Clamp(One, One + slope * Log2(n), max)

BatchEfficiencyMultiplier(kind, k) ==
  CASE kind = "inference" -> Gain(350, maxInt(k.batch, 1), 2500)
    [] kind = "eval"      -> Gain(250, maxInt(k.batch, 1), 2000)
    [] kind = "embedding" -> Gain(220, maxInt(k.batch, 1), 2100)
    [] OTHER              -> One

batchThroughputGain(k, parallelSlope, parallelMax, microSlope, microMax, max) ==
  LET micro == maxInt(k.microBatch, 1)
      ratio == maxInt(k.globalBatch, 1) \div (micro * maxInt(k.gradAccum, 1))
  IN  Clamp(One, Times(Gain(parallelSlope, maxInt(ratio, 1), parallelMax),
                       Gain(microSlope, micro, microMax)), max)

trainingRuntimeSecondsMultiplier(k) ==
  LET seqPenalty == Sqrt(750, (maxInt(k.seqLen, 2048) * One) \div 2048, 2500)
      gradPenalty == Clamp(One, One + 30 * (maxInt(k.gradAccum, 1) - 1), 1500)
  IN  Clamp(350, Over(Times(seqPenalty, gradPenalty),
                      batchThroughputGain(k, 200, 1800, 120, 1500, 2500)), 3000)

evalRuntimeSecondsMultiplier(k) == Clamp(One, One + k.metric + k.validation, 3000)

fineTuneRuntimeSecondsMultiplier(k) ==
  LET gradPenalty == Clamp(One, One + 25 * (maxInt(k.gradAccum, 1) - 1), 1400)
      warmPenalty == Clamp(One, One + k.warmStart + k.checkpointLoad, 2500)
  IN  Clamp(400, Over(Times(gradPenalty, warmPenalty),
                      batchThroughputGain(k, 180, 1700, 100, 1400, 2200)), 3000)

\* The reward batch defaults to the rollout batch.
rlhfRuntimeSecondsMultiplier(k) ==
  LET root(n) == Sqrt(One, One * n, MaxRoot)
      rollout == maxInt(k.rollout, 1)
      rolloutPenalty == One + Over(200, root(rollout)) + Times(15, root(rollout))
      rewardPenalty == One + Over(220, root(maxInt(k.reward, rollout)))
      updatePenalty == Times(One + Over(180, root(maxInt(k.update, 1))),
                             One + 60 * (maxInt(k.policySteps, 1) - 1))
  IN  Clamp(800, Times(400, rolloutPenalty) + Times(250, rewardPenalty)
                   + Times(350, updatePenalty), 4000)

embeddingRuntimeSecondsMultiplier(k) ==
  LET vectorPenalty == Sqrt(700, (maxInt(k.vectorDim, 1024) * One) \div 1024, 2500)
      tokenPenalty == Sqrt(700, (maxInt(k.tokenLen, 512) * One) \div 512, 2500)
  IN  Clamp(600, Times(vectorPenalty, tokenPenalty), 3500)

dataPreprocessRuntimeSecondsMultiplier(k, tokens) ==
  LET bytesPenalty == Sqrt(600, maxInt(k.inputBytes, 4 * tokens) \div 4000, 4000)
  IN  Clamp(600, Times(bytesPenalty, One + k.tokenization + k.augmentation), 6000)

\* The teacher's profile defaults to the workload's own.
Teacher(input) == IF input.knobs.teacher = "" THEN input.profile ELSE input.knobs.teacher

distillationRuntimeSecondsMultiplier(input) ==
  LET k == input.knobs
      profilePenalty == Sqrt(750, Over(profileTokensPerSecond[input.profile],
                                       profileTokensPerSecond[Teacher(input)]), 1500)
  IN  Clamp(600, Over(Times(One + k.teacherForward, profilePenalty),
                      Gain(200, maxInt(k.batch, 1), 2000)), 3500)

RuntimeSecondsMultiplier(input) ==
  LET k == input.knobs
  IN  CASE input.kind = "training"        -> trainingRuntimeSecondsMultiplier(k)
        [] input.kind = "eval"            -> evalRuntimeSecondsMultiplier(k)
        [] input.kind = "fine_tune"       -> fineTuneRuntimeSecondsMultiplier(k)
        [] input.kind = "rlhf"            -> rlhfRuntimeSecondsMultiplier(k)
        [] input.kind = "embedding"       -> embeddingRuntimeSecondsMultiplier(k)
        [] input.kind = "data_preprocess" -> dataPreprocessRuntimeSecondsMultiplier(k, input.tokens)
        [] input.kind = "distillation"    -> distillationRuntimeSecondsMultiplier(input)
        [] OTHER                          -> One

-----------------------------------------------------------------------------
SupportedKinds ==
  {"training", "inference", "eval", "fine_tune", "rlhf", "embedding",
   "data_preprocess", "distillation"}

\* The fractions of a section, which must be within [0, 1].
Overheads(input) ==
  LET k == input.knobs
  IN  CASE input.kind = "eval"            -> {k.metric, k.validation}
        [] input.kind = "fine_tune"       -> {k.warmStart, k.checkpointLoad}
        [] input.kind = "data_preprocess" -> {k.tokenization, k.augmentation}
        [] input.kind = "distillation"    -> {k.teacherForward}
        [] OTHER                          -> {}

\* Mutant of StartAccepts: a fraction of 1 is refused.
StartAcceptsBelowOne(input) ==
  /\ input.tokens > 0 /\ input.profile \in Known /\ input.kind \in SupportedKinds
  /\ \A pct \in input.jitter : 0 < pct /\ pct <= One
  /\ \A pct \in Overheads(input) : 0 <= pct /\ pct < One
  /\ input.kind = "distillation" => Teacher(input) \in DOMAIN hardwareProfiles

\* What StartWithRuntimeInput and estimateDuration check of their input.
StartAccepts(input) ==
  /\ input.tokens > 0 /\ input.profile \in Known /\ input.kind \in SupportedKinds
  /\ \A pct \in input.jitter : 0 < pct /\ pct <= One
  /\ \A pct \in Overheads(input) : 0 <= pct /\ pct <= One
  /\ input.kind = "distillation" => Teacher(input) \in DOMAIN hardwareProfiles

\* Mutant of EffectiveTPS: the devices do not count.
EffectiveTPSOfOne(input, deviceCount) ==
  Times(Times(profileTokensPerSecond[input.profile],
              hardwareThroughputFactor(input.profile, deviceCount)),
        BatchEfficiencyMultiplier(input.kind, input.knobs))

EffectiveTPS(input, deviceCount) ==
  Times(Times(profileTokensPerSecond[input.profile],
              hardwareThroughputFactor(input.profile, deviceCount)) * deviceCount,
        BatchEfficiencyMultiplier(input.kind, input.knobs))

\* The minimum of one second.
AtLeastOne(seconds) == IF seconds < One THEN One ELSE seconds

\* Mutant of applyRuntimeJitter: the floor is applied before the jitter only.
applyRuntimeJitterNoFloor(seconds, delta) == Times(seconds, One + delta)

\* delta is the random number, at most the pct of the input.
applyRuntimeJitter(seconds, delta) == AtLeastOne(Times(seconds, One + delta))

\* The seconds of a run, rounded up.
wholeSeconds(input, deviceCount, delta) ==
  LET seconds == AtLeastOne(Times(Over(input.tokens, EffectiveTPS(input, deviceCount)),
                                  RuntimeSecondsMultiplier(input)))
      jittered == IF input.jitter = {} THEN seconds ELSE applyRuntimeJitter(seconds, delta)
  IN  (jittered + One - 1) \div One

\* time.Duration(seconds * time.Second): Go leaves it to the build what a float
\* that no int64 represents becomes.
Duration(seconds) == IF seconds <= MaxDuration THEN seconds ELSE Beyond

\* The duration of a run, in seconds.
estimateDuration(input, deviceCount, delta) ==
  Duration(wholeSeconds(input, deviceCount, delta))

\* A run of so many tokens takes no longer: 3.2 ms each and two seconds.
MaxSeconds(tokens) == 2 + (16 * tokens) \div 5000
==============================================================================
