---------------------------- MODULE Calibration ----------------------------
(***************************************************************************)
(* What the proxy learns from the provider's token counts (calibrate.rs,   *)
(* and Proxy::observe): a running ratio of reported to estimated tokens    *)
(* for each upstream and model, which lowers the compaction threshold.     *)
(* Ratios are in thousandths, and all arithmetic is on natural numbers     *)
(* with division and shift rounding down, as in the code.                  *)
(***************************************************************************)
EXTENDS Integers, FiniteSets

CONSTANTS
  Key,            \* pairs of an upstream and a model
  MaxKeys,        \* MAX_CALIBRATIONS
  MinSamples,     \* MIN_SAMPLES
  MinEstimate,    \* MIN_SAMPLE_EST_TOKENS
  LowSample,      \* SAMPLE_RANGE_PERMILLE's start
  HighSample,     \* SAMPLE_RANGE_PERMILLE's end
  MinRatio,       \* MIN_RATIO_PERMILLE, which is 1.0
  MaxRatio,       \* MAX_RATIO_PERMILLE
  Weight,         \* 2 ^ WEIGHT_SHIFT
  Estimate,       \* estimates of the requests that are observed
  Reported,       \* counts that providers report
  MaxSamples      \* bound on the samples of one key

ASSUME KeyAssumption == IsFiniteSet(Key) /\ MaxKeys \in Nat \ {0}
ASSUME SampleAssumption ==
  /\ MinSamples \in Nat \ {0} /\ MaxSamples \in Nat
  /\ MinEstimate \in Nat \ {0}
  /\ LowSample \in Nat /\ HighSample \in Nat /\ LowSample <= HighSample
  /\ Weight \in Nat \ {0, 1}
ASSUME RatioAssumption ==
  /\ MinRatio \in Nat \ {0} /\ MaxRatio \in Nat /\ MinRatio <= MaxRatio
ASSUME CountAssumption == Estimate \subseteq Nat /\ Reported \subseteq Nat

VARIABLES
  calibrations,  \* Proxy.calibrations: the keys observed, with their records
  heard          \* the last observation: its key and sample

calibrationVars == <<calibrations, heard>>

Record == [samples: 0..MaxSamples, mean: Nat]

CalibrationTypeOK ==
  /\ DOMAIN calibrations \subseteq Key
  /\ \A k \in DOMAIN calibrations : calibrations[k] \in Record
  /\ heard \in [key: Key, sample: Nat]

Default == [samples |-> 0, mean |-> 0]

CalibrationInit ==
  /\ calibrations = [k \in {} |-> Default]
  /\ heard \in [key: Key, sample: {0}]

Known == DOMAIN calibrations
CalibrationOf(k) == IF k \in Known THEN calibrations[k] ELSE Default

-----------------------------------------------------------------------------
SampleOf(est, reported) == (reported * MinRatio) \div est

\* The mean moves one part in Weight of the way, rounded down either way.
MovedTooFar(mean, sample) == mean + Weight * (sample - mean)          \* Mutant
Moved(mean, sample) ==
  IF sample >= mean THEN mean + ((sample - mean) \div Weight)
                    ELSE mean - ((mean - sample) \div Weight)

\* A sample too small to trust, or unrelated to its request, is ignored.
Accepted(est, reported) ==
  /\ est >= MinEstimate
  /\ SampleOf(est, reported) \in LowSample..HighSample

\* Calibration::observe.
Observed(c, sample) ==
  [samples |-> c.samples + 1,
   mean |-> IF c.samples = 0 THEN sample ELSE Moved(c.mean, sample)]

\* A full map learns nothing about other keys.
MayEnter(k) == k \in Known \/ Cardinality(Known) < MaxKeys

\* Proxy::observe enters the key before the sample is judged.
Learn(k, est, reported) ==
  LET sample == SampleOf(est, reported)
      c == CalibrationOf(k)
  IN /\ MayEnter(k)
     /\ c.samples < MaxSamples
     /\ calibrations' =
          [q \in Known \union {k} |->
             IF q # k THEN calibrations[q]
             ELSE IF Accepted(est, reported) THEN Observed(c, sample) ELSE c]
     /\ heard' = IF Accepted(est, reported) THEN [key |-> k, sample |-> sample] ELSE heard

CalibrationNext == \E k \in Key, est \in Estimate, reported \in Reported : Learn(k, est, reported)

CalibrationSpec == CalibrationInit /\ [][CalibrationNext]_calibrationVars

-----------------------------------------------------------------------------
Clamped(n) == IF n < MinRatio THEN MinRatio ELSE IF n > MaxRatio THEN MaxRatio ELSE n

\* Calibration::ratio_permille.
Ratio(c) == IF c.samples < MinSamples THEN MinRatio ELSE Clamped(c.mean)

\* calibrated_threshold.
Threshold(tokens, ratio) == (tokens * MinRatio) \div ratio

-----------------------------------------------------------------------------
(* Properties *)

\* What is learned stays among what was heard: no rounding and no order of
\* samples takes the mean out of the accepted range.
MeanInRange ==
  \A k \in Known : calibrations[k].samples > 0 =>
    calibrations[k].mean \in LowSample..HighSample

\* Calibration can only make the proxy compact earlier, and never at less
\* than the configured part of its threshold.
OnlyEarlier ==
  \A k \in Known, tokens \in Estimate :
    Threshold(tokens, Ratio(calibrations[k])) \in Threshold(tokens, MaxRatio)..tokens

\* However many models are named, the map stays within its limit.
MapBounded == Cardinality(Known) <= MaxKeys

\* Nothing that was learned is forgotten, and a new sample moves the mean
\* towards itself, never past it: one model cannot disturb another.
Between(a, b, c) == (a <= b /\ b <= c) \/ (c <= b /\ b <= a)
TowardsSample ==
  \A k \in Known :
    /\ k \in Known' /\ calibrations'[k].samples >= calibrations[k].samples
    /\ calibrations'[k] # calibrations[k] /\ calibrations[k].samples > 0 =>
         /\ heard'.key = k
         /\ Between(calibrations[k].mean, calibrations'[k].mean, heard'.sample)
NeverOvershoots == [][TowardsSample]_calibrationVars
=============================================================================
