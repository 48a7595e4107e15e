-------------------------------- MODULE Soma --------------------------------
(***************************************************************************)
(* SomaState::process_neuron (soma.cpp): one transition of one neuron.     *)
(* soma holds the parameters of the layer; leak is a fraction <<n, d>>,    *)
(* width the width of the integers of an unsigned comparison.  Floats are  *)
(* integers here, so a leak other than 1 comes with a quantization step.   *)
(***************************************************************************)
EXTENDS Integers

Truncated(n, d) == IF n >= 0 THEN n \div d ELSE -((-n) \div d)

SomaValid(soma, thresholds) ==
    /\ \A i \in DOMAIN thresholds : thresholds[i] >= 0
    /\ soma.threshold > 0
    /\ soma.step >= 0 /\ soma.scale > 0 /\ soma.min < soma.max
    /\ soma.model = "st_bif" => soma.leak = <<1, 1>> /\ soma.tracer_min <= soma.tracer_max

Leaked(soma, v) ==
    IF soma.step > 0
      THEN Truncated(v * soma.leak[1], soma.leak[2] * soma.step) * soma.step
      ELSE v

Clamped(soma, v) ==
    IF v > soma.max THEN soma.max ELSE IF v < soma.min THEN soma.min ELSE v

(* int32 membrane against uint32 threshold under unsigned_promotion.       *)
Reached(soma, v, threshold) ==
    LET x == IF soma.unsigned THEN v % (2 ^ soma.width) ELSE v
    IN  IF soma.greater THEN x > threshold ELSE x >= threshold

(* Mutant of StBif: one spike past the range of the tracer.                *)
StBifInclusive(soma, threshold, v, tracer) ==
    LET value == IF v >= threshold /\ tracer <= soma.tracer_max THEN 1
                 ELSE IF v < 0 /\ tracer >= soma.tracer_min THEN -1 ELSE 0
        fired == IF soma.readout THEN 0 ELSE value
    IN  [voltage |-> v - fired * threshold, tracer |-> tracer + fired, fired |-> fired]

(* The neuron after the transition, and the value it fires with, or 0.     *)
StBif(soma, threshold, v, tracer) ==
    LET value == IF v >= threshold /\ tracer < soma.tracer_max THEN 1
                 ELSE IF v < 0 /\ tracer > soma.tracer_min THEN -1 ELSE 0
        fired == IF soma.readout THEN 0 ELSE value
    IN  [voltage |-> v - fired * threshold, tracer |-> tracer + fired, fired |-> fired]

Lif(soma, threshold, v, tracer, saturated) ==
    LET held == saturated /\ soma.saturation_fires
        fires == ~ soma.readout /\ (held \/ Reached(soma, v, threshold))
    IN  [voltage |-> IF ~ fires \/ held THEN v
                     ELSE IF soma.reset = "soft" THEN v - threshold ELSE 0,
         tracer |-> tracer,
         fired |-> IF fires THEN 1 ELSE 0]

process_neuron(soma, threshold, neuron, input, pending, bias) ==
    LET raw == Leaked(soma, neuron.voltage) + soma.scale * (input + bias)
        v == Clamped(soma, raw)
    IN  IF ~ pending /\ bias = 0 /\ neuron.voltage = 0
          THEN [voltage |-> 0, tracer |-> neuron.tracer, fired |-> 0]
        ELSE IF soma.model = "st_bif"
          THEN StBif(soma, threshold, v, neuron.tracer)
        ELSE Lif(soma, threshold, v, neuron.tracer, raw > soma.max)
=============================================================================
