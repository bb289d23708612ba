----------------------------- MODULE CanTimings -----------------------------
(***************************************************************************)
(* The bit timing of the bxCAN controller (bxCANComputeTimings): from the  *)
(* clock of the peripheral and the bit rate, in Hz, the prescaler and the  *)
(* two segments around the sample point.  A bit has 1 + bs1 + bs2 quanta.  *)
(* There is nothing to run: what it computes is proved (BxcanTxProofs).    *)
(***************************************************************************)
EXTENDS Integers

max_quanta_per_bit(bitrate) == IF bitrate >= 1000000 THEN 10 ELSE 17

(* The quotient is cut: a bit rate need not divide the clock.              *)
prescaler_bs(pclk, bitrate) == pclk \div bitrate

(* Numbers of quanta, at least three, that divide the clocks of a bit.     *)
Divisors(pclk, bitrate) ==
    {q \in 3 .. max_quanta_per_bit(bitrate) : prescaler_bs(pclk, bitrate) % q = 0}

(* The search goes down from the highest.                                  *)
Quanta(pclk, bitrate) ==
    CHOOSE q \in Divisors(pclk, bitrate) : \A p \in Divisors(pclk, bitrate) : p <= q

prescaler(pclk, bitrate) == prescaler_bs(pclk, bitrate) \div Quanta(pclk, bitrate)

sample_point_permill(bs1, quanta) == (1000 * (1 + bs1)) \div quanta

(* Seven eighths of the bit, to the nearest quantum or, if that is too     *)
(* late in the bit, to the one before.                                     *)
SegmentOne(quanta) ==
    LET nearest == (7 * (quanta - 1) - 1 + 4) \div 8
    IN  IF sample_point_permill(nearest, quanta) > 900
        THEN (7 * (quanta - 1) - 1) \div 8 ELSE nearest

SegmentTwo(quanta) == quanta - 1 - SegmentOne(quanta)

(* The search succeeds.                                                    *)
HasSolution(pclk, bitrate) ==
    /\ bitrate >= 1000
    /\ Divisors(pclk, bitrate) # {}
    /\ prescaler(pclk, bitrate) \in 1 .. 1024

ValidSegments(bs1, bs2) == bs1 \in 1 .. 16 /\ bs2 \in 1 .. 8

(* The final validation; when it fails the code asserts, and returns false.*)
PassesValidation(pclk, bitrate) ==
    LET quanta == Quanta(pclk, bitrate)
    IN  /\ bitrate = pclk \div (prescaler(pclk, bitrate) * quanta)
        /\ ValidSegments(SegmentOne(quanta), SegmentTwo(quanta))

(* bxCANComputeTimings returns true.                                       *)
Computed(pclk, bitrate) == HasSolution(pclk, bitrate) /\ PassesValidation(pclk, bitrate)
=============================================================================
