---------------------------- MODULE MCAcquisition ----------------------------
(* An instance of Acquisition for TLC: thirteen pixels, of which two are dark. *)
EXTENDS Acquisition

\* All counts are even, so that a correction that halves them is exact.
Ramp == [p \in Pixel |-> IF p < start THEN 0 ELSE 2 * (p - start)]
Peak == [p \in Pixel |-> IF p = start + 3 THEN 12 ELSE 2]

\* The brighter ramp is beyond what a short holds, for some pixels.
Exposures == {[light |-> Ramp, dim |-> 1, dark |-> 2], [light |-> Ramp, dim |-> 3, dark |-> 4],
              [light |-> Peak, dim |-> 1, dark |-> 6], [light |-> Peak, dim |-> 2, dark |-> 2]}

Orders == {<<>>, <<2, 0>>}
ASSUME OrdersExact == \A order \in Order : Exact(order)

=============================================================================
