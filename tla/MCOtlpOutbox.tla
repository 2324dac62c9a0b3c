---------------------------- MODULE MCOtlpOutbox ----------------------------
(* Instances of OtlpOutbox for TLC. *)
EXTENDS OtlpOutbox, TLC

CONSTANTS d1, a1, x1, x2, h1, h2, h3

OneDevice == [a \in Asset |-> d1]

\* A heartbeat weighs one byte.  A state weighs more than a batch may; or h2 does, and h3
\* weighs more than any queue holds.
StatesOverBatch == [p \in Payload |-> IF p = Beat THEN 1 ELSE 3]
HeavyBytes == [p \in Payload |-> IF p = h3 THEN 5 ELSE IF p = h2 THEN 3 ELSE 1]

\* Workers are interchangeable.
Workers == Permutations({x1, x2})

=============================================================================
