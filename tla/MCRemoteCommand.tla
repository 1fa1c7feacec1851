--------------------------- MODULE MCRemoteCommand --------------------------
(* Constants of RemoteCommand for TLC. *)
EXTENDS RemoteCommand

CONSTANTS w1, w2, m1, m2, c1, c2

OneName == [w \in Workers |-> m1]

OneAttempt == [w \in Workers |-> 1]

TwoAttempts == [w \in Workers |-> 2]

RetryOnFirst == [w \in Workers |-> IF w = w1 THEN 2 ELSE 1]

ThreeAttempts == [w \in Workers |-> 3]

OneInterval == <<1>>

TwoIntervals == <<1, 2>>
=============================================================================
