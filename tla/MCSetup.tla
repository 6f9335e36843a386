------------------------------ MODULE MCSetup ------------------------------
(***************************************************************************)
(* Instances of DyscoSetup for TLC: sessions that pass each other, or one  *)
(* of which packets are sent again, as it is or translated.                *)
(***************************************************************************)
EXTENDS DyscoSetup

CONSTANTS s1, s2

SetupLoad(ss, tr, tag, n) ==
    [sessions |-> ss, translated |-> tr, tag |-> tag, again |-> n]

MixedLoads ==
    {SetupLoad({s1, s2}, {}, 1, 0), SetupLoad({s1}, {}, 1, 2), SetupLoad({s1}, {s1}, 0, 2)}

\* All sessions' five-tuples share a bucket.
AllCollide == [s \in Sessions |-> 1]
=============================================================================
