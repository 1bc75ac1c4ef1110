------------------------------ MODULE MCWatch -------------------------------
(* Model values for the runs of Watch. *)
EXTENDS Watch

CONSTANTS a1, a2

\* The hypothesis of the theorems about Watch: it holds of this run's sequence
\* numbers, and of all up to 1100: one digit to four, padded or not.
ASSUME MCOffsetsAssumption ==
    /\ OffsetsRoundTrip
    /\ \A n \in 1 .. 1100 : encodeOffset(n) # <<>> /\ decodeOffset(encodeOffset(n)) = n

MCOneActor == {a1}
MCTwoActors == {a1, a2}
\* A filter of one known type, which names an unknown one too, and one of two.
MCRequests == {{"unspecified", "presence"}, {"zone", "presence"}}
MCOneType == {{"zone"}}
MCTwoTypes == {{"zone", "presence"}}
=============================================================================
