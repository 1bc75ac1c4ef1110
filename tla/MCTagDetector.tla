--------------------------- MODULE MCTagDetector ----------------------------
(* Model values and symmetry for the runs of TagDetector. *)
EXTENDS TagDetector, TLC

CONSTANTS t1, t2, z1, null

MCTwoTags == {t1, t2}
MCOneZone == {z1}
\* Not a set of zones, and yet one that TLC can compare with such sets.
MCNullZones == {null}

MCMovements == {"moving", "stationary"}
MCTwoTypes == {"position", "noLocation"}

\* Tags are interchangeable.
MCSymmetry == Permutations(Tags)
=============================================================================
