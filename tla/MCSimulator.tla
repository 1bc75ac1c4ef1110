----------------------------- MODULE MCSimulator ----------------------------
(* Model values for the run of Simulator. *)
EXTENDS Simulator

CONSTANTS t1, t2, z1, z2, null

MCTagOrder == <<t1, t2>>
MCTags == {t1, t2}
MCZoneOrder == <<z1, z2>>
MCZones == {z1, z2}
MCNullZones == {null}
MCLocationTypes == {"position", "noLocation"}
MCMovements == {"moving", ""}
MCPacketAges == {0}
MCScenarios == {"walk", "offline", "lost", "stress"}

\* Of a last run that validates nothing, or in which something has gone wrong on
\* a core that knows the tags, no property says anything any more.
Undecided == starts = MaxStarts => Validating /\ (excused => fresh)

\* Bound: while a generator runs, events of one tag at most wait in the channel.
FewWaiting == ~Validating => \E u \in Tags : \A t \in Tags \ {u} : queue[t] = <<>>

\* The put of what has been cached commutes with every other step of a core that
\* does not stop (the cache is looked up first): it is taken at once.
PutFirst == owed # {} => owed' = {}
=============================================================================
