---------------------------- MODULE MCRepository ----------------------------
(* Model values for the runs of Repository. *)
EXTENDS Repository, TLC

CONSTANTS a1, a2, c1

MCOneActor == {a1}
MCTwoActors == {a1, a2}
MCOneCaller == {c1}
MCSnapshots == {"A", "B"}

MCOwnsAll == [c \in Callers |-> Actors]
\* Each caller writes events of an actor of its own, after which it is named.
\* The two pairs can be exchanged.
MCOwnsOne == [c \in Callers |-> {c}]
MCExchange == Permutations(MCTwoActors)
=============================================================================
