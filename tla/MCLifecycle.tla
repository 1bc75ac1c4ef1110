---------------------------- MODULE MCLifecycle -----------------------------
(* Model values for the runs of Lifecycle. *)
EXTENDS Lifecycle

CONSTANTS quuppa, vision, s1, s2

MCTwoProviders == {quuppa, vision}
MCTwoClients == {s1, s2}
=============================================================================
