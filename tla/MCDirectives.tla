---------------------------- MODULE MCDirectives ----------------------------
(* Model values for the runs of Directives. *)
EXTENDS Directives

CONSTANTS quuppa, vision

MCProviders == <<quuppa, vision>>
=============================================================================
