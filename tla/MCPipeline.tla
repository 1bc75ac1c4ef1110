----------------------------- MODULE MCPipeline -----------------------------
(* Model values for the runs of Pipeline. *)
EXTENDS Pipeline

CONSTANTS t1, z1, null

MCTags == {t1}
MCZones == {z1}
MCNullZones == {null}
MCLocationTypes == {"position", "noLocation"}
MCMovements == {"moving"}
MCPacketAges == {0}
=============================================================================
