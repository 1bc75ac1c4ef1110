-------------------------- MODULE MCQuuppaAdapter ---------------------------
(* Model values for the runs of QuuppaAdapter. *)
EXTENDS QuuppaAdapter

CONSTANTS t1, t2, z1

MCOneTag == {t1}
MCTwoTags == {t1, t2}
MCOneZone == {z1}
MCNoZone == {}
MCTwoTypes == {"position", "noLocation"}
MCOneType == {"position"}
MCOneMovement == {"moving"}
=============================================================================
