--------------------------- MODULE MCStandBackup ---------------------------
(* Model checking of StandBackup.  One item is enough for every property: each *)
(* speaks of one item at a time, and no action looks at two but the waiting    *)
(* for the exporter and the search for running instances, which are universal. *)
EXTENDS StandBackup

OneItem == {"item"}
=============================================================================
