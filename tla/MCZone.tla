------------------------------- MODULE MCZone -------------------------------
(* Every zone of three names. *)
EXTENDS Zone
CONSTANTS x, y, z
XYZ == {x, y, z}
=============================================================================
