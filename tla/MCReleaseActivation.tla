------------------------ MODULE MCReleaseActivation ------------------------
(* Small instances of ReleaseActivation. *)
EXTENDS ReleaseActivation

CONSTANTS A, B, C, dashboard, cli
=============================================================================
