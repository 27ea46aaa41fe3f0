--------------------------- MODULE MCPortalAccess ---------------------------
(* PortalAccess for TLC.                                                   *)
EXTENDS PortalAccess

CONSTANTS k1, k2, r1, w1

=============================================================================
