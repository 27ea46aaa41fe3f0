---------------------------- MODULE MCOpportunity ----------------------------
(* Opportunity for TLC: a customer that may be merged and its contract, a  *)
(* quotation and a bid that is won or lost.                                *)
EXTENDS Opportunity, TLC

CONSTANTS k1, acme, zeta

MCBelongsTo == k1 :> acme
MCTargets == {"SOLUTION", "SIGNED", "FAILED"}
Report(s, st, k, lost) == [source |-> s, status |-> st, ref |-> k, reason |-> lost]
MCReports == {Report("q", "QUOTED", NoRef, FALSE),
              Report("q", "EXPIRED", NoRef, FALSE),
              Report("b", "WON", NoRef, FALSE), Report("b", "WON", k1, FALSE),
              Report("b", "LOST", NoRef, FALSE)}

=============================================================================
