------------------------------- MODULE Presale -------------------------------
(***************************************************************************)
(* A presale request as a whole: the commands of both halves, the approval *)
(* engine and the personnel synchronisation interleave on one request row. *)
(*                                                                         *)
(* Each half was specified with a move that stands for the other one.      *)
(* Here the moves are the real steps, and the composition implements the   *)
(* specification of either half: what holds of a half holds of the whole.  *)
(***************************************************************************)
EXTENDS PresaleApproval, PresaleExecution

vars == <<requestVars, approvalVars, executionVars>>

Init == ApprovalInit /\ ExecutionInit

Next == \/ ApprovalSteps /\ UNCHANGED executionVars
        \/ ExecutionSteps /\ UNCHANGED approvalVars

(* One request: every transaction locks its row, so steps of the two       *)
(* halves are never simultaneous.                                          *)
Spec == Init /\ [][Next]_vars

(* Assignments belong to an approved round: whoever waits for executors,   *)
(* executes or has completed the request does so after all approvals of    *)
(* this round, under a lead and with executors who are current rows.       *)
ExecutedAsApproved ==
    /\ RoundFullyApproved
    /\ StatusFitsAssignments

=============================================================================
