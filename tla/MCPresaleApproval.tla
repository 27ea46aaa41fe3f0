------------------------- MODULE MCPresaleApproval -------------------------
(* The approval half for TLC: one applicant and two deciders, of whom boss *)
(* (a super admin) may decide every node.                                  *)
EXTENDS PresaleApproval, TLC

CONSTANTS sales, director, boss

MCUsers == {sales, director, boss}
MCAdmins == {boss}
MCBothModes == BOOLEAN

(* A rule that assigns a department between its two approval nodes.        *)
MCNodes == <<"APPROVAL", "DEPARTMENT_ASSIGNMENT", "APPROVAL">>
LeadFirst == {TRUE}

MCCanDecide == (1 :> {director, boss}) @@ (3 :> {boss})

=============================================================================
