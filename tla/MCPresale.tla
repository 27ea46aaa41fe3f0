------------------------------ MODULE MCPresale ------------------------------
(* The whole request for TLC: two deciders, of whom boss (a super admin,   *)
(* and the applicant) may decide every node, and one person to assign.     *)
EXTENDS Presale, TLC

CONSTANTS director, boss, ann

MCUsers == {director, boss}
MCAdmins == {boss}
MCNoEngine == {FALSE}
MCPersons == {ann}
MCSnapshots == {{}, {ann}}

(* A rule that assigns a department between its two approval nodes, and    *)
(* executors directly.                                                     *)
MCNodes == <<"APPROVAL", "DEPARTMENT_ASSIGNMENT", "APPROVAL">>
OneLevel == {FALSE}
MCCanDecide == (1 :> {director, boss}) @@ (3 :> {boss})

=============================================================================
