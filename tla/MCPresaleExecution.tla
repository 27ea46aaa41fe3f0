------------------------ MODULE MCPresaleExecution ------------------------
(* The execution half for TLC: rules with one approval node.               *)
EXTENDS PresaleExecution, TLC

CONSTANTS ann, bob

MCPersons == {ann, bob}

(* One of the two leaves, is frozen, or is reported invalid and valid      *)
(* again; the other one stays.                                             *)
MCLeavers == {ann}
MCSnapshots == {{}, {ann}}

MCSymmetry == Permutations(MCPersons)

MCNodes == <<"APPROVAL", "DEPARTMENT_ASSIGNMENT">>
OneLevel == {FALSE}
LeadFirst == {TRUE}
BothLevels == BOOLEAN

=============================================================================
