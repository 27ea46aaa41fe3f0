------------------------- MODULE MCPresaleHandover -------------------------
(* Execution with handovers for TLC: rules with one approval node.         *)
EXTENDS PresaleHandover, TLC

CONSTANTS ann, bob

MCPersons == {ann, bob}
MCSnapshots == {{}}
MCSymmetry == Permutations(MCPersons) \cup Permutations(Keys)

MCNodes == <<"APPROVAL", "DEPARTMENT_ASSIGNMENT">>
OneLevel == {FALSE}
LeadFirst == {TRUE}

=============================================================================
