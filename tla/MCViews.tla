------------------------------ MODULE MCViews ------------------------------
(* Views over the screens of the application: two subjects, two rows.       *)
EXTENDS Views, Screens, TLC

CONSTANTS k1, k2, r1, r2

Symmetry == Permutations(Subject) \cup Permutations(Row)

==============================================================================
