--------------------------- MODULE MCAppDisplays ---------------------------
(* AppDisplays on small sets of applications and displays.  The handlers    *)
(* treat all packages alike, so applications may be permuted.               *)
EXTENDS AppDisplays, TLC

AppSymmetry == Permutations(Apps)
=============================================================================
