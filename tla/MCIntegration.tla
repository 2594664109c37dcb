--------------------------- MODULE MCIntegration ---------------------------
(***************************************************************************)
(* Instances of Integration for TLC: two installs at once, which may be    *)
(* killed, after any number of earlier ones, and an editor.                *)
(***************************************************************************)
EXTENDS Integration, TLC
CONSTANTS i1, i2

InstallSymmetry == Permutations({i1, i2})
=============================================================================
