--------------------------- MODULE MCRotatingFile ---------------------------
(***************************************************************************)
(* The instance of RotatingFile for TLC.                                   *)
(***************************************************************************)
EXTENDS RotatingFile

=============================================================================
