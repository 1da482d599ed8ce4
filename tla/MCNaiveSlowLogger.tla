------------------------- MODULE MCNaiveSlowLogger -------------------------
(***************************************************************************)
(* The instance of NaiveSlowLogger for TLC.                                *)
(***************************************************************************)
EXTENDS NaiveSlowLogger

=============================================================================
