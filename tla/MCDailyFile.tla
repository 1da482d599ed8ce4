---------------------------- MODULE MCDailyFile ----------------------------
(***************************************************************************)
(* The instance of DailyFile for TLC.                                      *)
(***************************************************************************)
EXTENDS DailyFile

=============================================================================
