---------------------------- MODULE MCServStatus ----------------------------
(***************************************************************************)
(* Small instances of ServStatus for TLC.                                  *)
(***************************************************************************)
EXTENDS ServStatus, TLC

=============================================================================
