---------------------------- MODULE MCTaskSync ----------------------------
(* A small instance of TaskSync for TLC. *)
EXTENDS TaskSync

CONSTANTS j1, j2, private, public, own
=============================================================================
