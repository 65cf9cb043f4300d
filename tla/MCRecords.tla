----------------------------- MODULE MCRecords -----------------------------
(* An instance of Records small enough for TLC.                            *)
EXTENDS Records, TLC
=============================================================================
