------------------------------ MODULE Storage ------------------------------
(* What the records of History have in common: they are rows of Postgres   *)
(* when DB_HOST is set, and maps of the one process when it is not.        *)
CONSTANT
    DBFaults   \* statements and commits may fail

ASSUME FaultsAssumption == DBFaults \in BOOLEAN

VARIABLE
    hasDB      \* whether a database is configured; it does not change
=============================================================================
