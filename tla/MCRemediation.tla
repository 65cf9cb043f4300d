--------------------------- MODULE MCRemediation ---------------------------
(* Instances of Remediation small enough for TLC.                          *)
EXTENDS RemediationInv, TLC

Symmetry == Permutations(Plan) \cup Permutations(Worker) \cup Permutations(Approver)
            \cup Permutations(Monitor)
=============================================================================
