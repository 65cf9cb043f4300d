------------------------------ MODULE Mandate ------------------------------
(***************************************************************************)
(* What the lifecycle of a remediation promises of pull requests: to open  *)
(* one takes a right.  A person who is asked gives it, or nobody is asked, *)
(* in auto-fix mode; whoever has it uses it or loses it, and it is never   *)
(* given again.                                                            *)
(***************************************************************************)
CONSTANTS Plan, Mode
VARIABLES right, pr

MandateInit ==
    /\ right = [p \in Plan |-> "none"]
    /\ pr = [p \in Plan |-> "none"]

Turns(p, old, new) == right[p] = old /\ right' = [right EXCEPT ![p] = new]

Ask(p)   == Mode # "dry-run" /\ Turns(p, "none", "asked") /\ UNCHANGED pr
Grant(p) == Turns(p, "asked", "held") /\ UNCHANGED pr
Waive(p) == Mode = "auto-fix" /\ Turns(p, "none", "held") /\ UNCHANGED pr

(* Whether or not the one who opens it hears of it.                        *)
Open(p) == Turns(p, "held", "gone") /\ pr' = [pr EXCEPT ![p] = "open"]

(* Approvals expire, checks and calls fail, processes die.                 *)
Lose(S) ==
    /\ right' = [p \in Plan |-> IF p \in S THEN "gone" ELSE right[p]]
    /\ UNCHANGED pr

Decide(p, fate) ==
    /\ pr[p] = "open"
    /\ pr' = [pr EXCEPT ![p] = fate]
    /\ UNCHANGED right

MandateNext ==
    \/ \E p \in Plan : \/ Ask(p) \/ Grant(p) \/ Waive(p) \/ Open(p)
                       \/ \E fate \in {"merged", "closed"} : Decide(p, fate)
    \/ \E S \in SUBSET Plan : Lose(S)

MandateSpec == MandateInit /\ [][MandateNext]_<<right, pr>>
=============================================================================
