------------------------------ MODULE HandOut ------------------------------
(* What the store of pending fixes promises for one of them: at most one   *)
(* approval ever receives it, and none after it was dropped.  Remediation  *)
(* takes this for granted in its action Take.                              *)
CONSTANT Taker
VARIABLES available, got    \* got: the approvals that received the fix

HOInit == available = TRUE /\ got = {}

Give(t) == available /\ available' = FALSE /\ got' = {t}

(* Expired, or taken by an approval that never hears of it.                *)
Drop == available /\ available' = FALSE /\ UNCHANGED got

HONext == Drop \/ \E t \in Taker : Give(t)

HOSpec == HOInit /\ [][HONext]_<<available, got>>
=============================================================================
