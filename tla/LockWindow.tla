----------------------------- MODULE LockWindow -----------------------------
(* What the investigation lock promises for one key: whoever is granted    *)
(* it, and wherever, was not preceded by another grant less than gap ago.  *)
EXTENDS Integers

CONSTANTS Caller, Time
VARIABLES
    granted,   \* when each caller was last granted the lock; -1: never
    gap        \* fixed for as long as the program runs

LWInit == granted = [c \in Caller |-> -1] /\ gap \in Int

Grant(c, t) ==
    /\ \A d \in Caller : granted[d] # -1 => t >= granted[d] + gap
    /\ granted' = [granted EXCEPT ![c] = t]
    /\ UNCHANGED gap

LWNext == \E c \in Caller : \E t \in Time : Grant(c, t)

LWSpec == LWInit /\ [][LWNext]_<<granted, gap>>
=============================================================================
