--------------------------- MODULE AutoFixLimiter ---------------------------
(***************************************************************************)
(* allowAutoFixPR: at most config.ModeAutoFixMaxPRPerHour automatic pull   *)
(* requests in any hour.  Without a database a list of times is pruned,    *)
(* counted and extended under autoFixMu.  With one, AllowAutoFixPR does    *)
(* the same in a transaction of three statements on autofix_events, at     *)
(* READ COMMITTED: its count sees what others have committed, and nothing  *)
(* keeps them from inserting after it.                                     *)
(***************************************************************************)
EXTENDS Integers, FiniteSetsExt, Storage

CONSTANTS
    Opener,      \* goroutines that open automatic pull requests
    MaxPerHour,
    Hour,        \* the length of an hour in steps of the clock
    MaxOpenTime      \* bound on time

ASSUME LimiterAssumption ==
    /\ MaxPerHour \in Nat \ {0} /\ Hour \in Nat \ {0} /\ MaxOpenTime \in Nat
    /\ IsFiniteSet(Opener)

VARIABLES
    openNow,
    events,     \* number of recorded events by their created_at
    allowed,    \* number of callers told true, by the created_at of their event
    openPc,
    cutoff,     \* an hour before a caller began
    eventAt       \* created_at of the event a caller is about to commit

limiterVars == <<hasDB, openNow, events, allowed, openPc, cutoff, eventAt>>
OpenTime == 0..MaxOpenTime

LimiterTypeOK ==
    /\ hasDB \in BOOLEAN
    /\ openNow \in OpenTime
    /\ events \in [OpenTime -> Nat] /\ allowed \in [OpenTime -> Nat]
    /\ openPc \in [Opener -> {"idle", "locked", "count", "insert", "commit"}]
    /\ cutoff \in [Opener -> -Hour..MaxOpenTime]
    /\ eventAt \in [Opener -> OpenTime]

LimiterInit ==
    /\ hasDB \in BOOLEAN
    /\ openNow = 0
    /\ events = [t \in OpenTime |-> 0] /\ allowed = [t \in OpenTime |-> 0]
    /\ openPc = [c \in Opener |-> "idle"]
    /\ cutoff = [c \in Opener |-> 0] /\ eventAt = [c \in Opener |-> 0]

OpenGoto(c, label) == openPc' = [openPc EXCEPT ![c] = label]

Number(f, S) == MapThenSumSet(LAMBDA t : f[t], S)

(* The events that are left when those of the times in S are all that is   *)
(* kept.                                                                   *)
Kept(S) == [t \in OpenTime |-> IF t \in S THEN events[t] ELSE 0]
AddEvent(f, t) == [f EXCEPT ![t] = @ + 1]
After(c) == {t \in OpenTime : t > cutoff[c]}
Since(c) == {t \in OpenTime : t >= cutoff[c]}

(* Mutant: the hour is taken twice.                                        *)
BeginTwoHoursAgo(c) ==
    /\ openPc[c] = "idle"
    /\ cutoff' = [cutoff EXCEPT ![c] = openNow - 2 * Hour]
    /\ OpenGoto(c, IF hasDB THEN "count" ELSE "locked")
    /\ UNCHANGED <<hasDB, openNow, events, allowed, eventAt>>

(* The cutoff is read before the mutex is taken, or for the DELETE.        *)
BeginOpen(c) ==
    /\ openPc[c] = "idle"
    /\ cutoff' = [cutoff EXCEPT ![c] = openNow - Hour]
    /\ OpenGoto(c, IF hasDB THEN "count" ELSE "locked")
    /\ UNCHANGED <<hasDB, openNow, events, allowed, eventAt>>

ReturnAllowed(c) ==
    /\ OpenGoto(c, "idle")
    /\ cutoff' = [cutoff EXCEPT ![c] = 0]
    /\ eventAt' = [eventAt EXCEPT ![c] = 0]

(* Mutant: the limit is compared with > .                                  *)
DecideOneMore(c) ==
    /\ openPc[c] = "locked"
    /\ IF Number(events, After(c)) > MaxPerHour
         THEN events' = Kept(After(c)) /\ UNCHANGED allowed
         ELSE /\ events' = AddEvent(Kept(After(c)), openNow)
              /\ allowed' = AddEvent(allowed, openNow)
    /\ ReturnAllowed(c)
    /\ UNCHANGED <<hasDB, openNow>>

(* The critical section of autoFixMu.                                      *)
DecideInMemory(c) ==
    /\ openPc[c] = "locked"
    /\ IF Number(events, After(c)) >= MaxPerHour
         THEN events' = Kept(After(c)) /\ UNCHANGED allowed
         ELSE /\ events' = AddEvent(Kept(After(c)), openNow)
              /\ allowed' = AddEvent(allowed, openNow)
    /\ ReturnAllowed(c)
    /\ UNCHANGED <<hasDB, openNow>>

(* SELECT COUNT, after the DELETE of what is older than the cutoff, which  *)
(* is committed although the caller is refused.                            *)
CountEvents(c) ==
    /\ openPc[c] = "count"
    /\ IF Number(events, Since(c)) >= MaxPerHour
         THEN events' = Kept(Since(c)) /\ ReturnAllowed(c)
         ELSE OpenGoto(c, "insert") /\ UNCHANGED <<events, cutoff, eventAt>>
    /\ UNCHANGED <<hasDB, openNow, allowed>>

InsertEvent(c) ==
    /\ openPc[c] = "insert"
    /\ eventAt' = [eventAt EXCEPT ![c] = openNow]
    /\ OpenGoto(c, "commit")
    /\ UNCHANGED <<hasDB, openNow, events, allowed, cutoff>>

(* When the reply is lost the event counts although the caller gives up.   *)
CommitEvent(c) ==
    /\ openPc[c] = "commit"
    /\ events' = AddEvent(Kept(Since(c)), eventAt[c])
    /\ \/ allowed' = AddEvent(allowed, eventAt[c])
       \/ DBFaults /\ UNCHANGED allowed
    /\ ReturnAllowed(c)
    /\ UNCHANGED <<hasDB, openNow>>

(* A statement fails, or the ten seconds of the context are over.          *)
FailOpen(c) ==
    /\ DBFaults
    /\ openPc[c] \in {"count", "insert", "commit"}
    /\ ReturnAllowed(c)
    /\ UNCHANGED <<hasDB, openNow, events, allowed>>

LimiterTick ==
    /\ openNow < MaxOpenTime
    /\ openNow' = openNow + 1
    /\ UNCHANGED <<hasDB, events, allowed, openPc, cutoff, eventAt>>

LimiterNext ==
    \/ \E c \in Opener : \/ BeginOpen(c) \/ DecideInMemory(c)
                         \/ CountEvents(c) \/ InsertEvent(c) \/ CommitEvent(c) \/ FailOpen(c)
    \/ LimiterTick

LimiterSpec == LimiterInit /\ [][LimiterNext]_limiterVars

-----------------------------------------------------------------------------
AllowedInHourTo(t) == Number(allowed, {u \in OpenTime : t - Hour < u /\ u <= t})

(* No hour, wherever it begins, sees more automatic pull requests allowed  *)
(* than the configured number, if the list is in memory.  The database     *)
(* lets every other caller in once more, who counted before the first one  *)
(* committed, and no caller twice (allowAutoFixPR).                        *)
OverrunBounded ==
    \A t \in OpenTime :
        AllowedInHourTo(t) <= MaxPerHour + (IF hasDB THEN Cardinality(Opener) - 1 ELSE 0)
=============================================================================
