-------------------------------- MODULE Intake --------------------------------
(***************************************************************************)
(* How a failing pod comes to be diagnosed: the pod informer, the          *)
(* Alertmanager scraper, the performance scan and the webhook put work     *)
(* items into the queue of a replica, and the one worker of the replica    *)
(* that leads takes them out, reads the pod, locks its workload for half   *)
(* an hour and diagnoses it.  Time is kept as what is left of each window. *)
(* The investigation lock is InvestigationLock's: one atomic step here.    *)
(***************************************************************************)
EXTENDS Integers, Sequences, SequencesExt

CONSTANTS
    Replica, Nobody,
    Alone,       \* the replica there is when there is no database
    Pod, Key,
    PodKey,      \* Pod -> Key: the key the scanners lock
    Workload,    \* Pod -> Key: Kind-Name of the controller that owns the pod
    Owner,       \* Pod -> Key: what is left of it when the ReplicaSet cannot be read
    Namespace,   \* Pod -> its namespace
    Included, Excluded,   \* INCLUDED_NAMESPACES and EXCLUDED_NAMESPACES
    FailPod, AlertPod, SlowPod,   \* pods that fail, have a firing alert, serve badly
    MayGo,       \* pods that may be deleted
    Prometheus, MetricsAPI,   \* what NewController is given to read metrics from
    Window,      \* 30 minutes: of an investigation lock and of an alert's mark
    Limit,       \* the context of processDiagnostic: 2 minutes
    MaxFaults    \* bound on crashes, lapses of the lease and failed calls

ASSUME IntakeAssumption ==
    /\ Nobody \notin Replica /\ Alone \in Replica
    /\ {PodKey, Workload, Owner} \subseteq [Pod -> Key]
    /\ Pod = DOMAIN Namespace /\ FailPod \cup AlertPod \cup SlowPod \cup MayGo \subseteq Pod
    /\ {Prometheus, MetricsAPI} \subseteq BOOLEAN
    /\ Window \in Nat /\ Limit \in Nat /\ Limit < Window /\ MaxFaults \in Nat

VARIABLES
    hasDB,     \* a database, and with it HA_ENABLED, is configured
    lease,     \* whose lease it is
    leading,   \* the replicas in runLeaderWork
    gone,      \* the pods that were deleted
    queue,     \* per replica: the work queue
    delayed,   \* per replica: the items that wait out a back-off
    worker,    \* per replica: the worker and the item it processes
    again,     \* per replica: that item was added again meanwhile
    left,      \* per replica: what is left of the worker's context
    lock,      \* per key: what is left of investigation_locks' window
    mark,      \* per pod: what is left of processed_alerts' window
    faults

process == <<queue, delayed, worker, again, left>>
world == <<hasDB, gone>>
vars == <<world, lease, leading, process, lock, mark, faults>>

Reason == {"failing", "alert", "slow"}
Item == [pod : Pod, reason : Reason]
Idle == [pc |-> "idle"]
Busy == [pc : {"diagnose"}, item : Item, key : Key]

TypeOK ==
    /\ hasDB \in BOOLEAN /\ gone \subseteq Pod
    /\ lease \in Replica \cup {Nobody} /\ leading \subseteq Replica
    /\ queue \in [Replica -> Seq(Item)] /\ delayed \in [Replica -> SUBSET Item]
    /\ worker \in [Replica -> {Idle} \cup Busy] /\ again \in [Replica -> BOOLEAN]
    /\ left \in [Replica -> 0..Limit]
    /\ lock \in [Key -> 0..Window] /\ mark \in [Pod -> 0..Window]
    /\ faults \in 0..MaxFaults

Init ==
    /\ hasDB \in BOOLEAN
    /\ lease = Nobody /\ leading = {} /\ gone = {}
    /\ queue = [r \in Replica |-> <<>>] /\ delayed = [r \in Replica |-> {}]
    /\ worker = [r \in Replica |-> Idle] /\ again = [r \in Replica |-> FALSE]
    /\ left = [r \in Replica |-> 0]
    /\ lock = [k \in Key |-> 0] /\ mark = [p \in Pod |-> 0]
    /\ faults = 0

Faults(n) == faults + n <= MaxFaults /\ faults' = faults + n
Fault == Faults(1)

isNamespaceScoped(p) ==
    IF Included # {} THEN Namespace[p] \in Included ELSE Namespace[p] \notin Excluded

-----------------------------------------------------------------------------
(* The work queue of client-go: an item that waits already is not added    *)
(* twice, and one that is being processed is added when that is done.      *)
Add(r, p, reason) ==
    LET item == [pod |-> p, reason |-> reason]
        mine == worker[r] # Idle /\ worker[r].item = item
    IN  /\ again' = [again EXCEPT ![r] = @ \/ mine]
        /\ queue' = IF mine \/ item \in ToSet(queue[r]) THEN queue
                    ELSE [queue EXCEPT ![r] = Append(@, item)]

(* Mutants: the lock is taken but not asked for; a refusal renews it.      *)
GrantedUnasked(k, n) == lock' = [lock EXCEPT ![k] = Window] /\ Faults(n)
RefusedRenews(k, n) ==
    lock[k] > 0 /\ lock' = [lock EXCEPT ![k] = Window] /\ Faults(n)

(* CheckAndLockInvestigation: granted or refused, after n faults.  It also *)
(* refuses when the database fails, or only the reply to its commit does.  *)
Granted(k, n) ==
    lock[k] = 0 /\ lock' = [lock EXCEPT ![k] = Window] /\ Faults(n)
Refused(k, n) ==
    \/ lock[k] > 0 /\ UNCHANGED lock /\ Faults(n)
    \/ hasDB /\ Faults(n + 1) /\ UNCHANGED lock
    \/ hasDB /\ Faults(n + 1) /\ lock[k] = 0 /\ lock' = [lock EXCEPT ![k] = Window]

-----------------------------------------------------------------------------
(* Producers.  The informer calls back on every change, for every pod when *)
(* it starts and again every 30 seconds; the others run once a minute.     *)
enqueuePod(r, p) ==
    /\ r \in leading /\ p \in FailPod \ gone /\ isNamespaceScoped(p)
    /\ Add(r, p, "failing")
    /\ UNCHANGED <<world, lease, leading, delayed, worker, left, lock, mark, faults>>

(* Only the Prometheus client answers the bulk queries of the scan, and    *)
(* not the FallbackProvider it is wrapped in where there is a metrics API, *)
(* as there always is in the program main starts.                          *)
promClient ==
    IF Prometheus /\ MetricsAPI THEN "fallback"
    ELSE IF Prometheus THEN "prometheus" ELSE IF MetricsAPI THEN "kubernetes" ELSE "none"

scanForAppFailures(r, p) ==
    /\ promClient = "prometheus"
    /\ r \in leading /\ p \in SlowPod \ gone /\ isNamespaceScoped(p)
    /\ \/ Granted(PodKey[p], 0) /\ Add(r, p, "slow")
       \/ Refused(PodKey[p], 0) /\ UNCHANGED <<queue, again>>
    /\ UNCHANGED <<world, lease, leading, delayed, worker, left, mark>>

(* The webhook is served by every replica, which enqueues without asking   *)
(* who leads or whether it has seen the alert before.                      *)
handleAlertmanager(r, p) ==
    /\ r \in leading \/ hasDB
    /\ p \in AlertPod /\ isNamespaceScoped(p)
    /\ Add(r, p, "alert")
    /\ UNCHANGED <<world, lease, leading, delayed, worker, left, lock, mark, faults>>

(* pullAlertsFromAlertmanager, for one alert: look up its mark (a query    *)
(* that fails, the one fault of n, finds none), enqueue, mark.  A crash on *)
(* the way takes the item with it, as one before the look-up would have.   *)
IsAlertRecentlyProcessed(p, n) == mark[p] > 0 /\ n = 0
MarkAlertProcessed(p, n) ==
    \/ mark' = [mark EXCEPT ![p] = Window] /\ Faults(n)
    \/ hasDB /\ Faults(n + 1) /\ UNCHANGED mark
(* Mutant: an alert that is seen again has its mark renewed.               *)
pullAlertRenews(r, p) ==
    /\ r \in leading /\ p \in AlertPod /\ isNamespaceScoped(p)
    /\ MarkAlertProcessed(p, 0)
    /\ IF mark[p] > 0 THEN UNCHANGED <<queue, again>> ELSE Add(r, p, "alert")
    /\ UNCHANGED <<world, lease, leading, delayed, worker, left, lock>>

pullAlert(r, p) ==
    /\ r \in leading /\ p \in AlertPod /\ isNamespaceScoped(p)
    /\ \E n \in {0, IF hasDB THEN 1 ELSE 0} : ~IsAlertRecentlyProcessed(p, n) /\ MarkAlertProcessed(p, n)
    /\ Add(r, p, "alert")
    /\ UNCHANGED <<world, lease, leading, delayed, worker, left, lock>>

-----------------------------------------------------------------------------
(* The worker: processNextItem and processDiagnostic, up to the lock.  It  *)
(* has an item of its own; nobody sees it before the lock.                 *)
Get(r) == r \in leading /\ worker[r] = Idle /\ queue[r] # <<>>

(* A pod that is gone, or cannot be read, is retried for ever.             *)
AddRateLimited(r) ==
    /\ Get(r)
    /\ IF Head(queue[r]).pod \in gone THEN UNCHANGED faults ELSE Fault
    /\ delayed' = [delayed EXCEPT ![r] = @ \cup {Head(queue[r])}]
    /\ queue' = [queue EXCEPT ![r] = Tail(@)]
    /\ UNCHANGED <<world, lease, leading, worker, again, left, lock, mark>>

Retry(r, item) ==
    /\ item \in delayed[r]
    /\ delayed' = [delayed EXCEPT ![r] = @ \ {item}]
    /\ Add(r, item.pod, item.reason)
    /\ UNCHANGED <<world, lease, leading, worker, left, lock, mark, faults>>

(* workloadIdentityForPod: if the owner cannot be read the key is another. *)
Unread(p, key) == IF key = Workload[p] THEN 0 ELSE 1

(* The workload is locked, or the item is skipped and forgotten.           *)
processDiagnostic(r) ==
    /\ Get(r)
    /\ LET item == Head(queue[r]) IN
       /\ item.pod \notin gone
       /\ \E key \in {Workload[item.pod], Owner[item.pod]} :
            \/ /\ Granted(key, Unread(item.pod, key))
               /\ worker' = [worker EXCEPT ![r] = [pc |-> "diagnose", item |-> item, key |-> key]]
               /\ left' = [left EXCEPT ![r] = Limit]
            \/ /\ Refused(key, Unread(item.pod, key))
               /\ UNCHANGED <<worker, left>>
    /\ queue' = [queue EXCEPT ![r] = Tail(@)]
    /\ UNCHANGED <<world, lease, leading, delayed, again, mark>>

(* diagnosePod returns nothing: what fails in it is not retried.           *)
diagnosePod(r) ==
    /\ worker[r].pc = "diagnose"
    /\ queue' = IF again[r] THEN [queue EXCEPT ![r] = Append(@, worker[r].item)] ELSE queue
    /\ worker' = [worker EXCEPT ![r] = Idle]
    /\ again' = [again EXCEPT ![r] = FALSE]
    /\ left' = [left EXCEPT ![r] = 0]
    /\ UNCHANGED <<world, lease, leading, delayed, lock, mark, faults>>

-----------------------------------------------------------------------------
(* Run.  A lease lapses when it is not renewed in time, which the replica  *)
(* may learn of after another one has acquired it; then it exits.  What a  *)
(* process has in memory goes with it, and it is started again.            *)
Acquire(r) ==
    /\ lease = Nobody /\ r \notin leading
    /\ hasDB \/ r = Alone
    /\ lease' = r /\ leading' = leading \cup {r}
    /\ UNCHANGED <<world, process, lock, mark, faults>>

Lapse(r) ==
    /\ hasDB /\ lease = r
    /\ IF r \in leading THEN Fault ELSE UNCHANGED faults
    /\ lease' = Nobody
    /\ UNCHANGED <<world, leading, process, lock, mark>>

LeaveMemory(r) ==
    /\ hasDB \/ r = Alone
    /\ IF hasDB /\ r \in leading /\ lease # r THEN UNCHANGED faults ELSE Fault
    /\ leading' = leading \ {r}
    /\ queue' = [queue EXCEPT ![r] = <<>>] /\ delayed' = [delayed EXCEPT ![r] = {}]
    /\ worker' = [worker EXCEPT ![r] = Idle] /\ again' = [again EXCEPT ![r] = FALSE]
    /\ left' = [left EXCEPT ![r] = 0]
    /\ UNCHANGED world

(* Mutant: the locks are in memory even when there is a database.          *)
ExitUnlocks(r) ==
    /\ LeaveMemory(r)
    /\ lease' = IF hasDB THEN lease ELSE Nobody
    /\ lock' = [k \in Key |-> 0] /\ mark' = [p \in Pod |-> 0]

Exit(r) ==
    /\ LeaveMemory(r)
    /\ IF hasDB THEN UNCHANGED <<lease, lock, mark>>
                ELSE /\ lease' = Nobody
                     /\ lock' = [k \in Key |-> 0] /\ mark' = [p \in Pod |-> 0]

-----------------------------------------------------------------------------
(* The cluster and the clock.  A diagnosis does not outlive its context.   *)
Delete(p) ==
    /\ p \in MayGo \ gone
    /\ gone' = gone \cup {p}
    /\ UNCHANGED <<hasDB, lease, leading, process, lock, mark, faults>>

Less(n) == IF n > 0 THEN n - 1 ELSE 0

Tick ==
    /\ \A r \in Replica : worker[r] # Idle => left[r] > 0
    /\ lock' = [k \in Key |-> Less(lock[k])] /\ mark' = [p \in Pod |-> Less(mark[p])]
    /\ left' = [r \in Replica |-> Less(left[r])]
    /\ UNCHANGED <<world, lease, leading, queue, delayed, worker, again, faults>>

Work(r) == AddRateLimited(r) \/ processDiagnostic(r) \/ diagnosePod(r)

Next ==
    \/ \E r \in Replica : Work(r) \/ Acquire(r) \/ Lapse(r) \/ Exit(r)
    \/ \E r \in Replica : \E item \in delayed[r] : Retry(r, item)
    \/ \E r \in Replica, p \in Pod :
          enqueuePod(r, p) \/ scanForAppFailures(r, p) \/ handleAlertmanager(r, p) \/ pullAlert(r, p)
    \/ \E p \in Pod : Delete(p)
    \/ Tick

(* The goroutines run, the informer resyncs, the scans come round, a lease *)
(* that nobody renews ends and a replica that lost its own exits.  Nothing *)
(* is assumed of the cluster, of the webhook, of retries or of faults.     *)
Fairness ==
    /\ WF_vars(Tick)
    /\ \A r \in Replica :
         /\ WF_vars(Work(r)) /\ WF_vars(Acquire(r))
         /\ WF_vars(r \notin leading /\ Lapse(r))
         /\ WF_vars(hasDB /\ r \in leading /\ lease # r /\ Exit(r))
         /\ \A p \in Pod : /\ WF_vars(enqueuePod(r, p))
                           /\ WF_vars(scanForAppFailures(r, p)) /\ WF_vars(pullAlert(r, p))

Spec == Init /\ [][Next]_vars
FairSpec == Spec /\ Fairness

-----------------------------------------------------------------------------
Diagnosing(r) == worker[r].pc = "diagnose"

(* A workload is diagnosed by one replica at a time, also while a lease is *)
(* another's and its old holder has not noticed, whatever the number of    *)
(* pods, alerts and webhooks that ask for it.  The exception is a workload *)
(* whose owner could not be read: it is locked under another name.         *)
OneAtATime ==
    \A r, s \in Replica :
        /\ r # s /\ Diagnosing(r) /\ Diagnosing(s)
        /\ Workload[worker[r].item.pod] = Workload[worker[s].item.pod]
        => \E q \in {r, s} : worker[q].key # Workload[worker[q].item.pod]

(* Why: as long as a diagnosis runs the lock outlasts its context.         *)
LockOutlasts ==
    \A r \in Replica : Diagnosing(r) => lock[worker[r].key] >= left[r] + (Window - Limit)

OneHolder ==
    \A r, s \in Replica :
        r # s /\ Diagnosing(r) /\ Diagnosing(s) => worker[r].key # worker[s].key

(* Only what is in scope is ever queued or processed, and without a        *)
(* database one replica does all there is to do.                           *)
Scoped(item) == isNamespaceScoped(item.pod)
WorkInScope ==
    \A r \in Replica :
        /\ \A item \in ToSet(queue[r]) \cup delayed[r] : Scoped(item)
        /\ worker[r] # Idle => Scoped(worker[r].item) /\ r \in leading
        /\ ~hasDB /\ r # Alone => r \notin leading /\ queue[r] = <<>> /\ delayed[r] = {}

IntakeInv == TypeOK /\ LockOutlasts /\ OneHolder /\ WorkInScope

(* A pod that stays failing and an alert that keeps firing, each by itself *)
(* (no other pod of the workload need fail), have their workload           *)
(* diagnosed, again and again: a crash, a lock held by a replica that      *)
(* died, a mark set for an item the queue lost, a pod that is gone and     *)
(* retried for ever or a sibling's turn delay it, no more (the queue of    *)
(* controller.go, the marks of history.go).                                *)
Answered(p) ==
    \E r \in Replica : Diagnosing(r) /\ Workload[worker[r].item.pod] = Workload[p]
InScope(S) == {p \in S : isNamespaceScoped(p)}
EveryFailureAnswered ==
    \A p \in InScope(FailPod \cup AlertPod) : []<>(Answered(p) \/ p \in gone)
=============================================================================
