---------------------------- MODULE Intake_proofs ----------------------------
(***************************************************************************)
(* IntakeInv is an inductive invariant of Intake, and OneAtATime follows   *)
(* from it.                                                                *)
(***************************************************************************)
EXTENDS Intake, TLAPS

USE DEF Idle, world, process

(* What the queue operations do to the set of items that wait.             *)
LEMMA ToSetDomain ==
    ASSUME NEW S, NEW t \in Seq(S) PROVE ToSet(t) = {t[i] : i \in 1..Len(t)}
<1>1. DOMAIN t = 1..Len(t)
  OBVIOUS
<1> QED BY <1>1 DEF ToSet

LEMMA SeqFacts ==
    ASSUME NEW S, NEW s \in Seq(S), NEW x \in S
    PROVE  /\ Append(s, x) \in Seq(S)
           /\ ToSet(s) \subseteq S
           /\ ToSet(Append(s, x)) = ToSet(s) \cup {x}
           /\ s # <<>> => /\ Head(s) \in ToSet(s) /\ Tail(s) \in Seq(S)
                          /\ ToSet(Tail(s)) \subseteq ToSet(s)
<1>1. Append(s, x) \in Seq(S)
  OBVIOUS
<1>2. ToSet(s) = {s[i] : i \in 1..Len(s)} /\ ToSet(s) \subseteq S
  BY DEF ToSet
<1>3. ToSet(Append(s, x)) = {Append(s, x)[i] : i \in 1..(Len(s) + 1)}
  BY DEF ToSet
<1>4. ToSet(Append(s, x)) = ToSet(s) \cup {x}
  <2>1. \A i \in 1..Len(s) : Append(s, x)[i] = s[i]
    OBVIOUS
  <2>2. Append(s, x)[Len(s) + 1] = x
    OBVIOUS
  <2>3. 1..(Len(s) + 1) = 1..Len(s) \cup {Len(s) + 1}
    OBVIOUS
  <2> QED BY <1>2, <1>3, <2>1, <2>2, <2>3
<1>5. ASSUME s # <<>>
      PROVE  /\ Head(s) \in ToSet(s) /\ Tail(s) \in Seq(S)
             /\ ToSet(Tail(s)) \subseteq ToSet(s)
  <2>1. Len(s) > 0 /\ Head(s) = s[1] /\ Tail(s) \in Seq(S) /\ Len(Tail(s)) = Len(s) - 1
    BY <1>5
  <2>2. \A i \in 1..Len(Tail(s)) : Tail(s)[i] = s[i + 1]
    BY <1>5
  <2>3. ToSet(Tail(s)) = {Tail(s)[i] : i \in 1..Len(Tail(s))}
    BY <2>1, ToSetDomain
  <2> QED BY <1>2, <2>1, <2>2, <2>3
<1> QED BY <1>1, <1>2, <1>4, <1>5

LEMMA ToSetEmpty ==
    ASSUME NEW t \in Seq(Item), Len(t) = 0 PROVE ToSet(t) = {}
<1>2. ToSet(t) = {t[i] : i \in 1..Len(t)}
  BY ToSetDomain
<1> QED BY <1>2

(* A lock is granted, refused or left to a window that is longer than what *)
(* a context has left.                                                     *)
LEMMA LockTyped ==
    ASSUME TypeOK, NEW k \in Key, NEW n \in Nat, Granted(k, n) \/ Refused(k, n)
    PROVE  /\ lock' \in [Key -> 0..Window] /\ faults' \in 0..MaxFaults
           /\ \A j \in Key : lock'[j] >= lock[j]
<1>1. faults' \in 0..MaxFaults
  BY IntakeAssumption DEF TypeOK, Granted, Refused, Faults
<1>2. lock' = lock \/ lock' = [lock EXCEPT ![k] = Window]
  BY DEF Granted, Refused
<1>3. lock \in [Key -> 0..Window] /\ Window \in Nat
  BY IntakeAssumption DEF TypeOK
<1>4. CASE lock' = lock
  BY <1>1, <1>3, <1>4
<1>5. CASE lock' = [lock EXCEPT ![k] = Window]
  <2>1. lock' \in [Key -> 0..Window]
    BY <1>3, <1>5
  <2>2. \A j \in Key : lock'[j] >= lock[j]
    BY <1>3, <1>5
  <2> QED BY <1>1, <2>1, <2>2
<1> QED BY <1>2, <1>4, <1>5

LEMMA AddTyped ==
    ASSUME TypeOK, NEW r \in Replica, NEW p \in Pod, NEW reason \in Reason,
           Add(r, p, reason)
    PROVE  /\ queue' \in [Replica -> Seq(Item)] /\ again' \in [Replica -> BOOLEAN]
           /\ \A s \in Replica : s # r => queue'[s] = queue[s]
           /\ ToSet(queue'[r]) \subseteq ToSet(queue[r]) \cup {[pod |-> p, reason |-> reason]}
<1> DEFINE item == [pod |-> p, reason |-> reason]
<1>1. item \in Item
  BY DEF Item
<1>2. queue[r] \in Seq(Item)
  BY DEF TypeOK
<1>3. /\ Append(queue[r], item) \in Seq(Item)
      /\ ToSet(Append(queue[r], item)) = ToSet(queue[r]) \cup {item}
  BY <1>1, <1>2, SeqFacts
<1>4. queue' = queue \/ queue' = [queue EXCEPT ![r] = Append(@, item)]
  BY DEF Add
<1>5. again' \in [Replica -> BOOLEAN]
  BY DEF Add, TypeOK
<1> QED BY <1>2, <1>3, <1>4, <1>5 DEF TypeOK

LEMMA InitIntake == Init => IntakeInv
<1> SUFFICES ASSUME Init PROVE IntakeInv
  OBVIOUS
<1>1. TypeOK
  BY IntakeAssumption DEF Init, TypeOK
<1>2. LockOutlasts /\ OneHolder
  BY DEF Init, LockOutlasts, OneHolder, Diagnosing
<1>3. WorkInScope
  <2>1. \A r \in Replica : queue[r] = <<>> /\ delayed[r] = {} /\ worker[r] = Idle /\ r \notin leading
    BY DEF Init
  <2>2. ASSUME NEW r \in Replica PROVE ToSet(queue[r]) = {}
    <3>1. Len(queue[r]) = 0 /\ queue[r] \in Seq(Item)
      BY <1>1, <2>1 DEF TypeOK
    <3> QED BY <3>1, ToSetEmpty
  <2> QED BY <2>1, <2>2 DEF WorkInScope
<1> QED BY <1>1, <1>2, <1>3 DEF IntakeInv
-----------------------------------------------------------------------------
(* A step that leaves the workers alone and lets no lock end keeps what    *)
(* relates the two.                                                        *)
LEMMA WorkersKept ==
    ASSUME IntakeInv, UNCHANGED <<worker, left>>, \A k \in Key : lock'[k] >= lock[k],
           lock' \in [Key -> 0..Window]
    PROVE  (LockOutlasts /\ OneHolder)'
<1>1. \A r \in Replica : Diagnosing(r) => worker[r].key \in Key
  BY DEF IntakeInv, TypeOK, Diagnosing, Busy
<1>2. OneHolder'
  BY DEF IntakeInv, OneHolder, Diagnosing
<1>3. ASSUME NEW r \in Replica, Diagnosing(r)'
      PROVE  (lock[worker[r].key] >= left[r] + (Window - Limit))'
  <2>1. Diagnosing(r) /\ worker[r].key \in Key /\ worker'[r] = worker[r] /\ left'[r] = left[r]
    BY <1>1, <1>3 DEF Diagnosing
  <2>2. lock[worker[r].key] >= left[r] + (Window - Limit)
    BY <2>1 DEF IntakeInv, LockOutlasts
  <2>3. lock[worker[r].key] \in Nat /\ lock'[worker[r].key] \in Nat /\ left[r] \in Nat
    BY <2>1, IntakeAssumption DEF IntakeInv, TypeOK
  <2> QED BY <2>1, <2>2, <2>3, IntakeAssumption
<1> QED BY <1>2, <1>3 DEF LockOutlasts

(* A producer adds work that is in scope to the queue of a replica that    *)
(* runs; nothing else that WorkInScope speaks of changes.                  *)
LEMMA AddInScope ==
    ASSUME IntakeInv, NEW r \in Replica, NEW p \in Pod, NEW reason \in Reason,
           Add(r, p, reason), isNamespaceScoped(p), hasDB \/ r = Alone,
           UNCHANGED <<hasDB, leading, worker>>,
           \A s \in Replica : delayed'[s] \subseteq delayed[s]
    PROVE  WorkInScope'
<1> DEFINE item == [pod |-> p, reason |-> reason]
<1>1. /\ \A s \in Replica : s # r => queue'[s] = queue[s]
      /\ ToSet(queue'[r]) \subseteq ToSet(queue[r]) \cup {item}
  BY AddTyped DEF IntakeInv
<1>2. Scoped(item)
  BY DEF Scoped
<1>3. ASSUME NEW s \in Replica, NEW i \in ToSet(queue'[s]) \cup delayed'[s]
      PROVE  Scoped(i)
  <2>1. i \in ToSet(queue[s]) \cup delayed[s] \/ i = item
    BY <1>1
  <2> QED BY <1>2, <2>1 DEF IntakeInv, WorkInScope
<1>4. ASSUME NEW s \in Replica
      PROVE  /\ worker'[s] # Idle => Scoped(worker'[s].item) /\ s \in leading'
             /\ ~hasDB' /\ s # Alone => s \notin leading' /\ queue'[s] = <<>> /\ delayed'[s] = {}
  BY <1>1 DEF IntakeInv, WorkInScope
<1> QED BY <1>3, <1>4 DEF WorkInScope, Scoped, isNamespaceScoped

LEMMA ProducerKeeps ==
    ASSUME IntakeInv, NEW r \in Replica, NEW p \in Pod,
           \/ enqueuePod(r, p) \/ scanForAppFailures(r, p)
           \/ handleAlertmanager(r, p) \/ pullAlert(r, p)
    PROVE  IntakeInv'
<1> USE DEF IntakeInv
<1>0. /\ UNCHANGED <<hasDB, gone, lease, leading, delayed, worker, left>>
      /\ isNamespaceScoped(p)
  BY DEF enqueuePod, scanForAppFailures, handleAlertmanager, pullAlert
<1>1. r \in leading => hasDB \/ r = Alone
  BY DEF WorkInScope
<1>2. hasDB \/ r = Alone
  BY <1>1 DEF enqueuePod, scanForAppFailures, handleAlertmanager, pullAlert
<1>3. (\E reason \in Reason : Add(r, p, reason)) \/ UNCHANGED <<queue, again>>
  BY DEF enqueuePod, scanForAppFailures, handleAlertmanager, pullAlert, Reason
<1>4. /\ lock' \in [Key -> 0..Window] /\ \A k \in Key : lock'[k] >= lock[k]
      /\ faults' \in 0..MaxFaults /\ mark' \in [Pod -> 0..Window]
  <2>1. CASE enqueuePod(r, p) \/ handleAlertmanager(r, p)
    BY <2>1, IntakeAssumption DEF enqueuePod, handleAlertmanager, TypeOK
  <2>2. CASE scanForAppFailures(r, p)
    <3>1. PodKey[p] \in Key
      BY IntakeAssumption
    <3>2. (Granted(PodKey[p], 0) \/ Refused(PodKey[p], 0)) /\ mark' = mark
      BY <2>2 DEF scanForAppFailures
    <3> QED BY <3>1, <3>2, LockTyped DEF TypeOK
  <2>3. CASE pullAlert(r, p)
    <3>1. lock' = lock /\ (mark' = mark \/ mark' = [mark EXCEPT ![p] = Window])
      BY <2>3 DEF pullAlert, MarkAlertProcessed
    <3>2. faults' \in 0..MaxFaults
      BY <2>3, IntakeAssumption DEF pullAlert, MarkAlertProcessed, TypeOK, Faults
    <3>3. mark' \in [Pod -> 0..Window]
      <4>1. mark \in [Pod -> 0..Window] /\ Window \in 0..Window
        BY IntakeAssumption DEF TypeOK
      <4>2. CASE mark' = [mark EXCEPT ![p] = Window]
        BY <4>1, <4>2
      <4> QED BY <3>1, <4>1, <4>2
    <3>4. lock' \in [Key -> 0..Window] /\ \A k \in Key : lock'[k] >= lock[k]
      BY <3>1, IntakeAssumption DEF TypeOK
    <3> QED BY <3>2, <3>3, <3>4
  <2> QED BY <2>1, <2>2, <2>3
<1>5. queue' \in [Replica -> Seq(Item)] /\ again' \in [Replica -> BOOLEAN]
  BY <1>3, AddTyped DEF TypeOK
<1>6. TypeOK'
  BY <1>0, <1>4, <1>5 DEF TypeOK
<1>7. (LockOutlasts /\ OneHolder)'
  BY <1>0, <1>4, WorkersKept
<1>8. WorkInScope'
  <2>1. CASE UNCHANGED <<queue, again>>
    BY <1>0, <2>1 DEF WorkInScope, Scoped, isNamespaceScoped
  <2>2. CASE \E reason \in Reason : Add(r, p, reason)
    BY <1>0, <1>2, <2>2, AddInScope
  <2> QED BY <1>3, <2>1, <2>2
<1> QED BY <1>6, <1>7, <1>8

-----------------------------------------------------------------------------
(* The worker's steps.  What it takes from the queue was in it.            *)
LEMMA TakenTyped ==
    ASSUME IntakeInv, NEW r \in Replica, Get(r), queue' = [queue EXCEPT ![r] = Tail(@)]
    PROVE  /\ queue' \in [Replica -> Seq(Item)]
           /\ Head(queue[r]) \in Item /\ Head(queue[r]) \in ToSet(queue[r])
           /\ \A s \in Replica : ToSet(queue'[s]) \subseteq ToSet(queue[s])
           /\ \A s \in Replica : s # r => queue'[s] = queue[s]
           /\ hasDB \/ r = Alone
<1>1. queue \in [Replica -> Seq(Item)] /\ queue[r] \in Seq(Item) /\ queue[r] # <<>>
  BY DEF IntakeInv, TypeOK, Get
<1>2. /\ Tail(queue[r]) \in Seq(Item) /\ Head(queue[r]) \in ToSet(queue[r])
      /\ ToSet(Tail(queue[r])) \subseteq ToSet(queue[r]) /\ ToSet(queue[r]) \subseteq Item
  <2>1. Head(queue[r]) \in Item
    BY <1>1
  <2> QED BY <1>1, <2>1, SeqFacts
<1>3. hasDB \/ r = Alone
  BY DEF Get, IntakeInv, WorkInScope
<1> QED BY <1>1, <1>2, <1>3

LEMMA AddRateLimitedKeeps ==
    ASSUME IntakeInv, NEW r \in Replica, AddRateLimited(r) PROVE IntakeInv'
<1> USE DEF IntakeInv
<1> DEFINE item == Head(queue[r])
<1>0. Get(r) /\ queue' = [queue EXCEPT ![r] = Tail(@)]
  BY DEF AddRateLimited
<1>1. /\ queue' \in [Replica -> Seq(Item)] /\ item \in Item /\ item \in ToSet(queue[r])
      /\ \A s \in Replica : ToSet(queue'[s]) \subseteq ToSet(queue[s])
      /\ \A s \in Replica : s # r => queue'[s] = queue[s]
      /\ hasDB \/ r = Alone
  BY <1>0, TakenTyped
<1>2. /\ delayed' = [delayed EXCEPT ![r] = @ \cup {item}]
      /\ UNCHANGED <<hasDB, gone, lease, leading, worker, again, left, lock, mark>>
  BY DEF AddRateLimited
<1>3. faults' \in 0..MaxFaults
  BY IntakeAssumption DEF AddRateLimited, Fault, Faults, TypeOK
<1>4. TypeOK'
  BY <1>1, <1>2, <1>3 DEF TypeOK
<1>5. (LockOutlasts /\ OneHolder)'
  BY <1>2, IntakeAssumption DEF LockOutlasts, OneHolder, Diagnosing
<1>6. WorkInScope'
  <2>1. ASSUME NEW s \in Replica, NEW i \in ToSet(queue'[s]) \cup delayed'[s]
        PROVE  Scoped(i)
    <3>1. i \in ToSet(queue[s]) \cup delayed[s] \cup ToSet(queue[r])
      BY <1>1, <1>2 DEF TypeOK
    <3> QED BY <3>1 DEF WorkInScope
  <2>2. ASSUME NEW s \in Replica
        PROVE  /\ worker'[s] # Idle => Scoped(worker'[s].item) /\ s \in leading'
               /\ ~hasDB' /\ s # Alone => s \notin leading' /\ queue'[s] = <<>> /\ delayed'[s] = {}
    BY <1>1, <1>2 DEF WorkInScope, TypeOK
  <2> QED BY <2>1, <2>2 DEF WorkInScope, Scoped, isNamespaceScoped
<1> QED BY <1>4, <1>5, <1>6

LEMMA RetryKeeps ==
    ASSUME IntakeInv, NEW r \in Replica, NEW item \in delayed[r], Retry(r, item)
    PROVE  IntakeInv'
<1> USE DEF IntakeInv
<1>1. /\ item.pod \in Pod /\ item.reason \in Reason /\ isNamespaceScoped(item.pod)
  BY DEF TypeOK, Item, WorkInScope, Scoped
<1>2. /\ Add(r, item.pod, item.reason) /\ delayed' = [delayed EXCEPT ![r] = @ \ {item}]
      /\ UNCHANGED <<hasDB, gone, lease, leading, worker, left, lock, mark, faults>>
  BY DEF Retry
<1>3. hasDB \/ r = Alone
  BY DEF WorkInScope
<1>4. /\ delayed' \in [Replica -> SUBSET Item]
      /\ \A s \in Replica : delayed'[s] \subseteq delayed[s]
  BY <1>2 DEF TypeOK
<1>5. TypeOK'
  BY <1>1, <1>2, <1>4, AddTyped DEF TypeOK
<1>6. WorkInScope'
  BY <1>1, <1>2, <1>3, <1>4, AddInScope
<1>7. (LockOutlasts /\ OneHolder)'
  BY <1>2, IntakeAssumption DEF LockOutlasts, OneHolder, Diagnosing
<1> QED BY <1>5, <1>6, <1>7

-----------------------------------------------------------------------------
(* The one step at which a diagnosis begins: nobody holds the key, for     *)
(* whoever diagnoses keeps its lock above what is left of its context.     *)
LEMMA DiagnosisBegins ==
    ASSUME IntakeInv, NEW r \in Replica, worker[r] = Idle, NEW item \in Item, NEW key \in Key,
           NEW n \in Nat, Granted(key, n),
           worker' = [worker EXCEPT ![r] = [pc |-> "diagnose", item |-> item, key |-> key]],
           left' = [left EXCEPT ![r] = Limit]
    PROVE  /\ (LockOutlasts /\ OneHolder)'
           /\ worker' \in [Replica -> {Idle} \cup Busy] /\ left' \in [Replica -> 0..Limit]
<1> USE DEF IntakeInv
<1>0. /\ lock[key] = 0 /\ lock' = [lock EXCEPT ![key] = Window]
      /\ lock \in [Key -> 0..Window] /\ left \in [Replica -> 0..Limit]
      /\ worker \in [Replica -> {Idle} \cup Busy]
      /\ Window \in Nat /\ Limit \in Nat /\ Limit < Window
  BY IntakeAssumption DEF Granted, TypeOK
<1>1. worker' \in [Replica -> {Idle} \cup Busy] /\ left' \in [Replica -> 0..Limit]
  BY <1>0 DEF Busy
<1>2. ASSUME NEW s \in Replica, s # r, Diagnosing(s)
      PROVE  /\ worker[s].key \in Key /\ worker[s].key # key
             /\ lock'[worker[s].key] >= left'[s] + (Window - Limit)
  <2>1. worker[s].key \in Key
    BY <1>0, <1>2 DEF Diagnosing, Busy
  <2>2. lock[worker[s].key] >= left[s] + (Window - Limit)
    BY <1>2 DEF LockOutlasts
  <2>3. left[s] \in Nat /\ left'[s] = left[s]
    BY <1>0, <1>2
  <2>4. worker[s].key # key
    BY <1>0, <2>2, <2>3
  <2>5. lock'[worker[s].key] = lock[worker[s].key]
    BY <1>0, <2>1, <2>4
  <2> QED BY <2>1, <2>2, <2>3, <2>4, <2>5
<1>3. \A s \in Replica : s # r => worker'[s] = worker[s]
  BY <1>0
<1>4. worker'[r] = [pc |-> "diagnose", item |-> item, key |-> key] /\ left'[r] = Limit
      /\ lock'[key] = Window
  BY <1>0
<1>5. LockOutlasts'
  <2>1. ASSUME NEW s \in Replica, Diagnosing(s)'
        PROVE  lock'[worker'[s].key] >= left'[s] + (Window - Limit)
    <3>1. CASE s = r
      BY <1>0, <1>4, <3>1
    <3>2. CASE s # r
      BY <1>2, <1>3, <2>1, <3>2 DEF Diagnosing
    <3> QED BY <3>1, <3>2
  <2> QED BY <2>1 DEF LockOutlasts
<1>6. OneHolder'
  <2>1. ASSUME NEW s \in Replica, NEW t \in Replica, s # t, Diagnosing(s)', Diagnosing(t)'
        PROVE  worker'[s].key # worker'[t].key
    <3>1. CASE s = r
      BY <1>2, <1>3, <1>4, <2>1, <3>1 DEF Diagnosing
    <3>2. CASE t = r
      BY <1>2, <1>3, <1>4, <2>1, <3>2 DEF Diagnosing
    <3>3. CASE s # r /\ t # r
      BY <1>3, <2>1, <3>3 DEF Diagnosing, OneHolder
    <3> QED BY <3>1, <3>2, <3>3
  <2> QED BY <2>1 DEF OneHolder
<1> QED BY <1>1, <1>5, <1>6

LEMMA processDiagnosticKeeps ==
    ASSUME IntakeInv, NEW r \in Replica, processDiagnostic(r) PROVE IntakeInv'
<1> USE DEF IntakeInv
<1> DEFINE item == Head(queue[r])
<1>0. /\ Get(r) /\ worker[r] = Idle /\ queue' = [queue EXCEPT ![r] = Tail(@)]
      /\ r \in leading
      /\ UNCHANGED <<hasDB, gone, lease, leading, delayed, again, mark>>
  BY DEF processDiagnostic, Get
<1>1. /\ queue' \in [Replica -> Seq(Item)] /\ item \in Item /\ item \in ToSet(queue[r])
      /\ \A s \in Replica : ToSet(queue'[s]) \subseteq ToSet(queue[s])
      /\ \A s \in Replica : s # r => queue'[s] = queue[s]
      /\ hasDB \/ r = Alone
  BY <1>0, TakenTyped
<1>2. PICK key \in {Workload[item.pod], Owner[item.pod]} :
            \/ /\ Granted(key, Unread(item.pod, key))
               /\ worker' = [worker EXCEPT ![r] = [pc |-> "diagnose", item |-> item, key |-> key]]
               /\ left' = [left EXCEPT ![r] = Limit]
            \/ /\ Refused(key, Unread(item.pod, key))
               /\ UNCHANGED <<worker, left>>
  BY DEF processDiagnostic
<1>3. key \in Key /\ Unread(item.pod, key) \in Nat
  BY <1>1, <1>2, IntakeAssumption DEF Item, Unread
<1>4. /\ lock' \in [Key -> 0..Window] /\ faults' \in 0..MaxFaults
      /\ \A j \in Key : lock'[j] >= lock[j]
  BY <1>2, <1>3, LockTyped
<1>5. /\ (LockOutlasts /\ OneHolder)'
      /\ worker' \in [Replica -> {Idle} \cup Busy] /\ left' \in [Replica -> 0..Limit]
  <2>1. CASE UNCHANGED <<worker, left>>
    BY <1>4, <2>1, WorkersKept DEF TypeOK
  <2>2. CASE /\ Granted(key, Unread(item.pod, key))
             /\ worker' = [worker EXCEPT ![r] = [pc |-> "diagnose", item |-> item, key |-> key]]
             /\ left' = [left EXCEPT ![r] = Limit]
    BY <1>0, <1>1, <1>3, <2>2, DiagnosisBegins
  <2> QED BY <1>2, <2>1, <2>2
<1>6. TypeOK'
  BY <1>0, <1>1, <1>4, <1>5 DEF TypeOK
<1>7. WorkInScope'
  <2>1. Scoped(item)
    BY <1>1 DEF WorkInScope
  <2>2. \A s \in Replica : worker'[s] = worker[s] \/ (s = r /\ worker'[s].item = item)
    BY <1>2 DEF TypeOK
  <2>3. ASSUME NEW s \in Replica
        PROVE  /\ worker'[s] # Idle => Scoped(worker'[s].item) /\ s \in leading'
               /\ ~hasDB' /\ s # Alone => s \notin leading' /\ queue'[s] = <<>> /\ delayed'[s] = {}
               /\ \A i \in ToSet(queue'[s]) \cup delayed'[s] : Scoped(i)
    BY <1>0, <1>1, <2>1, <2>2 DEF WorkInScope
  <2> QED BY <2>3 DEF WorkInScope, Scoped, isNamespaceScoped
<1> QED BY <1>5, <1>6, <1>7

LEMMA diagnosePodKeeps ==
    ASSUME IntakeInv, NEW r \in Replica, diagnosePod(r) PROVE IntakeInv'
<1> USE DEF IntakeInv
<1>1. /\ worker[r] \in Busy /\ worker[r] # Idle /\ worker[r].item \in Item
      /\ UNCHANGED <<hasDB, gone, lease, leading, delayed, lock, mark, faults>>
      /\ worker' = [worker EXCEPT ![r] = Idle] /\ left' = [left EXCEPT ![r] = 0]
      /\ queue' = queue \/ queue' = [queue EXCEPT ![r] = Append(@, worker[r].item)]
  BY DEF diagnosePod, TypeOK, Busy
<1>2. again' \in [Replica -> BOOLEAN] /\ left' \in [Replica -> 0..Limit]
  BY IntakeAssumption DEF diagnosePod, TypeOK
<1>3. /\ queue' \in [Replica -> Seq(Item)]
      /\ \A s \in Replica : s # r => queue'[s] = queue[s]
      /\ ToSet(queue'[r]) \subseteq ToSet(queue[r]) \cup {worker[r].item}
  <2>1. queue \in [Replica -> Seq(Item)] /\ queue[r] \in Seq(Item)
    BY DEF TypeOK
  <2>2. Append(queue[r], worker[r].item) \in Seq(Item)
        /\ ToSet(Append(queue[r], worker[r].item)) = ToSet(queue[r]) \cup {worker[r].item}
    BY <1>1, <2>1, SeqFacts
  <2> QED BY <1>1, <2>1, <2>2
<1>4. TypeOK'
  BY <1>1, <1>2, <1>3 DEF TypeOK
<1>5. \A s \in Replica : (s = r /\ worker'[s] = Idle) \/ (worker'[s] = worker[s] /\ left'[s] = left[s])
  BY <1>1 DEF TypeOK
<1>6. (LockOutlasts /\ OneHolder)'
  <2>1. \A s \in Replica : Diagnosing(s)' => Diagnosing(s) /\ worker'[s] = worker[s] /\ left'[s] = left[s]
    BY <1>5 DEF Diagnosing
  <2> QED BY <1>1, <2>1 DEF LockOutlasts, OneHolder
<1>7. WorkInScope'
  <2>1. Scoped(worker[r].item) /\ r \in leading
    BY <1>1 DEF WorkInScope
  <2>2. ASSUME NEW s \in Replica
        PROVE  /\ worker'[s] # Idle => Scoped(worker'[s].item) /\ s \in leading'
               /\ ~hasDB' /\ s # Alone => s \notin leading' /\ queue'[s] = <<>> /\ delayed'[s] = {}
               /\ \A i \in ToSet(queue'[s]) \cup delayed'[s] : Scoped(i)
    BY <1>1, <1>3, <1>5, <2>1 DEF WorkInScope
  <2> QED BY <2>2 DEF WorkInScope, Scoped, isNamespaceScoped
<1> QED BY <1>4, <1>6, <1>7

-----------------------------------------------------------------------------
LEMMA ExitKeeps ==
    ASSUME IntakeInv, NEW r \in Replica, Exit(r) PROVE IntakeInv'
<1> USE DEF IntakeInv
<1>1. /\ UNCHANGED <<hasDB, gone>> /\ leading' = leading \ {r}
      /\ queue' = [queue EXCEPT ![r] = <<>>] /\ delayed' = [delayed EXCEPT ![r] = {}]
      /\ worker' = [worker EXCEPT ![r] = Idle] /\ again' = [again EXCEPT ![r] = FALSE]
      /\ left' = [left EXCEPT ![r] = 0]
      /\ hasDB \/ r = Alone
  BY DEF Exit, LeaveMemory
<1>2. /\ faults' \in 0..MaxFaults
      /\ lease' \in Replica \cup {Nobody}
      /\ lock' \in [Key -> 0..Window] /\ mark' \in [Pod -> 0..Window]
      /\ hasDB => lock' = lock
  BY IntakeAssumption DEF Exit, LeaveMemory, Fault, Faults, TypeOK
<1>3. /\ \A s \in Replica : s # r => /\ queue'[s] = queue[s] /\ delayed'[s] = delayed[s]
                                    /\ worker'[s] = worker[s] /\ left'[s] = left[s]
      /\ queue'[r] = <<>> /\ delayed'[r] = {} /\ worker'[r] = Idle
  BY <1>1 DEF TypeOK
<1>4. TypeOK'
  <2>1. /\ delayed' \in [Replica -> SUBSET Item] /\ worker' \in [Replica -> {Idle} \cup Busy]
        /\ again' \in [Replica -> BOOLEAN] /\ left' \in [Replica -> 0..Limit]
    BY <1>1, IntakeAssumption DEF TypeOK
  <2>2. queue' \in [Replica -> Seq(Item)]
    BY <1>1 DEF TypeOK
  <2> QED BY <1>1, <1>2, <2>1, <2>2 DEF TypeOK
<1>5. ASSUME NEW s \in Replica, Diagnosing(s)'
      PROVE  Diagnosing(s) /\ worker'[s] = worker[s] /\ left'[s] = left[s] /\ hasDB
  <2>1. s # r /\ worker'[s] = worker[s] /\ left'[s] = left[s] /\ Diagnosing(s)
    BY <1>3, <1>5 DEF Diagnosing
  <2>2. worker[s] # Idle
    BY <2>1 DEF Diagnosing
  <2>3. hasDB
    BY <1>1, <2>1, <2>2 DEF WorkInScope
  <2> QED BY <2>1, <2>3
<1>6. (LockOutlasts /\ OneHolder)'
  BY <1>2, <1>5 DEF LockOutlasts, OneHolder
<1>7. WorkInScope'
  <2>1. Len(queue'[r]) = 0 /\ queue'[r] \in Seq(Item)
    BY <1>3
  <2>2. ToSet(queue'[r]) = {}
    BY <2>1, ToSetEmpty
  <2>3. ASSUME NEW s \in Replica
        PROVE  /\ worker'[s] # Idle => Scoped(worker'[s].item) /\ s \in leading'
               /\ ~hasDB' /\ s # Alone => s \notin leading' /\ queue'[s] = <<>> /\ delayed'[s] = {}
               /\ \A i \in ToSet(queue'[s]) \cup delayed'[s] : Scoped(i)
    BY <1>1, <1>3, <2>2 DEF WorkInScope
  <2> QED BY <2>3 DEF WorkInScope, Scoped, isNamespaceScoped
<1> QED BY <1>4, <1>6, <1>7

LEMMA LeaseKeeps ==
    ASSUME IntakeInv, NEW r \in Replica, Acquire(r) \/ Lapse(r) PROVE IntakeInv'
<1> USE DEF IntakeInv
<1>1. /\ UNCHANGED <<hasDB, gone, queue, delayed, worker, again, left, lock, mark>>
      /\ leading' = leading \/ (leading' = leading \cup {r} /\ (hasDB \/ r = Alone))
      /\ lease' \in Replica \cup {Nobody}
  BY DEF Acquire, Lapse
<1>2. faults' \in 0..MaxFaults
  BY IntakeAssumption DEF Acquire, Lapse, Fault, Faults, TypeOK
<1>3. TypeOK'
  BY <1>1, <1>2 DEF TypeOK
<1>4. (LockOutlasts /\ OneHolder)'
  BY <1>1 DEF LockOutlasts, OneHolder, Diagnosing
<1>5. WorkInScope'
  BY <1>1 DEF WorkInScope, Scoped, isNamespaceScoped
<1> QED BY <1>3, <1>4, <1>5

(* Time passes for a lock and for the context of its holder alike.         *)
LEMMA TickKeeps == ASSUME IntakeInv, Tick PROVE IntakeInv'
<1> USE DEF IntakeInv
<1>1. /\ lock \in [Key -> 0..Window] /\ mark \in [Pod -> 0..Window]
      /\ left \in [Replica -> 0..Limit] /\ Window \in Nat /\ Limit \in Nat /\ Limit < Window
  BY IntakeAssumption DEF TypeOK
<1>2. /\ lock' = [k \in Key |-> Less(lock[k])] /\ mark' = [p \in Pod |-> Less(mark[p])]
      /\ left' = [r \in Replica |-> Less(left[r])]
      /\ UNCHANGED <<hasDB, gone, lease, leading, queue, delayed, worker, again, faults>>
      /\ \A r \in Replica : worker[r] # Idle => left[r] > 0
  BY DEF Tick
<1>3. /\ lock' \in [Key -> 0..Window] /\ mark' \in [Pod -> 0..Window]
      /\ left' \in [Replica -> 0..Limit]
  BY <1>1, <1>2 DEF Less
<1>4. TypeOK'
  BY <1>2, <1>3 DEF TypeOK
<1>5. LockOutlasts'
  <2>1. ASSUME NEW r \in Replica, Diagnosing(r)
        PROVE  lock'[worker[r].key] >= left'[r] + (Window - Limit)
    <3>1. worker[r].key \in Key /\ left[r] > 0
      BY <1>2, <2>1 DEF Diagnosing, TypeOK, Busy
    <3>2. lock[worker[r].key] >= left[r] + (Window - Limit)
      BY <2>1 DEF LockOutlasts
    <3> QED BY <1>1, <1>2, <3>1, <3>2 DEF Less
  <2> QED BY <1>2, <2>1 DEF LockOutlasts, Diagnosing
<1>6. OneHolder'
  BY <1>2 DEF OneHolder, Diagnosing
<1>7. WorkInScope'
  BY <1>2 DEF WorkInScope, Scoped, isNamespaceScoped
<1> QED BY <1>4, <1>5, <1>6, <1>7

LEMMA NextKeeps == IntakeInv /\ [Next]_vars => IntakeInv'
<1> SUFFICES ASSUME IntakeInv, [Next]_vars PROVE IntakeInv'
  OBVIOUS
<1>1. CASE \E r \in Replica : Work(r)
  BY <1>1, AddRateLimitedKeeps, processDiagnosticKeeps, diagnosePodKeeps DEF Work
<1>2. CASE \E r \in Replica : Acquire(r) \/ Lapse(r) \/ Exit(r)
  BY <1>2, LeaseKeeps, ExitKeeps
<1>3. CASE \E r \in Replica : \E item \in delayed[r] : Retry(r, item)
  BY <1>3, RetryKeeps
<1>4. CASE \E r \in Replica, p \in Pod :
        enqueuePod(r, p) \/ scanForAppFailures(r, p) \/ handleAlertmanager(r, p) \/ pullAlert(r, p)
  BY <1>4, ProducerKeeps
<1>5. CASE \E p \in Pod : Delete(p)
  <2>1. /\ gone' \subseteq Pod
        /\ UNCHANGED <<hasDB, lease, leading, queue, delayed, worker, again, left, lock, mark, faults>>
    BY <1>5 DEF Delete, IntakeInv, TypeOK
  <2> QED BY <2>1 DEF IntakeInv, TypeOK, LockOutlasts, OneHolder, Diagnosing,
                      WorkInScope, Scoped, isNamespaceScoped
<1>6. CASE Tick
  BY <1>6, TickKeeps
<1>7. CASE UNCHANGED vars
  BY <1>7 DEF vars, IntakeInv, TypeOK, LockOutlasts, OneHolder, Diagnosing,
              WorkInScope, Scoped, isNamespaceScoped
<1> QED BY <1>1, <1>2, <1>3, <1>4, <1>5, <1>6, <1>7 DEF Next

(* IntakeInv holds for every number of replicas, pods and keys and for     *)
(* every length of the window and of the context, the one longer than the  *)
(* other: only scoped work is queued, and a lock outlasts the diagnosis it *)
(* was taken for.                                                          *)
THEOREM IntakeInvariant == Spec => []IntakeInv
<1>1. Init => IntakeInv
  BY InitIntake
<1>2. IntakeInv /\ [Next]_vars => IntakeInv'
  BY NextKeeps
<1> QED BY <1>1, <1>2, PTL DEF Spec

(* Two replicas never diagnose one workload at the same time, whatever     *)
(* becomes of the lease, unless one of them could not read its owner.      *)
THEOREM OneDiagnosis == Spec => []OneAtATime
<1>1. IntakeInv => OneAtATime
  <2> SUFFICES ASSUME IntakeInv, NEW r \in Replica, NEW s \in Replica, r # s,
                      Diagnosing(r), Diagnosing(s),
                      Workload[worker[r].item.pod] = Workload[worker[s].item.pod]
               PROVE  \E q \in {r, s} : worker[q].key # Workload[worker[q].item.pod]
    BY DEF OneAtATime
  <2>1. worker[r].key # worker[s].key
    BY DEF IntakeInv, OneHolder
  <2> QED BY <2>1
<1> QED BY <1>1, IntakeInvariant, PTL
=============================================================================
