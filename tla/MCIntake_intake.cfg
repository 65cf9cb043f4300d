SPECIFICATION FairSpec
CONSTANTS
    r1 = r1  r2 = r2  p1 = p1  p2 = p2  p3 = p3  p4 = p4
    deployment = deployment  replicaSet = replicaSet
    statefulSet = statefulSet  Nobody = Nobody
    Replica = {r1, r2}  Alone = r1
    Pod = {p1, p2, p3, p4}
    Key = {p1, p2, p4, deployment, replicaSet, statefulSet}
    PodKey <- MCPodKey  Workload <- MCWorkload  Owner <- MCOwner
    Namespace <- MCNamespace  Included = {}  Excluded = {"kube-system"}
    FailPod = {p1, p3}  AlertPod = {p3, p4}  SlowPod = {p2, p3}  MayGo = {p2}
    Prometheus = TRUE  MetricsAPI = FALSE
    Window = 2  Limit = 1  MaxFaults = 1
INVARIANTS IntakeInv OneAtATime
PROPERTIES EveryFailureAnswered
CHECK_DEADLOCK FALSE
