SPECIFICATION FairSpec
CONSTANTS
    Target = {t1}
    CreatesFile = {}
    Plan = {p1}
    Worker = {w1}
    Approver = {a1, a2}
    Monitor = {m1}
    Mode = "auto-fix"
    HasDB = TRUE
    HonoursCtx = TRUE
    Faults = {"db", "commit", "vcs", "reply"}
    ActiveHold = 1
    ObservationDelay = 1
    ApprovalTTL = 1
    AgeCap = 2
    MaxReverts = 2
    NoPlan = NoPlan
    NoTarget = NoTarget
INVARIANT TypeOK
INVARIANT RecordsSound
INVARIANT OneSubmission
INVARIANT Mandated
INVARIANT DoubtNeverOpens
PROPERTY LifecycleForward
PROPERTY PRFateRecorded
PROPERTY RegressionAnswered
PROPERTY StaleApprovalRefused
PROPERTY RevertedOnce
PROPERTY ImplementsMandate
