SPECIFICATION Spec
CONSTANTS
    Target = {t1}
    CreatesFile = {}
    Plan = {p1, p2}
    Worker = {w1, w2}
    Approver = {a1, a2}
    Monitor = {m1}
    Mode = "click-to-fix"
    HasDB = FALSE
    HonoursCtx = FALSE
    Faults = {"db", "commit", "vcs", "reply", "crash"}
    ActiveHold = 1
    ObservationDelay = 1
    ApprovalTTL = 1
    AgeCap = 2
    MaxReverts = 1
    NoPlan = NoPlan
    NoTarget = NoTarget
INVARIANT OneSubmission
INVARIANT IInv
PROPERTY ImplementsMandate
SYMMETRY Symmetry
