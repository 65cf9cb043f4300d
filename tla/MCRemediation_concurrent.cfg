SPECIFICATION Spec
CONSTANTS
    Target = {t1}
    CreatesFile = {}
    Plan = {p1, p2}
    Worker = {w1, w2}
    Approver = {}
    Monitor = {}
    Mode = "auto-fix"
    HasDB = TRUE
    HonoursCtx = TRUE
    Faults = {}
    ActiveHold = 1
    ObservationDelay = 1
    ApprovalTTL = 1
    AgeCap = 2
    MaxReverts = 1
    NoPlan = NoPlan
    NoTarget = NoTarget
PROPERTY NoDuplicatePR
