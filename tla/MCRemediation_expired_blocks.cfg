SPECIFICATION Spec
CONSTANTS
    Target = {t1}
    CreatesFile = {}
    Plan = {p1}
    Worker = {w1}
    Approver = {}
    Monitor = {}
    Mode = "click-to-fix"
    HasDB = TRUE
    HonoursCtx = TRUE
    Faults = {}
    ActiveHold = 1
    ObservationDelay = 1
    ApprovalTTL = 1
    AgeCap = 2
    MaxReverts = 1
    NoPlan = NoPlan
    NoTarget = NoTarget
INVARIANT BlockedForAReason
