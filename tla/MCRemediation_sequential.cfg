SPECIFICATION Spec
CONSTANTS
    Target = {t1, t2}
    CreatesFile = {t2}
    Plan = {p1, p2}
    Worker = {w1}
    Approver = {a1}
    Monitor = {m1}
    Mode = "auto-fix"
    HasDB = TRUE
    HonoursCtx = TRUE
    Faults = {"vcs", "reply", "crash"}
    ActiveHold = 1
    ObservationDelay = 1
    ApprovalTTL = 1
    AgeCap = 2
    MaxReverts = 1
    NoPlan = NoPlan
    NoTarget = NoTarget
INVARIANT IInv
PROPERTY NoDuplicatePR
SYMMETRY Symmetry
