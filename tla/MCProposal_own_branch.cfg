SPECIFICATION ProposalSpec
CONSTANTS
    Fault <- MCFault
    Exposed = TRUE
    Quotable <- MCQuotable
    ArgoCDEnabled = TRUE
    Spelled <- MCSpelled
    Served <- MCServed
    Registries = {"docker.io"}
    Replacements = {"new"}
    Registry <- MCRegistry
    Protected = {}
    Guarded = TRUE
    Rendered = TRUE
    RequireRender = TRUE
    Tools = {"kubectl", "helm"}
    World <- MCWorld
    Answer <- MCAnswer
    Trusted = {"r1", "r2"}
    Sorted <- MCSorted
    Mode <- MCMode
    MaxPushes = 1
INVARIANT OwnBranch
CHECK_DEADLOCK FALSE
