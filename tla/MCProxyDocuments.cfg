SPECIFICATION Spec

CONSTANTS
    r1 = r1
    r2 = r2
    alpha = alpha
    beta = beta
    pPlain = pPlain
    pSSN = pSSN
    pClean = pClean
    pJailbreak = pJailbreak
    Requests = {r1, r2, r3}
    Tenants = {beta}
    MayUse <- DocumentMayUse
    Prompts = {pPlain}
    NoPrompt = NoPrompt
    PIIPrompts = {}
    InjectionPrompts = {}
    Redacted <- MCRedacted
    Translated = {"anthropic"}
    Inputs <- DocumentInputs
    Replies <- DocumentReplies
    MaxCost = 1
    Policies <- DocumentPolicies
    CacheShared = TRUE
    ClientKey = ClientKey
    NoJob = NoJob
    NoEntry = NoEntry
    MaxArrivals = 5
    MaxRestarts = 0
    MaxMonths = 0
    Models <- DocumentModels
    NoModel = NoModel
    NullModel = NullModel
    Names <- DocumentNames
    NoName = NoName
    NoBudget = NoBudget
    Routes <- DocumentRoutes
    Default <- MCDefault

PROPERTIES
    DocumentsHold

SYMMETRY Symmetry

CHECK_DEADLOCK FALSE
