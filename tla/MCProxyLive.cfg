SPECIFICATION FairSpec

CONSTANTS
    r1 = r1
    r2 = r2
    alpha = alpha
    beta = beta
    pPlain = pPlain
    pSSN = pSSN
    pClean = pClean
    pJailbreak = pJailbreak
    Requests = {r1, r2}
    Tenants <- Tenants2
    MayUse <- MCMayUse
    Prompts <- MCPrompts
    NoPrompt = NoPrompt
    PIIPrompts = {pSSN}
    InjectionPrompts = {pJailbreak}
    Redacted <- MCRedacted
    Translated = {"anthropic", "google"}
    Inputs <- MCInputs
    Replies <- LiveReplies
    MaxCost = 1
    Policies <- MCPolicies
    CacheShared = FALSE
    ClientKey = ClientKey
    NoJob = NoJob
    NoEntry = NoEntry
    MaxArrivals = 2
    MaxRestarts = 1
    MaxMonths = 0
    Models <- MCModels
    NoModel = NoModel
    NullModel = NullModel
    Names <- MCNames
    NoName = NoName
    NoBudget = NoBudget
    Routes <- MCRoutes
    Default <- MCDefault

INVARIANTS
    AnswersRedacted

PROPERTIES
    EveryRequestAnswered

CHECK_DEADLOCK FALSE
