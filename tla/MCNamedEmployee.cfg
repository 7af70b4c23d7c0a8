CONSTANTS
    None = None
    Endpoints = {"e1", "e2"}
    Aliases = {"fast", "big"}
    Document <- MCDocument
    Fallbacks <- MCFallbacks
    FailuresToDemote = 2
    MaxRepairs = 1
    Roles <- MCRoles
    Members <- MCMembers
    Depts <- MCDepts
    Employees <- MCEmployees
    Me = "me"
    DeptOf <- MCDeptOf
    Windows <- MCWindows
    ThisMonth = "june"
    Vocabulary <- MCVocabulary
    TimeParseMode = "llm_primary"
    Returns <- MCReturns
    CapabilityRoles <- MCCapabilityRoles
    Required <- MCRequired
    PersonalCapabilities = {"own_output"}
    AnyEmployee = "any_payroll"
    Fast = "fast"
    MaxRounds = 3
    Scenarios <- MCScenarios
    Payloads <- MCPayloads
    Drills <- MCDrills
    Loads <- MCLoads
    Beds <- MCBeds
    Days <- MCDays
    WindowDays <- MCWindowDays
    RequestBeds <- MCRequestBeds
    Queries <- MCQueries
    Broken <- MCBroken
    MaxSteps = 3
    Parts = {"assistant"}
    A = A  B = B  C = C   orders = orders  progress = progress  stock = stock
    Recipes <- MCRecipes
    Operations = {orders, progress, stock}
    PlanOrder <- MCPlanOrder
    World <- MCWorld
    Concurrencies = {1, 2}
    MaxApiCalls = 3
    MaxMesRequests = 4
    MaxProcessedRows = 5
    CallTimeout = 3
    AttemptTimeout = 1
    MaxRetries = 1
    GroupPageSize = 2
    MaxRuns = 2
SPECIFICATION SystemSpec
INVARIANT NamedEmployeeIsBound
CHECK_DEADLOCK FALSE
