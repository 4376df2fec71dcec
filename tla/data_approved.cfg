\* Can every approved template be executed by PostgresDatabase?
CONSTANTS
    emp = emp  boss = boss  shop = shop  plant = plant
    Null = Null  Malformed = Malformed  NoTemplate = NoTemplate
    Requests = {q1}
    Principals = {emp, boss}
    Departments = {shop, plant}
    DeptOf <- Claims
    Executives = {boss}
    Products = {1, 2, 3}
    Today = 3
    SalesLines <- SalesAll
    StockLines <- StockAll
    FirstSales <- Sales0
    FirstStock <- Stock0
    Decisions <- Proposals
    Threshold = 70
    MaxRows = 2
    ExcerptRows = 1
    MaxTopN = 3
    DefaultTopN = 1
    MaxSpan = 2
    Lookback = 2
    Within <- Digits
    GrantStore = TRUE
    MaxChanges = 0
SPECIFICATION Spec
INVARIANTS ApprovedTemplatesRun
