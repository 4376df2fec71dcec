\* One request of either skill, by an employee or an executive, while the business and the grants change.
CONSTANTS
    emp = emp  boss = boss  shop = shop  plant = plant
    Null = Null  Malformed = Malformed  NoTemplate = NoTemplate
    Requests = {q1}
    Principals = {emp, boss}
    Departments = {shop, plant}
    DeptOf <- Claims
    Executives = {boss}
    Products = {1, 2, 3}
    Today = 3
    SalesLines <- SalesAll
    StockLines <- StockAll
    FirstSales <- Sales0
    FirstStock <- Stock0
    Decisions <- Proposals
    Threshold = 70
    MaxRows = 2
    ExcerptRows = 1
    MaxTopN = 3
    DefaultTopN = 1
    MaxSpan = 2
    Lookback = 2
    Within <- Digits
    GrantStore = TRUE
    MaxChanges = 2
SPECIFICATION FairSpec
INVARIANTS TypeOK RowsInScope OwnLimitHonoured RefusalsExplained ShortTablesPass
PROPERTIES RequestsEnd
