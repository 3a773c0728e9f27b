SPECIFICATION Spec
CONSTANTS
    Calls <- DashboardCalls
    Databases <- MCDatabases
    MaxWrites = 0
    LastDay = 3
    Upper <- MCUpper
    Alphabet <- MCAlphabet
    Stripped <- MCStripped
    Length <- MCLength
    StartingWith <- MCStartingWith
    Containing <- MCContaining
    CategoryOf <- MCCategoryOf
    Prices <- MCPrices
    Floats <- MCFloats
    Quotient <- MCQuotient
    Product <- MCProduct
    ScopeColumns = {"client_uuid", "scope", "grant_source", "granted_at", "granted_by"}
    BasicTables <- MCBasicTables
    HighVolumeTables <- MCHighVolumeTables
    HighVolumeLimit = 2
    BasicReadScopes = {"market:read"}
    AdminRead = {"admin:read"}
    FilterOps <- MCFilterOps
INVARIANT DashboardListsClients
