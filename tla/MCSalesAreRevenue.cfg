\* Sales are what was paid: refuted.  Two months of usage for each customer.
SPECIFICATION MCSpec
CONSTANTS
    MaxRowid = 4
    RegionIds <- MCRegionIds
    NumTypes = 1
    Amounts <- MCAmounts
    PaidDates <- MCPaidDates
    NumRegions = 2
    PerRegion = 1
    NumCustomers = 2
    NumMonths = 2
    MaxRuns = 2
    MaxFails = 2
INVARIANTS SalesAreRevenue
CHECK_DEADLOCK FALSE
