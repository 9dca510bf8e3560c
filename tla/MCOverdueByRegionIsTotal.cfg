\* The overdue chart adds up to the overdue total: refuted.
SPECIFICATION Spec
CONSTANTS
    MaxRowid = 5
    RegionIds <- MCRegionIds
    NumTypes = 1
    Amounts <- MCAmounts
    PaidDates <- MCPaidDates
    NumRegions = 2
    PerRegion = 2
    NumCustomers = 4
    NumMonths = 1
    MaxRuns = 2
    MaxFails = 0
INVARIANTS OverdueByRegionIsTotal
