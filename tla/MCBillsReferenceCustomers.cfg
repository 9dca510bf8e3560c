\* An issued bill has a customer: refuted.
SPECIFICATION MCSpec
CONSTANTS
    MaxRowid = 4
    RegionIds <- MCRegionIds
    NumTypes = 1
    Amounts <- MCAmounts
    PaidDates <- MCPaidDates
    NumRegions = 2
    PerRegion = 1
    NumCustomers = 2
    NumMonths = 1
    MaxRuns = 2
    MaxFails = 2
INVARIANTS BillsReferenceCustomers
CHECK_DEADLOCK FALSE
