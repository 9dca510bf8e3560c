\* Five rowids: one more than the customers of a run.
SPECIFICATION FairSpec
CONSTANTS
    MaxRowid = 5
    RegionIds <- MCRegionIds
    NumTypes = 1
    Amounts <- MCAmounts
    PaidDates <- MCPaidDates
    NumRegions = 2
    PerRegion = 2
    NumCustomers = 4
    NumMonths = 1
    MaxRuns = 2
    MaxFails = 0
INVARIANTS TypeOK RefsAllocated OverdueHasAtRisk OverdueReportsAgree
PROPERTIES NewCustomerHasCleanSlate LateBillsFlagged
