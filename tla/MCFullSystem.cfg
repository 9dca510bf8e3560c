\* Two regions of one customer, two months of usage, two energy types.  seed_paid_bills alone stops after its last run.
SPECIFICATION MCSpec
CONSTANTS
    MaxRowid = 4
    RegionIds <- MCRegionIds
    NumTypes = 2
    Amounts <- MCAmounts
    PaidDates <- MCPaidDates
    NumRegions = 2
    PerRegion = 1
    NumCustomers = 2
    NumMonths = 2
    MaxRuns = 2
    MaxFails = 2
INVARIANTS FullTypeOK RebuildComplete RevenueIsComplete SalesCountEveryMonth
CHECK_DEADLOCK FALSE
