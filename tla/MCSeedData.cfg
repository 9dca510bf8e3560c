\* Two complete runs fit in the rowids.  The program stops after the last run.
SPECIFICATION SeedSpec
CONSTANTS
    MaxRowid = 8
    RegionIds <- MCRegionIds
    NumTypes = 1
    Amounts <- MCAmounts
    PaidDates <- MCPaidDates
    NumRegions = 1
    PerRegion = 4
    NumCustomers = 4
    NumMonths = 1
    MaxRuns = 2
    MaxFails = 1
INVARIANTS CheckComplete AtRiskJustified OneRiskPerCustomer
PROPERTIES BillsAreFinal
CHECK_DEADLOCK FALSE
