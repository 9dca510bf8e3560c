\* "Customer added successfully." is shown for a request that added one: refuted.
SPECIFICATION Spec
CONSTANTS
    Keys = {Plain, Awkward}
    Quoted = {Awkward}
    NoKey = NoKey
    MaxCustomerId = 2
    MaxForms = 2
    MaxSequences = 2
    MaxBillRowid = 2
    MaxPeople = 2
    Days = {1, 2}
    MaxLoads = 3
    MaxEpochs = 2
    MaxBills = 2
    MaxWrites = 4
    Sums = {0, 1, 2}
    MaxSalesRequests = 3
    Tabs = {Tab1, Tab2}
    Lifetime = 2
    MaxTime = 3
    MaxLogins = 3
INVARIANT AddedClaimTrue
CHECK_DEADLOCK FALSE
