\* A connection that waits for its peer has a deadline: refuted.
SPECIFICATION PartsSpec
CONSTANTS
    C1 = C1
    C2 = C2
    C3 = C3
    Letters <- MCLetters
    Requests <- MCRequests
    Known <- MCKnown
    Files = "s"
    MaxRequests = 3
    Plain <- MCPlain
    Escapes <- MCEscapes
    Keys <- MCKeys
    ValueLength = 3
    Timers <- MCTimers
    Times <- MCTimes
    MaxWaits = 3
    Conns <- MCConns
    MaxArrivals = 2
    Page = 10
    File = 20
    Words = 1
    MaxAnswers = 3
    MaxStarts = 2
    MaxBusy = 1
    NumTypes = 2
    NumMonths = 2
    Costs <- MCCosts
    MaxRuns = 2
    MaxFails = 1
INVARIANTS WaitingHasDeadline
CHECK_DEADLOCK FALSE
