\* Everything that runs by itself, in turn, with the fairness of its module.  The
\* bounds of the modules stop it.
SPECIFICATION FairSpec
CONSTANTS
    C1 = C1
    C2 = C2
    C3 = C3
    Workers = {1, 2, 3}
    MaxAccepts = 5
    Runners = {R1, R2}
    MaxOps = 3
    Blank = Blank
    Texts = {X, Y}
    Regions = {1, 2}
    MaxRowid = 2
    MaxMenuRuns = 2
    T1 = T1
    T2 = T2
    P1 = P1
INVARIANTS ProcessesTypeOK ServerRunsInOrder SchedulerIsSound TruncatedEntryWritesLittle
PROPERTIES EverythingGetsSomewhere Answered
CHECK_DEADLOCK FALSE
