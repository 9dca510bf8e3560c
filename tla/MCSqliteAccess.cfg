\* Two server threads and one other program, any requests, crashes at any time.
SPECIFICATION Spec
CONSTANTS
    t1 = t1
    t2 = t2
    p1 = p1
    Threads <- MCThreads
    Peers <- MCPeers
    MaxRowid = 2
    Owing <- MCOwing
SYMMETRY Symmetry
INVARIANTS TypeOK NoLockLeft
PROPERTIES ImplementsRegistry ScanIsolated
