CONSTANTS
    a = a
    u = u
    Tasks <- MCTasks
    Agent <- MCAgent
    MaxSeq <- MCMaxSeq
    QCap <- MCQCap
    MmapReportMisc = TRUE
    MmapStallMisc = FALSE
    MmapStallOnExec = TRUE
    MmapStallOnLdso = TRUE
    FreeRefused = FALSE
SPECIFICATION Spec
INVARIANT PerTaskOrder
