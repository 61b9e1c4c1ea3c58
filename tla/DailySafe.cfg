SPECIFICATION DailySpec
CONSTANTS
    Cut = Cut
    Newline = Newline
    Nobody = Nobody
    Process = {p1, p2}
    Note = {n1, n2}
    LastMonth = 2
    MaxRecover = 2
    MaxCut = 1
    Procs = {q1, q2}
    MinCount = 1
    MaxSignals = 3
    MaxJobs = 2
    MaxHours = 2
    RefreshJobs = {1, 2}
    Documents = {1, 2, 3, 4, 5, 6}
    Sources <- MCSources
    Kept = 2
    Lesson = {1, 2}
    Procedure = {1}
    Legacy = {2}
    MaxChanges = 2
    MaxReviewCalls = 2
    MaxRefreshes = 2
    MaxBuilds = 1
    Notes <- MCNotes
    Stores <- MCStores
    Graphs <- MCGraphs
    Requests <- MCRequests
    MaxWrites = 1
    Bodies <- MCBodies
    TopicOf <- MCTopicOf
    PageOf <- MCPageOf
    Edited <- MCEdited
    MaxEdits = 1
    MaxSyncs = 2
    Ingesters = {q1, q2}
    DocSections <- MCSections
    Docs = {1}
    Limits = {1, 9}
    MaxDocEdits = 2
    MaxIngests = 2
    Dirs <- MCDirs
    MaxExchanges = 2
SYMMETRY ProcSymmetry
INVARIANTS ArchiveIsWhole RefreshTellsTheTruth  
  
CHECK_DEADLOCK FALSE
