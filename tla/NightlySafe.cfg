SPECIFICATION NightlySpec
CONSTANTS
    ta = ta
    tb = tb
    tc = tc
    k1 = k1
    Text = {ta, tb, tc}
    Sim <- MCSim
    Topic = {k1}
    Given = {9}
    MaxNote = 3
    MaxChains = 3
    Rows <- NewRows
    Seeds <- Past
    Memory = {1, 2, 3}
    Layer <- MCLayer
    Group <- MCGroup
    Born <- MCBorn
    Likeness <- MCLikeness
    Trusted = {1, 3}
    Stale = {1, 2}
    Kinds = {"supports", "co_activated"}
    SameAt = 45
    CrossAt = 50
    MaxPerNote = 2
    MaxLinks = 5
    MaxPairs = 2
    MaxPruned = 2
    MaxBridges = 1
    JointAt = 2
    Old <- MCOld
    Late = {3}
    MaxRecalls = 2
    MaxOutcomes = 1
    MaxStages = 2
    Phrase = {"a", "b", "c", "d", "e"}
    Close <- MCClose
    Tables <- MCTables
    Drafts = {"a", "d"}
    Fixtures <- MCFixtures
    Arrivals <- MCArrivals
    MaxNotes = 5
    MaxRuns = 2
    MaxRetired = 1
    Cand = {1, 3}
    Claim <- MCClaim
    Drift = {3}
    ShadowMode = TRUE
    Answers = {79, 98}
    MaxMemories = 2
    MaxNights = 2
    MaxPromotes = 2
    MaxReports = 1
    Promotions = {"d1", "d2"}
    MaxEvolutions = 6
    MaxReviews = 3
    w1 = w1
    w2 = w2
    Keepers = {w1, w2}
    Kept = {1, 2, 3}
    Begins <- MCBegins
    Resemblance <- MCResemblance
    Bulk = 2
    MaxPerPhase = 2
    MaxKept = 2
    MaxReported = 1
    Refreshers = {w1, w2}
    Curated <- MCCurated
    Facts <- MCFacts
    SampleSize = 3
    MaxEditions = 2
    MaxRefreshRuns = 2
INVARIANTS NightGathers EvolutionIsSound 
PROPERTIES NightKeepsLineages LinksAreEarned  DreamsComeTrueOnce 
CHECK_DEADLOCK FALSE
