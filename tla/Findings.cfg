\* Two technicians, one a MASTER, and two requests at a time over two cards.
SPECIFICATION PaperSpec
CONSTANTS
    j1 = j1
    j2 = j2
    t1 = t1
    t2 = t2
    Jobs = {j1, j2}
    Techs = {t1, t2}
    Masters = {t2}
    Requests = {p1, p2}
    MaxSessions = 2
    Scenarios <- MCScenarios
    MaxItems = 3
    MaxDrafts = 2
    Hands = {h1, h2}
    Loads <- MCLoads
    NoJob = NoJob
    NoTech = NoTech
CHECK_DEADLOCK FALSE
INVARIANTS OneOpenPerTech QuotedOnce
PROPERTIES HandoverStands ClaimIsExclusive StopsEveryTimer EveryTimerEnds
