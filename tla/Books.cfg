\* Files as before, or the books of two jobs over two periods.
SPECIFICATION MCSpec
CONSTANTS
    Batches = {b1, b2}
    Customers = {c1, c2, c3}
    Names = {ann, bob}
    Phones = {1, 2, 3}
    Dialled <- MCDialled
    Runs = {r1, r2}
    None = None
    b1 = b1
    b2 = b2
    c1 = c1
    c2 = c2
    c3 = c3
    ann = ann
    bob = bob
    j1 = j1
    j2 = j2
    Scenarios <- MCScenarios
    Jobs = {j1, j2}
    Invs = {i1, i2}
    Advs = {a1, a2}
    Papers = {d1, d2}
    Quote <- MCQuote
    Subtotals = {20, 40}
    PartsCost = 10
    Emirates = {dubai}
    LastPeriod = 1
    Opening = 5
    Owners <- MCOwners
    Workloads <- MCWorkloads
SYMMETRY Symmetry
CHECK_DEADLOCK FALSE
INVARIANTS ImportedOnce
INVARIANTS StatementsMatchLedger ReportsAddUp VoidUndoesSale
PROPERTY ClosedPeriodsStand
