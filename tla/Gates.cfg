\* One card: its estimates, part requests and statuses, two requests at a time, from
\* anywhere or from freshly drawn pages.
SPECIFICATION BoardSpec
CONSTANTS
    Ests = {1, 2}
    a = a
    b = b
    Lines = {a, b}
    Parts = {q1, q2}
    Requests = {r1, r2}
    Scenarios <- MCScenarios
SYMMETRY Slots
CHECK_DEADLOCK FALSE
INVARIANTS EstimateAddsUp StockMovesOnce PartsHoldIsJustified TurnOffered
PROPERTIES DecisionStands ApprovalHoldStands ClosedToTheFloor
