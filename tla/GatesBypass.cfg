\* A card held for a part is not held for a quote that costs more.
SPECIFICATION BoardSpec
CONSTANTS
    Ests = {1, 2}
    a = a
    b = b
    Lines = {a, b}
    Parts = {q1}
    Requests = {r1}
    Scenarios <- BypassScenarios
CHECK_DEADLOCK FALSE
INVARIANT NoWorkBeforeReapproval
