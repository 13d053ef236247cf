SPECIFICATION Spec
CONSTANTS
    c1 = c1  c2 = c2  v1 = v1  i1 = i1  p1 = p1  a1 = a1
    r1 = r1  r2 = r2  t1 = t1  t2 = t2  y1 = y1  y2 = y2
    NoJob = NoJob
    NoName = NoName
    Customers = {c1}
    Vehicles = {v1}
    Invoices = {i1}
    Payments = {p1}
    Advances = {}
    VehicleOf <- MCVehicleOf
    InvoiceOf <- MCInvoiceOf
    Corrections = {}
    Taps = {y1}
    Runners = {r1}
    Tailers = {t1}
    MaxOpenTxns = 1
    LatestStart = 0
    Budgets <- StuckBudgets
    BATCH_SIZE = 2
    MAX_JOBS_PER_PASS = 2
    MAX_ATTEMPTS_BEFORE_DEAD_LETTER = 2
INVARIANTS
    TailerNeverStuck
CHECK_DEADLOCK FALSE
