\* One card's invoices and advances, two requests at a time.
SPECIFICATION Spec
CONSTANTS
    Invs = {i1, i2, i3}
    Advs = {a1, a2}
    Ests = {1, 2}
    Worth <- One
    Texts = {1, 2}
    Wordings <- MCWordings
    Requests = {r1, r2}
    MaxTotal = 3
    Budgets <- MCBudgets
SYMMETRY Symmetry
CHECK_DEADLOCK FALSE
INVARIANTS DepositsFollowAdvances BooksFollowInvoice PaymentsFit
INVARIANTS DocumentsInOrder BilledOnce
