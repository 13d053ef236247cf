\* Orders, receipts, returns, stock and bills, two requests at a time.
SPECIFICATION Spec
CONSTANTS
    Orders = {o1, o2}
    Lines = {l1, l2, l3}
    Parts = {a}
    o1 = o1
    o2 = o2
    l1 = l1
    l2 = l2
    l3 = l3
    a = a
    OrderOf <- MCOrderOf
    DestinationOf <- MCDestinationOf
    Direct = Direct
    Nowhere = Nowhere
    Requests = {r1, r2}
    MaxQty = 2
    PayablesEnabled = TRUE
    Bills = {b1, b2}
    Expenses = {x1}
    Desks = {d1, d2}
    MaxAmount = 2
    Scenarios <- MCScenarios
SYMMETRY Symmetry
CHECK_DEADLOCK FALSE
INVARIANTS StockAccountedFor OrderTellsReceipts
INVARIANTS BillFitsPayments BooksMatchDocuments
PROPERTY CostKeepsItsReceipts
