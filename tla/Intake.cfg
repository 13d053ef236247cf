\* Reception, bookings, edits of customers, chat and reminders, two requests at a time.
SPECIFICATION FrontSpec
CONSTANTS
    Customers = {c1, c2, c3}
    Vehicles = {v1, v2, v3, v4}
    Cards = {j1, j2, j3}
    Bookings = {b1, b2}
    Phones = {fa, fb, fc}
    Plates = {p, q}
    Typed = {p, pRaw}
    pRaw = pRaw
    Vins = {x}
    Advisors = {a1, a2}
    None = None
    Messages = {m1, m2, m3}
    m1 = m1
    m2 = m2
    m3 = m3
    Workers = {w1, w2}
    Reminders = {r1, r2}
    SenderOf <- MCSenderOf
    RouteOf <- MCRouteOf
    Clear <- MCClear
    Payloads <- MCPayloads
    ChatBudgets <- MCChatBudgets
    c1 = c1
    c2 = c2
    c3 = c3
    v1 = v1
    v2 = v2
    v3 = v3
    v4 = v4
    fa = fa
    fb = fb
    fc = fc
    p = p
    q = q
    x = x
    Scenarios <- MCScenarios
SYMMETRY Symmetry
CHECK_DEADLOCK FALSE
INVARIANTS PlatesOnOneVehicle TransfersChain CardsAccountedFor NothingLostOrTwice
