----------------------------- MODULE MCErpSync -----------------------------
(* Small instances of ErpSync for TLC.                                     *)
EXTENDS ErpSync, TLC

CONSTANTS c1, c2, v1, i1, p1, a1, r1, r2, t1, t2, y1, y2

\* One vehicle's invoice i1, paid by p1, and an advance a1 on its job card.
MCVehicleOf == [x \in Invoices \union Advances |-> v1]
MCInvoiceOf == [p \in Payments |-> i1]

\* Two passes of one route, or two taps, differ in nothing but their names.
Twins == Permutations(Runners) \union Permutations(Tailers) \union Permutations(Taps)

\* What each run lets happen, and how often; the rest never does.
Only(counts) == [k \in BudgetKeys |-> IF k \in DOMAIN counts THEN counts[k] ELSE 0]
RunnersBudgets == {Only([crash |-> 1, fault |-> 1, late |-> 1]), Only([fault |-> 1, misbook |-> 1]),
                   Only([reset |-> 1, crash |-> 1]), Only([deliver |-> 1, toggle |-> 1])}
TailersBudgets == {Only([crash |-> 1, reset |-> 1, repost |-> 1, deliver |-> 1,
                         transfer |-> 1, toggle |-> 1]),
                   Only([crash |-> 1, reset |-> 1, repost |-> 1, deliver |-> 1,
                         reissue |-> 1])}
ServedBudgets == {Only([crash |-> 2]),
                  Only([crash |-> 1, fault |-> 1]), Only([crash |-> 1, deliver |-> 1]),
                  Only([crash |-> 1, repost |-> 1])}
StuckBudgets == {Only([reset |-> 1])}
NoBudgets == {Only(<<>>)}
=============================================================================
