----------------------------- MODULE MCInvoices -----------------------------
(***************************************************************************)
(* Invoices for TLC: two estimates of one each, worded alike or not.       *)
(***************************************************************************)
EXTENDS Invoices, TLC

One == [e \in Ests |-> 1]

MCWordings == {[e \in Ests |-> 1], [e \in Ests |-> e]}

Only(counts) == [k \in Sorts |-> IF k \in DOMAIN counts THEN counts[k] ELSE 0]

MCBudgets == {
    Only([approve |-> 2, decline |-> 1, generate |-> 3]),
    Only([approve |-> 2, toggle |-> 2, generate |-> 2, pay |-> 1]),
    Only([approve |-> 2, decline |-> 1, toggle |-> 1, advance |-> 2, generate |-> 1]),
    Only([approve |-> 2, generate |-> 2, advance |-> 2, kill |-> 1]),
    Only([approve |-> 2, generate |-> 2, edit |-> 1, pay |-> 1, kill |-> 1]),
    Only([approve |-> 2, generate |-> 2, edit |-> 2]),
    Only([approve |-> 1, generate |-> 1, advance |-> 1, edit |-> 1, pay |-> 2]),
    Only([approve |-> 2, generate |-> 1, pay |-> 2, send |-> 1, deliver |-> 1, void |-> 2]),
    Only([approve |-> 1, generate |-> 1, edit |-> 2, send |-> 1, deliver |-> 1, void |-> 1]),
    Only([approve |-> 1, generate |-> 1, edit |-> 1, send |-> 2, deliver |-> 2, void |-> 2,
          reissue |-> 2]),
    Only([approve |-> 2, generate |-> 2, send |-> 2, deliver |-> 1, void |-> 1,
          reissue |-> 1]),
    Only([approve |-> 2, generate |-> 2, send |-> 2, deliver |-> 2, void |-> 2,
          reissue |-> 1]),
    Only([approve |-> 1, generate |-> 1, send |-> 3, deliver |-> 2, void |-> 2,
          reissue |-> 1, kill |-> 1])}

Symmetry == Permutations(Requests) \union Permutations(Invs) \union Permutations(Advs)
=============================================================================
