---------------------------- MODULE MCPurchasing ----------------------------
(***************************************************************************)
(* Purchasing for TLC: two orders for one part, and one line of the first  *)
(* order straight to a job.                                                *)
(***************************************************************************)
EXTENDS Purchasing, TLC

CONSTANTS o1, o2, l1, l2, l3, a

MCOrderOf == (l1 :> o1) @@ (l2 :> o2) @@ (l3 :> o1)
MCDestinationOf == (l1 :> a) @@ (l2 :> a) @@ (l3 :> Direct)

Only(counts) == [k \in Sorts |-> IF k \in DOMAIN counts THEN counts[k] ELSE 0]

Row(q, b) == [NoLine EXCEPT !.live = TRUE, !.qty = q, !.priced = b]
Rows(x, y, z) == (l1 :> x) @@ (l2 :> y) @@ (l3 :> z)

Scenario(lines, stock, counts) ==
    [intent |-> (o1 :> "ORDER") @@ (o2 :> "QUOTE"), lines |-> lines, stock |-> (a :> stock),
     budget |-> Only(counts)]

Receipts == Scenario(Rows(Row(2, TRUE), NoLine, Row(1, TRUE)), 0,
                     [status |-> 2, receive |-> 2, kill |-> 1])
Blends   == Scenario(Rows(Row(1, TRUE), Row(1, TRUE), NoLine), 0,
                     [status |-> 2, receive |-> 2])
Edits    == Scenario(Rows(Row(2, TRUE), NoLine, NoLine), 0,
                     [edit |-> 2, status |-> 2, receive |-> 1])
Quotes   == Scenario(Rows(NoLine, Row(1, FALSE), NoLine), 0,
                     [edit |-> 2, status |-> 1, receive |-> 1])
Returns  == Scenario(Rows(Row(2, TRUE), NoLine, NoLine), 1,
                     [status |-> 1, receive |-> 1, return |-> 2, use |-> 1])
Counts   == Scenario(Rows(Row(1, TRUE), NoLine, NoLine), 1,
                     [status |-> 1, receive |-> 1, return |-> 1, adjust |-> 1, use |-> 1,
                      reprice |-> 1])
Payments == Scenario(Rows(Row(2, TRUE), NoLine, NoLine), 0,
                     [status |-> 1, receive |-> 2, pay |-> 2])
Voids    == Scenario(Rows(Row(1, TRUE), NoLine, NoLine), 0,
                     [status |-> 1, receive |-> 1, pay |-> 2, void |-> 2, kill |-> 1])
Costs    == Scenario(Rows(NoLine, NoLine, NoLine), 0, [expense |-> 1, void |-> 2])

MCScenarios == {Receipts, Blends, Edits, Quotes, Returns, Counts, Payments, Voids, Costs}

Symmetry == Permutations(Requests) \union Permutations(Desks) \union Permutations(Bills)
=============================================================================
