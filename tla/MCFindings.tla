------------------------------ MODULE MCFindings ----------------------------
(***************************************************************************)
(* WorkFloor and Findings for TLC: the cards to start from, and how many   *)
(* requests of each sort may meet, on the floor, at the papers, or both.   *)
(***************************************************************************)
EXTENDS Findings, TLC

CONSTANTS j1, j2, t1, t2

Only(counts) == [k \in Sorts |-> IF k \in DOMAIN counts THEN counts[k] ELSE 0]
OnlyPapers(counts) == [k \in PaperSorts |-> IF k \in DOMAIN counts THEN counts[k] ELSE 0]

Fresh(status, assigned) ==
    [status |-> status, heldFrom |-> "NONE", claimedBy |-> NoTech, assigned |-> assigned,
     helpers |-> {}]
Taken(status, t, helpers) ==
    [Fresh(status, NoTech) EXCEPT !.claimedBy = t, !.helpers = helpers]

Start(c1, c2, counts) ==
    [card |-> (j1 :> c1 @@ j2 :> c2), budget |-> Only(counts)]

\* A card nothing happens to any more.
Gone == Fresh("CANCELLED", NoTech)

\* Every way to take, join, leave and lose one card; timers that start, switch and
\* stop on two cards, a killed request or cron, and the nights.
Floor == {
    Start(Fresh("ARRIVED", NoTech), Gone, [claim |-> 2, log |-> 1, join |-> 1]),
    Start(Fresh("ARRIVED", t1), Gone, [claim |-> 1, log |-> 1, release |-> 1, reassign |-> 1]),
    Start(Fresh("ARRIVED", NoTech), Gone, [claim |-> 1, join |-> 1, leave |-> 1, decide |-> 1]),
    Start(Taken("INSPECTION", t1, {}), Gone, [start |-> 1, join |-> 1, decide |-> 1, reassign |-> 1]),
    Start(Fresh("ARRIVED", NoTech), Gone, [claim |-> 1, join |-> 1, leave |-> 1, release |-> 1]),
    Start(Fresh("INSPECTION", NoTech), Gone, [claim |-> 1, log |-> 1, release |-> 1, decide |-> 1]),
    Start(Fresh("ARRIVED", NoTech), Fresh("ARRIVED", t1), [claim |-> 2, start |-> 1, kill |-> 1]),
    Start(Fresh("REPAIR", NoTech), Fresh("REPAIR", NoTech), [start |-> 2, decide |-> 1, kill |-> 1])}

Pool     == Start(Fresh("ARRIVED", NoTech), Gone, <<>>)
Diagnose == Start(Taken("INSPECTION", t1, {t2}), Gone, [decide |-> 1])
Shared   == Start(Taken("REPAIR", t1, {t2}), Gone, <<>>)
Finish1  == Start(Taken("REPAIR", t1, {t2}), Gone, [decide |-> 1])
Raced    == Start(Fresh("ARRIVED", NoTech), Gone, [claim |-> 1])

Papers ==
    (Pool     :> {OnlyPapers([save |-> 1, clear |-> 1, submit |-> 2]),
                  OnlyPapers([need |-> 2, save |-> 1, submit |-> 1])}) @@
    (Diagnose :> {OnlyPapers([save |-> 1, submit |-> 1, await |-> 1, kill |-> 1])}) @@
    (Shared   :> {OnlyPapers([extra |-> 3, unextra |-> 1, reestimate |-> 2]),
                  OnlyPapers([need |-> 2, unneed |-> 1, price |-> 2, unprice |-> 1]),
                  OnlyPapers([use |-> 2, unuse |-> 1, complete |-> 1, qc |-> 1])}) @@
    (Finish1  :> {OnlyPapers([extra |-> 1, reestimate |-> 1, use |-> 1]),
                  OnlyPapers([use |-> 1, complete |-> 1, qc |-> 1])}) @@
    (Raced    :> {OnlyPapers([need |-> 1, use |-> 1])})

MCScenarios == Floor \union DOMAIN Papers
MCLoads == [s \in MCScenarios |-> IF s \in Floor THEN {OnlyPapers(<<>>)} ELSE Papers[s]]
=============================================================================
