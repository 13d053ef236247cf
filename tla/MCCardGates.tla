---------------------------- MODULE MCCardGates -----------------------------
(***************************************************************************)
(* CardGates and Boards for TLC: the cards and estimates to start from.    *)
(***************************************************************************)
EXTENDS Boards, TLC

CONSTANTS a, b

Only(counts) == [k \in Sorts |-> IF k \in DOMAIN counts THEN counts[k] ELSE 0]

Quote(status, ls) ==
    [NoEstimate EXCEPT !.status = status, !.sent = status # "DRAFT", !.lines = ls, !.total = ls,
                       !.approved = IF status = "APPROVED" THEN ls ELSE {}]

Start(status, quotes, shelf0, counts) ==
    [card |-> Card(status, "NONE", "NONE"), shelf |-> shelf0, budget |-> Only(counts),
     est |-> [e \in Ests |-> IF e \in DOMAIN quotes THEN quotes[e] ELSE NoEstimate]]

First    == <<Quote("SENT", {a, b})>>
Revised  == <<Quote("APPROVED", {a}), Quote("DRAFT", {a, b})>>
Working == <<Quote("APPROVED", {a})>>
Doubled == <<Quote("SENT", {a}), Quote("DRAFT", {a})>>

\* Drafts and their lines; the customer's link against the staff's page; a rejection
\* and its revision; a revision that costs more; parts; parts against a revision; and
\* the ends of a card against all of them; then a card from its inspection to its bill,
\* extra work and its quote, and a card sent back.
MCScenarios == {
    Start("ESTIMATE", <<>>, 0, [create |-> 2, line |-> 2, toggle |-> 1, kill |-> 1]),
    Start("ESTIMATE", <<Quote("DRAFT", {a})>>, 0, [line |-> 2, toggle |-> 1, send |-> 1, set |-> 1]),
    Start("ESTIMATE", First, 0, [answer |-> 2, flip |-> 2, set |-> 1]),
    Start("ESTIMATE", First, 0, [flip |-> 2, toggle |-> 1, answer |-> 1]),
    Start("ESTIMATE", First, 0, [answer |-> 1, set |-> 1, create |-> 1, line |-> 1, send |-> 1]),
    Start("REPAIR", Revised, 0, [send |-> 2, set |-> 1, answer |-> 1, office |-> 1]),
    Start("REPAIR", Revised, 0, [part |-> 1, advance |-> 2, send |-> 1, answer |-> 1]),
    Start("REPAIR", Working, 0, [part |-> 2, advance |-> 3, cancel |-> 1]),
    Start("REPAIR", Working, 1, [part |-> 1, advance |-> 4, cancel |-> 1, kill |-> 1]),
    Start("REPAIR", Working, 0, [part |-> 1, advance |-> 1, office |-> 1, tech |-> 1]),
    Start("REPAIR", Working, 0, [tech |-> 2, line |-> 1, send |-> 1, answer |-> 1]),
    Start("INVOICED", First, 0, [office |-> 2, answer |-> 1, set |-> 1, bill |-> 1]),
    Start("ESTIMATE", <<Quote("DRAFT", {a})>>, 0, [send |-> 2, answer |-> 1]),
    Start("INSPECTION", <<>>, 0, [tech |-> 2, create |-> 1, line |-> 1, send |-> 1,
                                  answer |-> 1, bill |-> 1, kill |-> 1]),
    Start("REPAIR", Working, 0, [tech |-> 2, line |-> 1, send |-> 1, answer |-> 1,
                                 office |-> 1, kill |-> 1]),
    Start("REPAIR", Working, 0, [office |-> 2, tech |-> 1, create |-> 1]),
    Start("EXTRA_WORK_AWAITING_APPROVAL", Revised, 0, [send |-> 1, set |-> 1, answer |-> 1,
                                                       office |-> 1, kill |-> 1]),
    Start("EXTRA_WORK_AWAITING_APPROVAL", Revised, 0, [send |-> 1, set |-> 1, part |-> 1,
                                                       advance |-> 2, tech |-> 1]),
    Start("ESTIMATE", Doubled, 0, [send |-> 1, answer |-> 2, tech |-> 1]),
    Start("ESTIMATE", First, 0, [set |-> 2, tech |-> 2, bill |-> 1])}

\* A part on order and a revision that costs more.
BypassScenarios == {Start("REPAIR", Revised, 0, [part |-> 1, advance |-> 2, send |-> 1])}

Slots == Permutations(Requests) \union Permutations(Parts)
=============================================================================
