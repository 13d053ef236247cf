------------------------------ MODULE MCIntake ------------------------------
(***************************************************************************)
(* Intake and Chat for TLC: two customers with a car each, on file with    *)
(* plates p and q; a third phone has no customer yet.                      *)
(***************************************************************************)
EXTENDS Chat, TLC

CONSTANTS c1, c2, c3, v1, v2, v3, v4, fa, fb, fc, p, q, pRaw, x, m1, m2, m3

Only(counts) == [k \in Sorts |-> IF k \in DOMAIN counts THEN counts[k] ELSE 0]
OnlyChat(counts) == [k \in ChatSorts |-> IF k \in DOMAIN counts THEN counts[k] ELSE 0]

OnFile(counts) ==
    [phone |-> (c1 :> fa) @@ (c2 :> fb) @@ (c3 :> None),
     vehicle |-> (v1 :> Registered(c1, p, x)) @@ (v2 :> Registered(c2, q, None)) @@
                 (v3 :> NoVehicle) @@ (v4 :> NoVehicle),
     budget |-> Only(counts)]

\* Two messages of fa, on which the receptionist answers and drafts, one of a new
\* number, which it hands over.
MCSenderOf == (m1 :> fa) @@ (m2 :> fa) @@ (m3 :> fc)
MCRouteOf  == (m1 :> "AUTO") @@ (m2 :> "PROPOSE") @@ (m3 :> "HANDOFF")
MCClear    == (m1 :> TRUE) @@ (m2 :> FALSE) @@ (m3 :> TRUE)
MCPayloads == {<<m1>>, <<m1, m2>>, <<m2>>, <<m3>>, <<m3, m1>>}

Quiet == OnFile(<<>>)
Chats == {OnlyChat([webhook |-> 2, kill |-> 1]),
          OnlyChat([webhook |-> 2, approve |-> 1, fail |-> 1]),
          OnlyChat([webhook |-> 2, mode |-> 2]),
          OnlyChat([webhook |-> 1, approve |-> 2, fail |-> 1]),
          OnlyChat([webhook |-> 1, approve |-> 1, discard |-> 1, manual |-> 1]),
          OnlyChat([schedule |-> 2, remind |-> 2, cancel |-> 1]),
          OnlyChat([schedule |-> 1, remind |-> 2, fail |-> 1, kill |-> 1])}

\* The reception alone, the chat alone, and the two about one customer.
Alone == {OnFile([intake |-> 2]),
          OnFile([intake |-> 1, customer |-> 1]),
          OnFile([intake |-> 1, booking |-> 1, answer |-> 2]),
          OnFile([booking |-> 2, answer |-> 2, card |-> 1]),
          OnFile([booking |-> 1, answer |-> 3])}
Booking == OnFile([booking |-> 1])
Edit    == OnFile([customer |-> 1])
MCScenarios == Alone \union {Quiet, Booking, Edit}
MCChatBudgets ==
    [s \in MCScenarios |-> CASE s = Quiet   -> Chats
                             [] s = Booking -> {OnlyChat([webhook |-> 1])}
                             [] s = Edit    -> {OnlyChat([schedule |-> 1, remind |-> 1]),
                                                   OnlyChat([webhook |-> 1])}
                             [] s \in Alone -> {OnlyChat(<<>>)}]

Symmetry == Permutations(Advisors) \union Permutations(Cards) \union Permutations(Bookings)
               \union Permutations(Workers)
=============================================================================
