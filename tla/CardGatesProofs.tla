-------------------------- MODULE CardGatesProofs --------------------------
(* Safety of CardGates and Boards, proved for every value of the constants. *)
EXTENDS Boards, SumLemmas

\* What a request may rely on at its next call: what it read, or was refused for.
RowOK(q) ==
    /\ \A e, f \in q.est : e = f
    /\ q.pc = "advance" => <<q.from, q.to>> \in MovesOn
    /\ q.pc = "answer" => q.quote.status = "SENT" /\ q.to \in {"APPROVED", "REJECTED"}
    /\ q.pc = "set" => q.to \in {"SENT", "APPROVED", "REJECTED"}
    /\ q.pc = "send" => q.quote.status \in {"DRAFT", "SENT"}
    /\ q.pc = "hold" => q.card.status # "ON_HOLD"
    /\ q.pc = "pause" => Pausable(q.card.status)
    /\ q.pc \in {"count", "resume"} => HeldForParts(q.card)
    /\ q.pc = "write" /\ q.card.status \in Terminal
          => q.card.status = "DELIVERED" /\ q.put.status = "ON_HOLD"
    /\ q.pc = "total" => q.sum = q.quote.lines \ q.quote.declined
    /\ q.pc = "flipped" => q.sum = q.quote.lines \ (IF q.off THEN q.quote.declined \union q.line
                                                             ELSE q.quote.declined \ q.line)

Summing(e) == \E r \in Requests : e \in req[r].est /\ req[r].pc \in {"sum", "total"}

\* An estimate's total is that of its lines, or somebody is about to write it.
SumOK(e) ==
    /\ <<"total", e>> \notin slips /\ ~Summing(e) => est[e].total = Accepted(e)
    /\ <<"line", e>> \notin slips /\ <<"answer", e>> \notin slips /\ est[e].status = "APPROVED"
          => est[e].approved = est[e].total

Waking == {"pause?", "resume?", "count", "resume"}

\* A card held for parts waits for one, or somebody is about to let it go.
HoldOK ==
    /\ <<"hold", 0>> \notin slips /\ HeldForParts(card)
          => OpenParts # {} \/ \E r \in Requests : req[r].pc \in Waking
    /\ \A r \in Requests : req[r].pc = "resume" => \A q \in OpenParts : <<"late", q>> \in slips

IInv ==
    /\ TypeOK /\ StockMovesOnce /\ HoldOK
    /\ \A r \in Requests : RowOK(req[r])
    /\ \A e \in Ests : SumOK(e)

-----------------------------------------------------------------------------
(* Requests and what they read.                                            *)

LEMMA IdleFacts ==
    /\ Idle \in Reqs /\ NoCard \in Cards /\ NoEstimate \in Quotes
    /\ Idle.pc = "idle" /\ Idle.est = {} /\ Idle.to = "NONE"
    /\ NoEstimate.status = "NONE" /\ NoEstimate.lines = {} /\ NoEstimate.declined = {}
    /\ NoEstimate.total = {}
<1>1. NoCard \in Cards
  BY DEF NoCard, Card, Cards, Statuses, Linear, HoldReasons
<1>2. NoEstimate \in Quotes
  BY DEF NoEstimate, Quotes, EstimateStatuses
<1>3. Idle \in Reqs
  BY <1>1, <1>2 DEF Idle, Reqs, PCs, EstimateStatuses, PartStatuses
<1> QED BY <1>1, <1>2, <1>3 DEF Idle, NoEstimate

LEMMA SpendType ==
    ASSUME TypeOK, NEW k \in Sorts, Spend(k)
    PROVE  budget' \in [Sorts -> Nat]
BY DEF Spend, TypeOK

\* No request but r goes on.
OnlyMoves(r) ==
    /\ req' \in [Requests -> Reqs]
    /\ \A x \in Requests \ {r} : req'[x] = req[x]

LEMMA MoveFacts ==
    ASSUME TypeOK, NEW r \in Requests, NEW q \in Reqs, req' = [req EXCEPT ![r] = q]
    PROVE  OnlyMoves(r) /\ req'[r] = q
BY DEF TypeOK, OnlyMoves

LEMMA IdleRow == RowOK(Idle)
BY DEF Idle, RowOK

LEMMA FinishFacts ==
    ASSUME TypeOK, NEW r \in Requests, Finish(r)
    PROVE  OnlyMoves(r) /\ req'[r] = Idle /\ RowOK(req'[r]) /\ req'[r].pc = "idle"
BY MoveFacts, IdleFacts, IdleRow DEF Finish

LEMMA GotoFacts ==
    ASSUME TypeOK, NEW r \in Requests, NEW pc \in PCs, Goto(r, pc)
    PROVE  /\ OnlyMoves(r) /\ req'[r].pc = pc
           /\ req'[r].est = req[r].est /\ req'[r].part = req[r].part
           /\ req'[r].line = req[r].line /\ req'[r].to = req[r].to /\ req'[r].off = req[r].off
           /\ req'[r].sum = req[r].sum /\ req'[r].quote = req[r].quote
           /\ req'[r].from = req[r].from /\ req'[r].card = req[r].card
           /\ req'[r].put = req[r].put
<1> DEFINE q == [req[r] EXCEPT !.pc = pc]
<1>1. req[r] \in Reqs
  BY DEF TypeOK
<1>2. /\ q \in Reqs /\ q.pc = pc /\ q.est = req[r].est /\ q.part = req[r].part
      /\ q.line = req[r].line /\ q.to = req[r].to /\ q.off = req[r].off /\ q.sum = req[r].sum
      /\ q.quote = req[r].quote /\ q.from = req[r].from /\ q.card = req[r].card
      /\ q.put = req[r].put
  BY <1>1 DEF Reqs
<1>3. req' = [req EXCEPT ![r] = q]
  BY DEF Goto
<1> HIDE DEF q
<1> QED BY <1>2, <1>3, MoveFacts

LEMMA AboutFacts ==
    ASSUME TypeOK, NEW r \in Requests, NEW e \in Ests, NEW pc \in PCs,
           NEW to \in EstimateStatuses, About(r, pc, e, {}, to)
    PROVE  /\ OnlyMoves(r) /\ req[r].pc = "idle"
           /\ req'[r].pc = pc /\ req'[r].est = {e} /\ req'[r].to = to /\ req'[r].quote = est[e]
<1> DEFINE q == [Idle EXCEPT !.pc = pc, !.est = {e}, !.line = {}, !.to = to, !.quote = est[e]]
<1>1. est[e] \in Quotes
  BY DEF TypeOK
<1>2. q \in Reqs /\ q.pc = pc /\ q.est = {e} /\ q.to = to /\ q.quote = est[e]
  BY <1>1, IdleFacts DEF Reqs
<1>3. req' = [req EXCEPT ![r] = q] /\ req[r].pc = "idle"
  BY DEF About, Free
<1> HIDE DEF q
<1> QED BY <1>2, <1>3, MoveFacts

\* Which statuses a request must have nothing to say for.
LEMMA PlainRow ==
    ASSUME NEW q, \A e, f \in q.est : e = f,
           q.pc \notin {"advance", "answer", "set", "send", "hold", "pause", "count", "resume",
                        "write", "total", "flipped"}
    PROVE  RowOK(q)
BY DEF RowOK

-----------------------------------------------------------------------------
(* What a step leaves standing.                                            *)

\* The hold is let be: no part is opened or closed.
LEMMA HoldFrame ==
    ASSUME IInv, NEW r \in Requests, OnlyMoves(r), pr' = pr, slips \subseteq slips',
           HeldForParts(card') =>
              HeldForParts(card) \/ OpenParts # {} \/ <<"hold", 0>> \in slips',
           req[r].pc \in Waking =>
              \/ req'[r].pc \in Waking \/ ~HeldForParts(card') \/ OpenParts # {}
              \/ <<"hold", 0>> \in slips',
           req'[r].pc = "resume" => req[r].pc = "resume" \/ OpenParts = {}
    PROVE  HoldOK'
<1>1. OpenParts' = OpenParts
  BY DEF OpenParts
<1>2. ASSUME <<"hold", 0>> \notin slips', HeldForParts(card'), OpenParts = {}
      PROVE  \E x \in Requests : req'[x].pc \in Waking
  <2>1. PICK x \in Requests : req[x].pc \in Waking
    BY <1>2 DEF IInv, HoldOK
  <2> QED BY <1>2, <2>1 DEF OnlyMoves
<1>3. ASSUME NEW x \in Requests, req'[x].pc = "resume", NEW q \in OpenParts
      PROVE  <<"late", q>> \in slips'
  BY <1>3 DEF IInv, HoldOK, OnlyMoves
<1> QED BY <1>1, <1>2, <1>3 DEF HoldOK, HeldForParts

\* The sums are let be: no estimate is written, and no sum that is due is dropped.
KeepsSums(r) ==
    req[r].pc \in {"sum", "total"} =>
        \A e \in req[r].est : \/ <<"total", e>> \in slips'
                              \/ e \in req'[r].est /\ req'[r].pc \in {"sum", "total"}

LEMMA SumFrame ==
    ASSUME IInv, NEW r \in Requests, OnlyMoves(r), slips \subseteq slips', KeepsSums(r),
           NEW e \in Ests, est'[e] = est[e]
    PROVE  SumOK(e)'
<1>1. Accepted(e)' = Accepted(e)
  BY DEF Accepted
<1>2. <<"total", e>> \notin slips' /\ Summing(e) => Summing(e)'
  BY DEF Summing, KeepsSums, OnlyMoves
<1> QED BY <1>1, <1>2 DEF IInv, SumOK

LEMMA Quiet ==
    ASSUME IInv, NEW r \in Requests, UNCHANGED <<card, est, partVars>>, slips \subseteq slips',
           budget' \in [Sorts -> Nat], OnlyMoves(r), RowOK(req'[r]), KeepsSums(r),
           req[r].pc \in Waking =>
              \/ req'[r].pc \in Waking \/ ~HeldForParts(card) \/ OpenParts # {}
              \/ <<"hold", 0>> \in slips',
           req'[r].pc = "resume" => req[r].pc = "resume" \/ OpenParts = {}
    PROVE  IInv'
<1>1. TypeOK'
  BY DEF IInv, TypeOK, partVars, OnlyMoves
<1>2. StockMovesOnce'
  BY DEF IInv, StockMovesOnce, partVars
<1>3. HoldOK'
  BY HoldFrame DEF partVars
<1>4. \A x \in Requests : RowOK(req'[x])
  BY DEF IInv, OnlyMoves
<1>5. \A e \in Ests : SumOK(e)'
  BY SumFrame
<1> QED BY <1>1, <1>2, <1>3, <1>4, <1>5 DEF IInv

\* A request begins, or goes on, having found or done nothing that others see.
LEMMA ReadStep ==
    ASSUME IInv, NEW r \in Requests, UNCHANGED <<card, est, partVars, slips>>,
           budget' \in [Sorts -> Nat], OnlyMoves(r), RowOK(req'[r]),
           req[r].pc \notin Waking \union {"sum", "total"}, req'[r].pc # "resume"
    PROVE  IInv'
BY Quiet DEF KeepsSums

\* A request that writes estimates or the card, and no part.
LEMMA DocStep ==
    ASSUME IInv, NEW r \in Requests, UNCHANGED <<partVars, budget>>, slips \subseteq slips',
           card' \in Cards, est' \in [Ests -> Quotes], OnlyMoves(r), RowOK(req'[r]),
           \A e \in Ests : SumOK(e)', HoldOK'
    PROVE  IInv'
<1>1. TypeOK'
  BY DEF IInv, TypeOK, partVars, OnlyMoves
<1>2. StockMovesOnce'
  BY DEF IInv, StockMovesOnce, partVars
<1>4. \A x \in Requests : RowOK(req'[x])
  BY DEF IInv, OnlyMoves
<1> QED BY <1>1, <1>2, <1>4 DEF IInv

-----------------------------------------------------------------------------
(* Steps that only read.                                                   *)

LEMMA BeginStep ==
    ASSUME IInv, NEW r \in Requests, Free(r), NEW q \in Reqs, RowOK(q), q.pc # "resume",
           req' = [req EXCEPT ![r] = q], NEW k \in Sorts, Spend(k),
           UNCHANGED <<card, est, partVars, slips>>
    PROVE  IInv'
<1>1. TypeOK /\ budget' \in [Sorts -> Nat]
  BY SpendType DEF IInv
<1>2. OnlyMoves(r) /\ req'[r] = q
  BY <1>1, MoveFacts
<1>3. req[r].pc \notin Waking \union {"sum", "total"}
  BY DEF Free, Waking
<1> QED BY <1>1, <1>2, <1>3, ReadStep

LEMMA CreateReadStep ==
    ASSUME IInv, NEW r \in Requests, CreateRead(r)
    PROVE  IInv'
<1>1. PICK quote \in {est[e] : e \in {x \in Newest : est[x].status = "REJECTED"}}
                    \union {NoEstimate : e \in {x \in {0} : \A y \in Newest :
                                                              est[y].status # "REJECTED"}} :
        req' = [req EXCEPT ![r] = [Idle EXCEPT !.pc = "create", !.quote = quote]]
  BY DEF CreateRead
<1>2. quote \in Quotes
  BY <1>1, IdleFacts DEF Newest, Issued, IInv, TypeOK
<1> DEFINE q == [Idle EXCEPT !.pc = "create", !.quote = quote]
<1>3. q \in Reqs /\ q.pc = "create" /\ q.est = {}
  BY <1>2, IdleFacts DEF Reqs, PCs
<1>4. req' = [req EXCEPT ![r] = q]
  BY <1>1
<1> HIDE DEF q
<1>5. RowOK(q)
  BY <1>3, PlainRow
<1> QED BY <1>3, <1>4, <1>5, BeginStep DEF CreateRead, Sorts

LEMMA LineReadStep ==
    ASSUME IInv, NEW r \in Requests, NEW e \in Ests, NEW out \in SUBSET Lines,
           NEW in \in BOOLEAN, LineRead(r, e, out, in)
    PROVE  IInv'
<1> DEFINE q == [Idle EXCEPT !.pc = "line", !.est = {e}, !.line = out, !.off = in]
<1>3. q \in Reqs /\ q.pc = "line" /\ q.est = {e}
  BY IdleFacts DEF Reqs, PCs
<1>4. req' = [req EXCEPT ![r] = q]
  BY DEF LineRead
<1> HIDE DEF q
<1>5. RowOK(q)
  BY <1>3, PlainRow
<1> QED BY <1>3, <1>4, <1>5, BeginStep DEF LineRead, Sorts

LEMMA ToggleReadStep ==
    ASSUME IInv, NEW r \in Requests, NEW e \in Ests, NEW l \in Lines, ToggleRead(r, e, l)
    PROVE  IInv'
<1> DEFINE off == l \notin est[e].declined
<1> DEFINE q == [Idle EXCEPT !.pc = "toggle", !.est = {e}, !.line = {l}, !.off = off]
<1>2. off \in BOOLEAN /\ {l} \in SUBSET Lines
  OBVIOUS
<1>4. req' = [req EXCEPT ![r] = q]
  BY DEF ToggleRead
<1> HIDE DEF off
<1>3. q \in Reqs /\ q.pc = "toggle" /\ q.est = {e}
  BY <1>2, IdleFacts DEF Reqs, PCs
<1> HIDE DEF q
<1>5. RowOK(q)
  BY <1>3, PlainRow
<1> QED BY <1>3, <1>4, <1>5, BeginStep DEF ToggleRead, Sorts

LEMMA FlipReadStep ==
    ASSUME IInv, NEW r \in Requests, NEW e \in Ests, NEW l \in Lines, FlipRead(r, e, l)
    PROVE  IInv'
<1> DEFINE off == l \notin est[e].declined
<1> DEFINE q == [Idle EXCEPT !.pc = "flip", !.est = {e}, !.line = {l}, !.off = off]
<1>2. off \in BOOLEAN /\ {l} \in SUBSET Lines
  OBVIOUS
<1>4. req' = [req EXCEPT ![r] = q]
  BY DEF FlipRead
<1> HIDE DEF off
<1>3. q \in Reqs /\ q.pc = "flip" /\ q.est = {e}
  BY <1>2, IdleFacts DEF Reqs, PCs
<1> HIDE DEF q
<1>5. RowOK(q)
  BY <1>3, PlainRow
<1> QED BY <1>3, <1>4, <1>5, BeginStep DEF FlipRead, Sorts

\* A request about an estimate begins.
LEMMA AboutStep ==
    ASSUME IInv, NEW r \in Requests, NEW e \in Ests, NEW to \in EstimateStatuses,
           NEW pc \in {"answer", "set", "send"}, About(r, pc, e, {}, to),
           pc = "answer" => est[e].status = "SENT" /\ to # "SENT", to \notin {"NONE", "DRAFT"},
           pc = "send" => est[e].status \in {"DRAFT", "SENT"},
           NEW k \in Sorts, Spend(k), UNCHANGED <<card, est, partVars, slips>>
    PROVE  IInv'
<1>1. TypeOK /\ budget' \in [Sorts -> Nat]
  BY SpendType DEF IInv
<1>2. /\ OnlyMoves(r) /\ req[r].pc = "idle"
      /\ req'[r].pc = pc /\ req'[r].est = {e} /\ req'[r].to = to /\ req'[r].quote = est[e]
  <2>1. pc \in PCs
    BY DEF PCs
  <2> QED BY <1>1, <2>1, AboutFacts
<1>3. RowOK(req'[r])
  BY <1>2 DEF RowOK, EstimateStatuses
<1>4. req[r].pc \notin Waking \union {"sum", "total"} /\ req'[r].pc # "resume"
  BY <1>2 DEF Waking
<1> QED BY <1>1, <1>2, <1>3, <1>4, ReadStep

LEMMA AboutSteps ==
    ASSUME IInv, NEW r \in Requests, NEW e \in Ests,
           \/ \E to \in {"APPROVED", "REJECTED"} : AnswerRead(r, e, to)
           \/ \E to \in {"SENT", "APPROVED", "REJECTED"} : SetRead(r, e, to)
           \/ SendRead(r, e)
    PROVE  IInv'
<1> USE DEF Sorts, EstimateStatuses
<1>1. CASE \E to \in {"APPROVED", "REJECTED"} : AnswerRead(r, e, to)
  BY <1>1, AboutStep DEF AnswerRead
<1>2. CASE \E to \in {"SENT", "APPROVED", "REJECTED"} : SetRead(r, e, to)
  BY <1>2, AboutStep DEF SetRead
<1>3. CASE SendRead(r, e)
  BY <1>3, AboutStep DEF SendRead
<1> QED BY <1>1, <1>2, <1>3

LEMMA BillReadStep ==
    ASSUME IInv, NEW r \in Requests, NEW e \in Ests, BillRead(r, e)
    PROVE  IInv'
<1>1. TypeOK /\ budget' \in [Sorts -> Nat]
  BY SpendType DEF IInv, BillRead, Sorts
<1>2. /\ OnlyMoves(r) /\ req[r].pc = "idle" /\ req'[r].pc = "bill" /\ req'[r].est = {e}
  BY <1>1, AboutFacts DEF BillRead, PCs, EstimateStatuses
<1>3. RowOK(req'[r])
  BY <1>2, PlainRow
<1>4. req[r].pc \notin Waking \union {"sum", "total"} /\ req'[r].pc # "resume"
  BY <1>2 DEF Waking
<1> QED BY <1>1, <1>2, <1>3, <1>4, ReadStep DEF BillRead

LEMMA PartReadStep ==
    ASSUME IInv, NEW r \in Requests, PartRead(r)
    PROVE  IInv'
<1> DEFINE q == [Idle EXCEPT !.pc = "part", !.card = card]
<1>3. q \in Reqs /\ q.pc = "part" /\ q.est = {}
  BY IdleFacts DEF Reqs, PCs, IInv, TypeOK
<1>4. req' = [req EXCEPT ![r] = q]
  BY DEF PartRead
<1> HIDE DEF q
<1>5. RowOK(q)
  BY <1>3, PlainRow
<1> QED BY <1>3, <1>4, <1>5, BeginStep DEF PartRead, Sorts

LEMMA AdvanceReadStep ==
    ASSUME IInv, NEW r \in Requests, NEW p \in Parts, NEW to \in PartStatuses,
           AdvanceRead(r, p, to)
    PROVE  IInv'
<1> DEFINE q == [Idle EXCEPT !.pc = "advance", !.part = {p}, !.to = to, !.from = pr[p]]
<1>2. pr[p] \in PartStatuses
  BY DEF IInv, TypeOK
<1>3. /\ q \in Reqs /\ q.pc = "advance" /\ q.est = {} /\ q.from = pr[p] /\ q.to = to
  BY <1>2, IdleFacts DEF Reqs, PCs
<1>4. req' = [req EXCEPT ![r] = q] /\ <<pr[p], to>> \in MovesOn
  BY DEF AdvanceRead
<1> HIDE DEF q
<1>5. RowOK(q)
  BY <1>3, <1>4 DEF RowOK
<1> QED BY <1>3, <1>4, <1>5, BeginStep DEF AdvanceRead, Sorts

LEMMA CancelReadStep ==
    ASSUME IInv, NEW r \in Requests, NEW p \in Parts, CancelRead(r, p)
    PROVE  IInv'
<1> DEFINE q == [Idle EXCEPT !.pc = "cancel", !.part = {p}]
<1>3. q \in Reqs /\ q.pc = "cancel" /\ q.est = {}
  BY IdleFacts DEF Reqs, PCs
<1>4. req' = [req EXCEPT ![r] = q]
  BY DEF CancelRead
<1> HIDE DEF q
<1>5. RowOK(q)
  BY <1>3, PlainRow
<1> QED BY <1>3, <1>4, <1>5, BeginStep DEF CancelRead, Sorts

\* What the office and the technicians may make of a card: never anything of a closed
\* one, but a hold of one that is delivered.
LEMMA TimelineFacts ==
    \A i \in 1..8 : /\ Timeline[i] \in Linear
                    /\ Timeline[i] = "DELIVERED" => i = 8
<1>1. \A i \in 1..8 : \/ i = 1 \/ i = 2 \/ i = 3 \/ i = 4 \/ i = 5 \/ i = 6 \/ i = 7 \/ i = 8
  OBVIOUS
<1> QED BY <1>1 DEF Timeline, Linear

LEMMA OfficeFacts ==
    ASSUME NEW c \in Cards, NEW p \in OfficePuts(c)
    PROVE  /\ p.status \in Statuses /\ p.heldFrom \in Statuses \union {"NONE"}
           /\ c.status \in Terminal => c.status = "DELIVERED" /\ p.status = "ON_HOLD"
<1> USE DEF Put, Cards, Terminal
<1>1. CASE \E s \in NextStatus(c.status) : p = Put(s, "NONE", "NONE")
  <2>1. PICK i \in 1..7 : Timeline[i] = c.status /\ p = Put(Timeline[i + 1], "NONE", "NONE")
    BY <1>1 DEF NextStatus
  <2>2. i \in 1..8 /\ i + 1 \in 1..8 /\ i # 8
    OBVIOUS
  <2> QED BY <2>1, <2>2, TimelineFacts DEF Statuses, Linear
<1>2. CASE \E s \in SkippableTargets(c.status) : p = Put(s, "NONE", "NONE")
  <2>1. PICK i \in 1..8 : /\ \E n \in 1..8 : n < i /\ Timeline[n] = c.status
                          /\ p = Put(Timeline[i], "NONE", "NONE")
    BY <1>2 DEF SkippableTargets
  <2>2. PICK n \in 1..8 : n < i /\ Timeline[n] = c.status
    BY <2>1
  <2>3. n # 8
    BY <2>2
  <2> QED BY <2>1, <2>2, <2>3, TimelineFacts DEF Statuses, Linear
<1>3. CASE /\ ~\E s \in NextStatus(c.status) : p = Put(s, "NONE", "NONE")
           /\ ~\E s \in SkippableTargets(c.status) : p = Put(s, "NONE", "NONE")
  BY <1>3 DEF OfficePuts, Transitions, Statuses, Linear
<1> QED BY <1>1, <1>2, <1>3

LEMMA PutFacts ==
    ASSUME card \in Cards, NEW put \in OfficeCards(card) \union TechCards(card)
    PROVE  /\ put \in Cards
           /\ card.status \in Terminal => card.status = "DELIVERED" /\ put.status = "ON_HOLD"
<1>1. CASE put \in OfficeCards(card)
  BY <1>1, OfficeFacts DEF OfficeCards, Card, Cards, HoldReasons
<1>2. CASE put \in TechCards(card)
  BY <1>2 DEF TechCards, Card, Cards, HoldReasons, Statuses, Linear, Terminal
<1> QED BY <1>1, <1>2

LEMMA DecideStep ==
    ASSUME IInv, NEW r \in Requests, NEW k \in Sorts,
           NEW cards, cards \subseteq OfficeCards(card) \union TechCards(card),
           DecideRead(r, k, cards)
    PROVE  IInv'
<1>1. PICK put \in cards :
         req' = [req EXCEPT ![r] = [Idle EXCEPT !.pc = "write", !.card = card, !.put = put]]
  BY DEF DecideRead
<1> DEFINE q == [Idle EXCEPT !.pc = "write", !.card = card, !.put = put]
<1>2. /\ card \in Cards /\ put \in Cards
      /\ card.status \in Terminal => card.status = "DELIVERED" /\ put.status = "ON_HOLD"
  BY <1>1, PutFacts DEF IInv, TypeOK
<1>3. q \in Reqs /\ q.pc = "write" /\ q.est = {} /\ q.card = card /\ q.put = put
  BY <1>2, IdleFacts DEF Reqs, PCs
<1>4. req' = [req EXCEPT ![r] = q]
  BY <1>1
<1> HIDE DEF q
<1>5. RowOK(q)
  BY <1>2, <1>3 DEF RowOK
<1> QED BY <1>3, <1>4, <1>5, BeginStep DEF DecideRead

-----------------------------------------------------------------------------
(* A request goes on, having read.                                         *)

LEMMA GoOnStep ==
    ASSUME IInv, NEW r \in Requests, NEW q \in Reqs, RowOK(q),
           req' = [req EXCEPT ![r] = q], UNCHANGED <<card, est, partVars, slips, budget>>,
           req[r].pc \in {"sum", "total"} => q.est = req[r].est /\ q.pc \in {"sum", "total"},
           req[r].pc \in Waking =>
              q.pc \in Waking \/ ~HeldForParts(card) \/ OpenParts # {},
           q.pc = "resume" => req[r].pc = "resume" \/ OpenParts = {}
    PROVE  IInv'
<1>1. TypeOK /\ budget' \in [Sorts -> Nat]
  BY DEF IInv, TypeOK
<1>2. OnlyMoves(r) /\ req'[r] = q
  BY <1>1, MoveFacts
<1>3. KeepsSums(r)
  BY <1>2 DEF KeepsSums
<1> QED BY <1>1, <1>2, <1>3, Quiet

\* It goes on to another call with what it has.
LEMMA GotoStep ==
    ASSUME IInv, NEW r \in Requests, NEW pc \in PCs, Goto(r, pc), RowOK([req[r] EXCEPT !.pc = pc]),
           UNCHANGED <<card, est, partVars, slips, budget>>,
           req[r].pc \notin {"sum", "total"},
           req[r].pc \in Waking => pc \in Waking \/ ~HeldForParts(card) \/ OpenParts # {},
           pc = "resume" => req[r].pc = "resume" \/ OpenParts = {}
    PROVE  IInv'
<1> DEFINE q == [req[r] EXCEPT !.pc = pc]
<1>1. req[r] \in Reqs
  BY DEF IInv, TypeOK
<1>2. q \in Reqs /\ q.pc = pc
  BY <1>1 DEF Reqs
<1>3. req' = [req EXCEPT ![r] = q]
  BY DEF Goto
<1> HIDE DEF q
<1> QED BY <1>2, <1>3, GoOnStep DEF q

\* It ends, with nothing left to write.
LEMMA EndStep ==
    ASSUME IInv, NEW r \in Requests, Finish(r), UNCHANGED <<card, est, partVars, slips, budget>>,
           req[r].pc \notin {"sum", "total"},
           req[r].pc \in Waking => ~HeldForParts(card) \/ OpenParts # {}
    PROVE  IInv'
BY GoOnStep, IdleFacts, IdleRow DEF Finish

LEMMA LineGoneStep ==
    ASSUME IInv, NEW r \in Requests, LineGone(r)
    PROVE  IInv'
<1>1. /\ req[r].pc \in {"line", "toggle", "flip"} /\ Finish(r)
      /\ UNCHANGED <<card, est, partVars, slips, budget>>
  BY DEF LineGone
<1> QED BY <1>1, EndStep DEF Waking

LEMMA SumReadStep ==
    ASSUME IInv, NEW r \in Requests, SumRead(r)
    PROVE  IInv'
<1>1. PICK e \in req[r].est :
         /\ req[r].pc = "sum"
         /\ req' = [req EXCEPT ![r].pc = "total", ![r].sum = Accepted(e), ![r].quote = est[e]]
         /\ UNCHANGED <<card, est, partVars, slips, budget>>
  BY DEF SumRead
<1>2. /\ req[r] \in Reqs /\ est[e] \in Quotes /\ Accepted(e) \in SUBSET Lines
      /\ \A f, g \in req[r].est : f = g
  BY <1>1 DEF IInv, TypeOK, Reqs, Accepted, Quotes, RowOK
<1> DEFINE sum == Accepted(e)
<1> DEFINE q == [req[r] EXCEPT !.pc = "total", !.sum = sum, !.quote = est[e]]
<1>4. req' = [req EXCEPT ![r] = q]
  BY <1>1
<1>5. sum = est[e].lines \ est[e].declined /\ sum \in SUBSET Lines
  BY <1>2 DEF Accepted
<1> HIDE DEF sum
<1>3. /\ q \in Reqs /\ q.pc = "total" /\ q.est = req[r].est /\ q.sum = sum /\ q.quote = est[e]
  BY <1>2, <1>5 DEF Reqs, PCs
<1> HIDE DEF q
<1>6. RowOK(q)
  BY <1>2, <1>3, <1>5 DEF RowOK
<1> QED BY <1>1, <1>3, <1>4, <1>6, GoOnStep DEF Waking

LEMMA FlipStep ==
    ASSUME IInv, NEW r \in Requests, Flip(r)
    PROVE  IInv'
<1>1. PICK e \in req[r].est : Flip(r)!(e)
  BY DEF Flip
<1>2. /\ req[r] \in Reqs /\ est[e] \in Quotes /\ \A f, g \in req[r].est : f = g
      /\ req[r].pc = "flip"
  BY <1>1 DEF IInv, TypeOK, Reqs, RowOK
<1> DEFINE sum == est[e].lines \ Toggled(e, req[r].line, req[r].off)
<1> DEFINE q == [req[r] EXCEPT !.pc = "flipped", !.sum = sum, !.quote = est[e]]
<1>4. req' = [req EXCEPT ![r] = q]
  BY <1>1
<1>5. /\ sum = est[e].lines \ (IF req[r].off THEN est[e].declined \union req[r].line
                                             ELSE est[e].declined \ req[r].line)
      /\ sum \in SUBSET Lines
  BY <1>2 DEF Toggled, Quotes
<1> HIDE DEF sum
<1>3. /\ q \in Reqs /\ q.pc = "flipped" /\ q.est = req[r].est /\ q.sum = sum /\ q.quote = est[e]
      /\ q.off = req[r].off /\ q.line = req[r].line
  BY <1>2, <1>5 DEF Reqs, PCs
<1> HIDE DEF q
<1>6. RowOK(q)
  BY <1>2, <1>3, <1>5 DEF RowOK
<1> QED BY <1>1, <1>2, <1>3, <1>4, <1>6, GoOnStep DEF Waking

\* It reads the card.
LEMMA CardReadStep ==
    ASSUME IInv, NEW r \in Requests, NEW pc \in {"refused", "hold", "pause", "count"},
           req' = [req EXCEPT ![r].pc = pc, ![r].card = card],
           UNCHANGED <<card, est, partVars, slips, budget>>,
           req[r].pc \notin {"sum", "total"}, pc = "refused" => req[r].pc \notin Waking,
           pc = "hold" => card.status # "ON_HOLD", pc = "pause" => Pausable(card.status),
           pc = "count" => HeldForParts(card)
    PROVE  IInv'
<1>1. req[r] \in Reqs /\ card \in Cards /\ \A f, g \in req[r].est : f = g
  BY DEF IInv, TypeOK, RowOK
<1> DEFINE q == [req[r] EXCEPT !.pc = pc, !.card = card]
<1>2. q \in Reqs /\ q.pc = pc /\ q.est = req[r].est /\ q.card = card
  BY <1>1 DEF Reqs, PCs
<1>3. req' = [req EXCEPT ![r] = q]
  OBVIOUS
<1> HIDE DEF q
<1>4. RowOK(q)
  BY <1>1, <1>2 DEF RowOK
<1>5. req[r].pc \in Waking => pc \in Waking \/ ~HeldForParts(card)
  BY DEF Pausable, HeldForParts, Waking
<1> QED BY <1>2, <1>3, <1>4, <1>5, GoOnStep

LEMMA CardReadSteps ==
    ASSUME IInv, NEW r \in Requests,
           RefuseRead(r) \/ GateRead(r) \/ PauseRead(r) \/ ResumeRead(r)
    PROVE  IInv'
<1>0. req[r] \in Reqs /\ RowOK(req[r])
  BY DEF IInv, TypeOK
<1>1. CASE RefuseRead(r)
  BY <1>1, CardReadStep DEF RefuseRead, Waking
<1>2. CASE GateRead(r)
  <2>1. CASE card.status = "ON_HOLD"
    BY <1>2, <2>1, EndStep DEF GateRead, Waking
  <2>2. CASE card.status # "ON_HOLD"
    BY <1>2, <2>2, CardReadStep DEF GateRead, Waking
  <2> QED BY <2>1, <2>2
<1>3. CASE PauseRead(r)
  <2>1. CASE Pausable(card.status)
    BY <1>3, <2>1, CardReadStep DEF PauseRead
  <2>2. CASE ~Pausable(card.status)
    <3>1. RowOK([req[r] EXCEPT !.pc = "resume?"])
      BY <1>0 DEF RowOK, Reqs
    <3> QED BY <1>3, <2>2, <3>1, GotoStep DEF PauseRead, Waking, PCs
  <2> QED BY <2>1, <2>2
<1>4. CASE ResumeRead(r)
  <2>1. CASE HeldForParts(card)
    BY <1>4, <2>1, CardReadStep DEF ResumeRead
  <2>2. CASE ~HeldForParts(card)
    BY <1>4, <2>2, EndStep DEF ResumeRead
  <2> QED BY <2>1, <2>2
<1> QED BY <1>1, <1>2, <1>3, <1>4

LEMMA PriorReadStep ==
    ASSUME IInv, NEW r \in Requests, PriorRead(r)
    PROVE  IInv'
<1>1. PICK e \in req[r].est : PriorRead(r)!(e)
  BY DEF PriorRead
<1>2. req[r] \in Reqs /\ RowOK(req[r]) /\ req[r].pc = "prior"
  BY <1>1 DEF IInv, TypeOK
<1>3. CASE QuoteIncrease(e, req[r].quote.total)
  <2>1. RowOK([req[r] EXCEPT !.pc = "gate"])
    BY <1>2 DEF RowOK, Reqs
  <2> QED BY <1>1, <1>2, <1>3, <2>1, GotoStep DEF Waking, PCs
<1>4. CASE ~QuoteIncrease(e, req[r].quote.total)
  BY <1>1, <1>2, <1>4, EndStep DEF Waking
<1> QED BY <1>3, <1>4

LEMMA ResumeCountStep ==
    ASSUME IInv, NEW r \in Requests, ResumeCount(r)
    PROVE  IInv'
<1>1. req[r] \in Reqs /\ RowOK(req[r]) /\ req[r].pc = "count"
  BY DEF IInv, TypeOK, ResumeCount
<1>2. CASE OpenParts = {}
  <2>1. RowOK([req[r] EXCEPT !.pc = "resume"])
    BY <1>1 DEF RowOK, Reqs
  <2> QED BY <1>1, <1>2, <2>1, GotoStep DEF ResumeCount, Waking, PCs
<1>3. CASE OpenParts # {}
  BY <1>1, <1>3, EndStep DEF ResumeCount
<1> QED BY <1>2, <1>3

LEMMA KillStep ==
    ASSUME IInv, NEW r \in Requests, Kill(r)
    PROVE  IInv'
<1>1. /\ TypeOK /\ Finish(r) /\ UNCHANGED <<card, est, partVars>> /\ slips \subseteq slips'
      /\ req[r] \in Reqs
  BY DEF IInv, Kill, Slip, TypeOK
<1>2. budget' \in [Sorts -> Nat]
  BY <1>1, SpendType DEF Kill, Sorts
<1>3. OnlyMoves(r) /\ req'[r] = Idle /\ RowOK(req'[r]) /\ req'[r].pc = "idle"
  BY <1>1, FinishFacts
<1>4. KeepsSums(r)
  BY <1>1 DEF KeepsSums, Kill, Slip, Reqs
<1>5. req[r].pc \in Waking => <<"hold", 0>> \in slips'
  BY DEF Kill, Slip, Waking
<1> QED BY <1>1, <1>2, <1>3, <1>4, <1>5, Quiet

-----------------------------------------------------------------------------
(* Steps that write an estimate.                                           *)

\* The row of an estimate: what it holds of the sums, whoever wrote it.
LEMMA EstStep ==
    ASSUME IInv, NEW r \in Requests, NEW e \in Ests, NEW new \in Quotes,
           est' = [est EXCEPT ![e] = new], UNCHANGED <<partVars, budget>>, slips \subseteq slips',
           card' \in Cards, OnlyMoves(r), RowOK(req'[r]),
           req[r].pc \in {"sum", "total"} => req[r].est \subseteq {e},
           SumOK(e)',
           HeldForParts(card') =>
              HeldForParts(card) \/ OpenParts # {} \/ <<"hold", 0>> \in slips',
           req[r].pc \notin Waking, req'[r].pc # "resume"
    PROVE  IInv'
<1>1. est' \in [Ests -> Quotes]
  BY DEF IInv, TypeOK
<1>2. HoldOK'
  BY HoldFrame DEF partVars
<1>3. ASSUME NEW f \in Ests, f # e PROVE SumOK(f)'
  <2>1. est'[f] = est[f] /\ Accepted(f)' = Accepted(f)
    BY <1>3 DEF IInv, TypeOK, Accepted
  <2>2. Summing(f) => Summing(f)'
    BY <1>3 DEF Summing, OnlyMoves
  <2> QED BY <2>1, <2>2 DEF IInv, SumOK
<1> QED BY <1>1, <1>2, <1>3, DocStep

LEMMA CreateStep ==
    ASSUME IInv, NEW r \in Requests, Create(r)
    PROVE  IInv'
<1>1. PICK e \in NextRow : Create(r)!(e)
  BY DEF Create
<1>2. /\ TypeOK /\ req[r] \in Reqs /\ req[r].quote \in Quotes /\ e \in Ests /\ req[r].pc = "create"
      /\ est \in [Ests -> Quotes] /\ card \in Cards /\ UNCHANGED <<card, partVars, slips, budget>>
  BY <1>1 DEF IInv, TypeOK, Reqs, NextRow
<1> DEFINE was == req[r].quote
<1> DEFINE new == [NoEstimate EXCEPT !.status = "DRAFT", !.lines = was.lines,
                                     !.declined = was.declined, !.total = was.total]
<1>3. /\ new \in Quotes /\ new.status = "DRAFT" /\ new.lines = was.lines
      /\ new.declined = was.declined /\ new.total = was.total
  BY <1>2, IdleFacts DEF Quotes, EstimateStatuses
<1>4. est' = [est EXCEPT ![e] = new]
  BY <1>1
<1> HIDE DEF new
<1>5. CASE was = NoEstimate
  <2>1. Finish(r)
    BY <1>1, <1>5
  <2>2. OnlyMoves(r) /\ RowOK(req'[r]) /\ req'[r].pc = "idle"
    BY <1>2, <2>1, FinishFacts
  <2>3. est'[e] = new /\ new.total = new.lines \ new.declined
    BY <1>2, <1>3, <1>4, <1>5, IdleFacts
  <2>4. SumOK(e)'
    BY <1>3, <2>3 DEF SumOK, Accepted
  <2> QED BY <1>2, <1>3, <1>4, <2>2, <2>4, EstStep DEF Waking
<1>6. CASE was # NoEstimate
  <2> DEFINE q == [Idle EXCEPT !.pc = "sum", !.est = {e}]
  <2>1. q \in Reqs /\ q.pc = "sum" /\ q.est = {e}
    BY <1>2, IdleFacts DEF Reqs, PCs
  <2>2. req' = [req EXCEPT ![r] = q]
    BY <1>1, <1>6
  <2> HIDE DEF q
  <2>3. RowOK(q)
    BY <2>1, PlainRow
  <2>4. OnlyMoves(r) /\ req'[r] = q
    BY <1>2, <2>1, <2>2, MoveFacts
  <2>5. Summing(e)' /\ est'[e] = new
    BY <1>2, <1>4, <2>1, <2>4 DEF Summing
  <2>6. SumOK(e)'
    BY <1>3, <2>5 DEF SumOK
  <2> QED BY <1>2, <1>3, <1>4, <2>1, <2>3, <2>4, <2>6, EstStep DEF Waking
<1> QED BY <1>5, <1>6

\* A line is written: what the lines add up to is now somebody's to find out.
LEMMA LinesStep ==
    ASSUME IInv, NEW r \in Requests, NEW e \in Ests, NEW new \in Quotes,
           est' = [est EXCEPT ![e] = new], UNCHANGED <<card, partVars, budget>>,
           req[r].pc \in {"line", "toggle"}, e \in req[r].est, Goto(r, "sum"),
           new.status = est[e].status,
           slips' = slips \union {<<"line", f>> : f \in {x \in {e} : est[x].status # "DRAFT"}}
    PROVE  IInv'
<1>1. TypeOK /\ req[r] \in Reqs /\ RowOK(req[r]) /\ card' \in Cards /\ est \in [Ests -> Quotes]
  BY DEF IInv, TypeOK
<1>2. OnlyMoves(r) /\ req'[r].pc = "sum" /\ req'[r].est = req[r].est
  BY <1>1, GotoFacts DEF PCs
<1>3. RowOK(req'[r])
  BY <1>1, <1>2 DEF RowOK
<1>4. Summing(e)' /\ est'[e] = new
  BY <1>1, <1>2 DEF Summing
<1>5. new.status = "APPROVED" => <<"line", e>> \in slips'
  OBVIOUS
<1>6. SumOK(e)'
  BY <1>4, <1>5 DEF SumOK
<1> QED BY <1>1, <1>2, <1>3, <1>6, EstStep DEF Waking

LEMMA LineWriteStep ==
    ASSUME IInv, NEW r \in Requests, LineWrite(r)
    PROVE  IInv'
<1>1. PICK e \in req[r].est, in \in SUBSET Lines : LineWrite(r)!(e, in)
  BY DEF LineWrite
<1>2. req[r] \in Reqs /\ e \in Ests /\ est[e] \in Quotes /\ est \in [Ests -> Quotes]
  BY <1>1 DEF IInv, TypeOK, Reqs
<1> DEFINE lines == (est[e].lines \ req[r].line) \union in
<1> DEFINE declined == est[e].declined \ req[r].line
<1> DEFINE new == [est[e] EXCEPT !.lines = lines, !.declined = declined]
<1>3. lines \in SUBSET Lines /\ declined \in SUBSET Lines
  BY <1>2 DEF Quotes
<1>4. est' = [est EXCEPT ![e] = new]
  BY <1>1, <1>2
<1> HIDE DEF lines, declined
<1>5. new \in Quotes /\ new.status = est[e].status
  BY <1>2, <1>3 DEF Quotes
<1> HIDE DEF new
<1> QED BY <1>1, <1>2, <1>4, <1>5, LinesStep DEF Slip

LEMMA ToggledType ==
    ASSUME NEW e, est[e] \in Quotes, NEW ls \in SUBSET Lines, NEW off
    PROVE  Toggled(e, ls, off) \in SUBSET Lines
BY DEF Toggled, Quotes

LEMMA ToggleWriteStep ==
    ASSUME IInv, NEW r \in Requests, ToggleWrite(r)
    PROVE  IInv'
<1>1. PICK e \in req[r].est : ToggleWrite(r)!(e)
  BY DEF ToggleWrite
<1>2. req[r] \in Reqs /\ e \in Ests /\ est[e] \in Quotes /\ est \in [Ests -> Quotes]
  BY <1>1 DEF IInv, TypeOK, Reqs
<1> DEFINE declined == Toggled(e, req[r].line, req[r].off)
<1> DEFINE new == [est[e] EXCEPT !.declined = declined]
<1>3. declined \in SUBSET Lines
  BY <1>2, ToggledType DEF Reqs
<1>4. est' = [est EXCEPT ![e] = new]
  BY <1>1, <1>2
<1> HIDE DEF declined
<1>5. new \in Quotes /\ new.status = est[e].status
  BY <1>2, <1>3 DEF Quotes
<1> HIDE DEF new
<1> QED BY <1>1, <1>2, <1>4, <1>5, LinesStep DEF Slip

LEMMA TotalWriteStep ==
    ASSUME IInv, NEW r \in Requests, TotalWrite(r)
    PROVE  IInv'
<1>1. PICK e \in req[r].est : TotalWrite(r)!(e)
  BY DEF TotalWrite
<1>2. /\ TypeOK /\ req[r] \in Reqs /\ e \in Ests /\ est[e] \in Quotes /\ est \in [Ests -> Quotes]
      /\ RowOK(req[r]) /\ req[r].sum \in SUBSET Lines /\ card \in Cards
      /\ req[r].pc = "total" /\ Finish(r) /\ UNCHANGED <<card, partVars, budget>>
      /\ slips \subseteq slips' /\ (est[e] # req[r].quote => <<"total", e>> \in slips')
      /\ (est[e].status # "DRAFT" => <<"line", e>> \in slips')
  BY <1>1 DEF IInv, TypeOK, Reqs, Slip
<1> DEFINE new == [est[e] EXCEPT !.total = req[r].sum]
<1>3. /\ new \in Quotes /\ new.status = est[e].status /\ new.total = req[r].sum
      /\ new.lines = est[e].lines /\ new.declined = est[e].declined
  BY <1>2 DEF Quotes
<1>4. est' = [est EXCEPT ![e] = new]
  BY <1>1, <1>2
<1> HIDE DEF new
<1>5. est'[e] = new /\ req[r].est \subseteq {e}
  BY <1>1, <1>2, <1>4 DEF RowOK
<1>6. OnlyMoves(r) /\ RowOK(req'[r]) /\ req'[r].pc = "idle"
  BY <1>2, FinishFacts
<1>7. SumOK(e)'
  <2>1. <<"total", e>> \notin slips' => new.total = new.lines \ new.declined
    BY <1>2, <1>3 DEF RowOK
  <2> QED BY <1>2, <1>3, <1>5, <2>1 DEF SumOK, Accepted
<1> QED BY <1>2, <1>3, <1>4, <1>5, <1>6, <1>7, EstStep DEF Waking

LEMMA FlipCommitStep ==
    ASSUME IInv, NEW r \in Requests, FlipCommit(r)
    PROVE  IInv'
<1>1. PICK e \in req[r].est : FlipCommit(r)!(e)
  BY DEF FlipCommit
<1>2. /\ TypeOK /\ req[r] \in Reqs /\ e \in Ests /\ est[e] \in Quotes /\ est \in [Ests -> Quotes]
      /\ RowOK(req[r]) /\ req[r].sum \in SUBSET Lines /\ card \in Cards
      /\ req[r].pc = "flipped" /\ Finish(r) /\ UNCHANGED <<card, partVars, budget>>
      /\ slips \subseteq slips' /\ (est[e] # req[r].quote => <<"total", e>> \in slips')
      /\ (est[e].status # "SENT" => <<"line", e>> \in slips')
  BY <1>1 DEF IInv, TypeOK, Reqs, Slip
<1> DEFINE declined == Toggled(e, req[r].line, req[r].off)
<1> DEFINE new == [est[e] EXCEPT !.declined = declined, !.total = req[r].sum]
<1>3. declined \in SUBSET Lines
  BY <1>2, ToggledType DEF Reqs
<1>4. est' = [est EXCEPT ![e] = new]
  BY <1>1, <1>2
<1>8. est[e] = req[r].quote => req[r].sum = est[e].lines \ declined
  BY <1>2 DEF RowOK, Toggled
<1> HIDE DEF declined
<1>5. /\ new \in Quotes /\ new.status = est[e].status /\ new.total = req[r].sum
      /\ new.lines = est[e].lines /\ new.declined = declined
  BY <1>2, <1>3 DEF Quotes
<1> HIDE DEF new
<1>6. OnlyMoves(r) /\ RowOK(req'[r]) /\ req'[r].pc = "idle"
  BY <1>2, FinishFacts
<1>7. SumOK(e)'
  <2>1. est'[e] = new
    BY <1>2, <1>4
  <2>2. <<"total", e>> \notin slips' => new.total = new.lines \ new.declined
    BY <1>2, <1>5, <1>8
  <2> QED BY <1>2, <1>5, <2>1, <2>2 DEF SumOK, Accepted
<1> QED BY <1>2, <1>4, <1>5, <1>6, <1>7, EstStep DEF Waking

\* An estimate is answered or sent: its lines and its total stay.
LEMMA MarkStep ==
    ASSUME IInv, NEW r \in Requests, NEW e \in Ests, NEW new \in Quotes,
           est' = [est EXCEPT ![e] = new], UNCHANGED <<partVars, budget>>, slips \subseteq slips',
           card' \in Cards, OnlyMoves(r), RowOK(req'[r]),
           new.lines = est[e].lines, new.declined = est[e].declined, new.total = est[e].total,
           new.status = "APPROVED" =>
              \/ est[e].status = "APPROVED" /\ new.approved = est[e].approved
              \/ new.approved = est[e].total
              \/ <<"answer", e>> \in slips',
           HeldForParts(card') => HeldForParts(card),
           req[r].pc \notin Waking \union {"sum", "total"}, req'[r].pc # "resume"
    PROVE  IInv'
<1>1. est'[e] = new
  BY DEF IInv, TypeOK
<1>2. Summing(e) => Summing(e)'
  BY DEF Summing, OnlyMoves
<1>3. SumOK(e)'
  BY <1>1, <1>2 DEF IInv, SumOK, Accepted
<1> QED BY <1>3, EstStep

LEMMA AnsweredFacts ==
    ASSUME NEW quote \in Quotes, NEW to \in {"APPROVED", "REJECTED"}, NEW amount \in SUBSET Lines
    PROVE  LET new == Answered(quote, to, amount) IN
           /\ new \in Quotes /\ new.status = to /\ new.lines = quote.lines
           /\ new.declined = quote.declined /\ new.total = quote.total
           /\ to = "APPROVED" => new.approved = amount
<1>1. CASE to = "APPROVED"
  BY <1>1 DEF Answered, Quotes, EstimateStatuses
<1>2. CASE to = "REJECTED"
  BY <1>2 DEF Answered, Quotes, EstimateStatuses
<1> QED BY <1>1, <1>2

LEMMA AnswerStep ==
    ASSUME IInv, NEW r \in Requests, Answer(r)
    PROVE  IInv'
<1>1. PICK e \in req[r].est : Answer(r)!(e)
  BY DEF Answer
<1> DEFINE to == req[r].to
<1> DEFINE amount == req[r].quote.total
<1> DEFINE new == Answered(est[e], to, amount)
<1>2. /\ TypeOK /\ req[r] \in Reqs /\ e \in Ests /\ est[e] \in Quotes /\ est \in [Ests -> Quotes]
      /\ to \in {"APPROVED", "REJECTED"} /\ amount \in SUBSET Lines /\ card \in Cards
      /\ req[r].pc = "answer" /\ Finish(r) /\ UNCHANGED <<partVars, budget>>
      /\ slips \subseteq slips' /\ (est[e] # req[r].quote => <<"answer", e>> \in slips')
  BY <1>1 DEF IInv, TypeOK, Reqs, Quotes, RowOK, Slip
<1>4. est' = [est EXCEPT ![e] = new]
  BY <1>1, <1>2
<1>3. /\ new \in Quotes /\ new.status = to /\ new.lines = est[e].lines
      /\ new.declined = est[e].declined /\ new.total = est[e].total
      /\ to = "APPROVED" => new.approved = amount
  BY <1>2, AnsweredFacts
<1>5. card' \in Cards /\ ~HeldForParts(card')
  BY <1>1, <1>2 DEF Card, Cards, Statuses, Linear, HeldForParts
<1>6. OnlyMoves(r) /\ RowOK(req'[r]) /\ req'[r].pc = "idle"
  BY <1>2, FinishFacts
<1> HIDE DEF new, to
<1> QED BY <1>2, <1>3, <1>4, <1>5, <1>6, MarkStep DEF Waking

LEMMA SetWriteStep ==
    ASSUME IInv, NEW r \in Requests, SetWrite(r)
    PROVE  IInv'
<1>1. PICK e \in req[r].est : SetWrite(r)!(e)
  BY DEF SetWrite
<1> DEFINE to == req[r].to
<1> DEFINE amount == req[r].quote.total
<1> DEFINE new == IF to = "SENT" THEN [est[e] EXCEPT !.status = to, !.sent = TRUE]
                  ELSE Answered(est[e], to, amount)
<1> DEFINE pc == CASE to = "APPROVED" -> "approve" [] to = "REJECTED" -> "refuse"
                   [] OTHER -> "prior"
<1>2. /\ TypeOK /\ req[r] \in Reqs /\ e \in Ests /\ est[e] \in Quotes /\ est \in [Ests -> Quotes]
      /\ to \in {"SENT", "APPROVED", "REJECTED"} /\ amount \in SUBSET Lines /\ card \in Cards
      /\ req[r].pc = "set" /\ UNCHANGED <<card, partVars, budget>> /\ RowOK(req[r])
      /\ slips \subseteq slips' /\ (est[e] # req[r].quote => <<"answer", e>> \in slips')
  BY <1>1 DEF IInv, TypeOK, Reqs, Quotes, RowOK, Slip
<1>4. est' = [est EXCEPT ![e] = new] /\ Goto(r, pc)
  BY <1>1, <1>2
<1>3. /\ new \in Quotes /\ new.status = to /\ new.lines = est[e].lines
      /\ new.declined = est[e].declined /\ new.total = est[e].total
      /\ to = "APPROVED" => new.approved = amount
  <2>1. CASE to = "SENT"
    BY <1>2, <2>1 DEF Quotes, EstimateStatuses
  <2>2. CASE to \in {"APPROVED", "REJECTED"}
    BY <1>2, <2>2, AnsweredFacts
  <2> QED BY <1>2, <2>1, <2>2
<1>5. pc \in {"approve", "refuse", "prior"}
  BY <1>2
<1> HIDE DEF new, pc, to
<1>6. OnlyMoves(r) /\ req'[r].pc = pc /\ req'[r].est = req[r].est
  BY <1>2, <1>4, <1>5, GotoFacts DEF PCs
<1>7. RowOK(req'[r])
  BY <1>2, <1>5, <1>6, PlainRow DEF RowOK
<1> QED BY <1>2, <1>3, <1>4, <1>5, <1>6, <1>7, MarkStep DEF Waking

LEMMA SendWriteStep ==
    ASSUME IInv, NEW r \in Requests, SendWrite(r)
    PROVE  IInv'
<1>1. PICK e \in req[r].est : SendWrite(r)!(e)
  BY DEF SendWrite
<1> DEFINE first == ~req[r].quote.sent
<1> DEFINE status == IF first THEN "SENT" ELSE est[e].status
<1> DEFINE new == [est[e] EXCEPT !.sent = TRUE, !.status = status]
<1>2. /\ TypeOK /\ req[r] \in Reqs /\ e \in Ests /\ est[e] \in Quotes /\ est \in [Ests -> Quotes]
      /\ req[r].pc = "send" /\ UNCHANGED <<card, partVars, slips, budget>> /\ RowOK(req[r])
      /\ card \in Cards
  BY <1>1 DEF IInv, TypeOK, Reqs
<1>4. est' = [est EXCEPT ![e] = new]
  BY <1>1, <1>2
<1>5. status \in {"SENT", est[e].status} /\ status \in EstimateStatuses
  BY <1>2 DEF Quotes, EstimateStatuses
<1> HIDE DEF status
<1>3. /\ new \in Quotes /\ new.status = status /\ new.lines = est[e].lines
      /\ new.declined = est[e].declined /\ new.total = est[e].total
      /\ new.approved = est[e].approved
  BY <1>2, <1>5 DEF Quotes
<1> HIDE DEF new
<1>6. OnlyMoves(r) /\ RowOK(req'[r]) /\ req'[r].pc \in {"idle", "prior"}
  <2>1. CASE first
    <3>1. OnlyMoves(r) /\ req'[r].pc = "prior" /\ req'[r].est = req[r].est
      BY <1>1, <1>2, <2>1, GotoFacts DEF PCs
    <3> QED BY <1>2, <3>1, PlainRow DEF RowOK
  <2>2. CASE ~first
    BY <1>1, <1>2, <2>2, FinishFacts
  <2> QED BY <2>1, <2>2
<1>7. new.status = "APPROVED" => est[e].status = "APPROVED" /\ new.approved = est[e].approved
  BY <1>3, <1>5
<1> QED BY <1>2, <1>3, <1>4, <1>6, <1>7, MarkStep DEF Waking

-----------------------------------------------------------------------------
(* Steps that write the card.                                              *)

LEMMA CardStepKeeps ==
    ASSUME IInv, NEW r \in Requests, UNCHANGED <<est, partVars, budget>>, slips \subseteq slips',
           card' \in Cards, OnlyMoves(r), RowOK(req'[r]), req[r].pc \notin {"sum", "total"},
           HeldForParts(card') => OpenParts # {} \/ <<"hold", 0>> \in slips',
           req'[r].pc # "resume"
    PROVE  IInv'
<1>1. est' \in [Ests -> Quotes]
  BY DEF IInv, TypeOK
<1>2. HoldOK'
  BY HoldFrame DEF partVars
<1>3. \A e \in Ests : SumOK(e)'
  BY SumFrame DEF KeepsSums
<1> QED BY <1>1, <1>2, <1>3, DocStep

\* The request ends with it.
LEMMA CardEnd ==
    ASSUME IInv, NEW r \in Requests, UNCHANGED <<est, partVars, slips, budget>>,
           card' \in Cards, ~HeldForParts(card'), Finish(r), req[r].pc \notin {"sum", "total"}
    PROVE  IInv'
<1>1. OnlyMoves(r) /\ RowOK(req'[r]) /\ req'[r].pc = "idle"
  BY FinishFacts DEF IInv
<1> QED BY <1>1, CardStepKeeps

LEMMA CardEnds ==
    ASSUME IInv, NEW r \in Requests,
           \/ ApproveCard(r) \/ RefuseCard(r) \/ HoldCard(r) \/ Resume(r) \/ Bill(r)
    PROVE  IInv'
<1>1. card \in Cards /\ req[r] \in Reqs /\ req[r].card \in Cards
  BY DEF IInv, TypeOK, Reqs
<1>2. card' \in Cards /\ ~HeldForParts(card')
  <2> USE <1>1 DEF Card, Cards, HeldForParts, HoldReasons, Statuses, Linear
  <2>1. CASE ApproveCard(r)
    BY <2>1 DEF ApproveCard
  <2>2. CASE RefuseCard(r)
    BY <2>2 DEF RefuseCard
  <2>3. CASE HoldCard(r)
    BY <2>3 DEF HoldCard
  <2>4. CASE Resume(r)
    BY <2>4 DEF Resume
  <2>5. CASE Bill(r)
    BY <2>5 DEF Bill
  <2> QED BY <2>1, <2>2, <2>3, <2>4, <2>5
<1> QED BY <1>2, CardEnd DEF ApproveCard, RefuseCard, HoldCard, Resume, Bill

LEMMA PauseStep ==
    ASSUME IInv, NEW r \in Requests, Pause(r)
    PROVE  IInv'
<1>1. /\ TypeOK /\ req[r] \in Reqs /\ req[r].card \in Cards /\ RowOK(req[r])
      /\ req[r].pc = "pause" /\ UNCHANGED <<est, partVars, budget>>
      /\ slips \subseteq slips' /\ (OpenParts = {} => <<"hold", 0>> \in slips')
  BY DEF IInv, TypeOK, Reqs, Pause, Slip
<1>2. card' \in Cards
  BY <1>1 DEF Pause, Card, Cards, HoldReasons, Statuses
<1>3. OnlyMoves(r) /\ RowOK(req'[r]) /\ req'[r].pc \in {"idle", "resume?"}
  <2>1. CASE req[r].to = "ORDERED"
    <3>1. OnlyMoves(r) /\ req'[r].pc = "resume?" /\ req'[r].est = req[r].est
      BY <1>1, <2>1, GotoFacts DEF Pause, PCs
    <3> QED BY <1>1, <3>1, PlainRow DEF RowOK
  <2>2. CASE req[r].to # "ORDERED"
    BY <1>1, <2>2, FinishFacts DEF Pause
  <2> QED BY <2>1, <2>2
<1> QED BY <1>1, <1>2, <1>3, CardStepKeeps

LEMMA WriteStep ==
    ASSUME IInv, NEW r \in Requests, Write(r)
    PROVE  IInv'
<1>1. /\ TypeOK /\ req[r] \in Reqs /\ req[r].put \in Cards /\ card' = req[r].put
      /\ req[r].pc = "write" /\ UNCHANGED <<partVars, budget>> /\ Finish(r)
      /\ slips \subseteq slips'
      /\ (HeldForParts(card') /\ OpenParts = {} => <<"hold", 0>> \in slips')
  BY DEF IInv, TypeOK, Reqs, Write, Slip
<1>2. OnlyMoves(r) /\ RowOK(req'[r]) /\ req'[r].pc = "idle"
  BY <1>1, FinishFacts
<1>3. CASE req[r].put.status = "EXTRA_WORK_AWAITING_APPROVAL" /\ req[r].card.status # "ON_HOLD"
  <2> DEFINE new == [NoEstimate EXCEPT !.status = "DRAFT"]
  <2>1. PICK e \in NextRow : est' = [est EXCEPT ![e] = new]
    BY <1>3 DEF Write
  <2>2. /\ new \in Quotes /\ new.status = "DRAFT" /\ new.lines = {} /\ new.declined = {}
        /\ new.total = {}
    BY IdleFacts DEF Quotes, EstimateStatuses
  <2> HIDE DEF new
  <2>3. e \in Ests /\ est'[e] = new
    BY <1>1, <2>1 DEF NextRow, TypeOK
  <2>4. SumOK(e)'
    BY <2>2, <2>3 DEF SumOK, Accepted
  <2> QED BY <1>1, <1>2, <2>1, <2>2, <2>3, <2>4, EstStep DEF Waking
<1>4. CASE ~(req[r].put.status = "EXTRA_WORK_AWAITING_APPROVAL" /\ req[r].card.status # "ON_HOLD")
  <2>1. UNCHANGED est
    BY <1>4 DEF Write
  <2> QED BY <1>1, <1>2, <2>1, CardStepKeeps
<1> QED BY <1>3, <1>4

-----------------------------------------------------------------------------
(* Steps that write a part request.                                        *)

LEMMA PartStepKeeps ==
    ASSUME IInv, NEW r \in Requests, UNCHANGED <<card, est, budget>>, slips \subseteq slips',
           pr' \in [Parts -> PartStatuses], moved' \in [Parts -> Int], shelf' \in Nat,
           OnlyMoves(r), RowOK(req'[r]), req[r].pc \notin {"sum", "total"}, StockMovesOnce', HoldOK'
    PROVE  IInv'
<1>1. TypeOK'
  BY DEF IInv, TypeOK, OnlyMoves
<1>2. \A e \in Ests : SumOK(e)'
  BY SumFrame DEF KeepsSums
<1>3. \A x \in Requests : RowOK(req'[x])
  BY DEF IInv, OnlyMoves
<1> QED BY <1>1, <1>2, <1>3 DEF IInv

LEMMA RequestIsStep ==
    ASSUME IInv, NEW r \in Requests, Request(r)
    PROVE  IInv'
<1>1. PICK q \in Parts : Request(r)!(q)
  BY DEF Request
<1>2. /\ TypeOK /\ req[r] \in Reqs /\ RowOK(req[r]) /\ req[r].pc = "part" /\ StockMovesOnce
      /\ pr \in [Parts -> PartStatuses] /\ moved \in [Parts -> Int] /\ shelf \in Nat
      /\ pr[q] = "NONE" /\ pr' = [pr EXCEPT ![q] = "REQUESTED"]
      /\ UNCHANGED <<card, est, moved, shelf, budget>> /\ slips \subseteq slips'
      /\ \A x \in Requests : req[x].pc = "resume" => <<"late", q>> \in slips'
  BY <1>1 DEF IInv, TypeOK, Slip
<1>3. OnlyMoves(r) /\ RowOK(req'[r]) /\ req'[r].pc \in {"idle", "pause"}
  <2>1. CASE shelf = 0 /\ Pausable(req[r].card.status)
    <3>1. /\ OnlyMoves(r) /\ req'[r].pc = "pause" /\ req'[r].est = req[r].est
          /\ req'[r].card = req[r].card
      BY <1>1, <1>2, <2>1, GotoFacts DEF PCs
    <3> QED BY <1>2, <2>1, <3>1 DEF RowOK
  <2>2. CASE ~(shelf = 0 /\ Pausable(req[r].card.status))
    BY <1>1, <1>2, <2>2, FinishFacts
  <2> QED BY <2>1, <2>2
<1>4. pr' \in [Parts -> PartStatuses] /\ pr'[q] = "REQUESTED"
  BY <1>2 DEF PartStatuses
<1>5. StockMovesOnce'
  BY <1>2, <1>4 DEF StockMovesOnce
<1>6. HoldOK'
  <2>1. OpenParts' = OpenParts \union {q}
    BY <1>2, <1>4 DEF OpenParts
  <2>2. ASSUME NEW x \in Requests, req'[x].pc = "resume", NEW p \in OpenParts \union {q}
        PROVE  <<"late", p>> \in slips'
    <3>1. req[x].pc = "resume"
      BY <1>3, <2>2 DEF OnlyMoves
    <3> QED BY <1>2, <3>1, <2>2 DEF IInv, HoldOK
  <2> QED BY <2>1, <2>2 DEF HoldOK
<1> QED BY <1>2, <1>3, <1>4, <1>5, <1>6, PartStepKeeps

\* No part is opened, and somebody is awake to let the card go.
LEMMA WakeStep ==
    ASSUME IInv, NEW r \in Requests, NEW q \in Parts, NEW to \in PartStatuses,
           UNCHANGED <<card, est, budget>>, slips \subseteq slips',
           pr' = [pr EXCEPT ![q] = to], moved' \in [Parts -> Int], shelf' \in Nat,
           to \in {"REQUESTED", "ORDERED", "ARRIVED"} => q \in OpenParts,
           NEW pc \in {"pause?", "resume?"}, Goto(r, pc), req[r].pc \in {"advance", "cancel"},
           StockMovesOnce'
    PROVE  IInv'
<1>1. /\ TypeOK /\ pr \in [Parts -> PartStatuses] /\ RowOK(req[r])
      /\ pr' \in [Parts -> PartStatuses]
  BY DEF IInv, TypeOK
<1>2. OnlyMoves(r) /\ req'[r].pc = pc /\ req'[r].est = req[r].est
  BY <1>1, GotoFacts DEF PCs
<1>3. RowOK(req'[r])
  BY <1>1, <1>2, PlainRow DEF RowOK
<1>4. HoldOK'
  <2>1. OpenParts' \subseteq OpenParts
    BY <1>1 DEF OpenParts
  <2>2. req'[r].pc \in Waking
    BY <1>2 DEF Waking
  <2>3. ASSUME NEW x \in Requests, req'[x].pc = "resume" PROVE req[x].pc = "resume"
    BY <1>2, <2>3 DEF OnlyMoves
  <2> QED BY <2>1, <2>2, <2>3 DEF HoldOK, IInv
<1> QED BY <1>1, <1>2, <1>3, <1>4, PartStepKeeps

LEMMA AdvanceStep ==
    ASSUME IInv, NEW r \in Requests, Advance(r)
    PROVE  IInv'
<1>1. PICK q \in req[r].part : Advance(r)!(q)
  BY DEF Advance
<1> DEFINE from == req[r].from
<1> DEFINE to == req[r].to
<1> DEFINE delta == StockDelta(from, to)
<1>2. /\ TypeOK /\ req[r] \in Reqs /\ q \in Parts /\ req[r].pc = "advance" /\ StockMovesOnce
      /\ pr \in [Parts -> PartStatuses] /\ moved \in [Parts -> Int] /\ shelf \in Nat
      /\ <<from, to>> \in MovesOn /\ UNCHANGED <<card, est, slips, budget>>
  BY <1>1 DEF IInv, TypeOK, Reqs, RowOK
<1>3. /\ from \in {"REQUESTED", "ORDERED", "ARRIVED"} /\ to \in PartStatuses /\ delta \in Int
      /\ to = "ORDERED" => delta = IF from = "ARRIVED" THEN -1 ELSE 0
      /\ to = "ARRIVED" => delta = 1 /\ from = "ORDERED"
      /\ to = "FULFILLED" => delta = -1 /\ from \in {"REQUESTED", "ARRIVED"}
      /\ to = "CANCELLED" => delta = 0
      /\ to \in {"ORDERED", "ARRIVED", "FULFILLED", "CANCELLED"}
  BY <1>2 DEF MovesOn, StockDelta, PartStatuses
<1>4. CASE pr[q] = from /\ shelf + delta >= 0
  <2>1. /\ pr' = [pr EXCEPT ![q] = to] /\ shelf' = shelf + delta
        /\ moved' = [moved EXCEPT ![q] = moved[q] + delta]
        /\ Goto(r, IF to = "ORDERED" THEN "pause?" ELSE "resume?")
    BY <1>1, <1>2, <1>4
  <2> HIDE DEF delta, from, to
  <2>2. shelf' \in Nat /\ moved' \in [Parts -> Int] /\ moved'[q] = moved[q] + delta /\ pr'[q] = to
    BY <1>2, <1>3, <1>4, <2>1
  <2>3. \A p \in Parts \ {q} : pr'[p] = pr[p] /\ moved'[p] = moved[p]
    BY <1>2, <2>1
  <2>4. /\ from \in {"REQUESTED", "ORDERED"} => moved[q] = 0
        /\ from = "ARRIVED" => moved[q] = 1
    BY <1>2, <1>4 DEF StockMovesOnce
  <2>5. StockMovesOnce'
    <3>1. ASSUME NEW p \in Parts
          PROVE  /\ pr'[p] \in {"NONE", "REQUESTED", "ORDERED"} => moved'[p] = 0
                 /\ pr'[p] = "ARRIVED" => moved'[p] = 1
                 /\ pr'[p] = "FULFILLED" => moved'[p] \in {0, -1}
                 /\ pr'[p] = "CANCELLED" /\ <<"cancel", p>> \notin slips => moved'[p] \in {0, 1}
      <4>1. CASE p = q
        BY <1>2, <1>3, <2>2, <2>4, <4>1
      <4>2. CASE p # q
        BY <1>2, <2>3, <4>2 DEF StockMovesOnce
      <4> QED BY <4>1, <4>2
    <3> QED BY <1>2, <2>2, <3>1 DEF StockMovesOnce
  <2>6. q \in OpenParts
    BY <1>2, <1>3, <1>4 DEF OpenParts
  <2> QED BY <1>2, <1>3, <2>1, <2>2, <2>5, <2>6, WakeStep
<1>5. CASE ~(pr[q] = from /\ shelf + delta >= 0)
  <2>1. Finish(r) /\ UNCHANGED partVars
    BY <1>1, <1>5
  <2> QED BY <1>2, <2>1, EndStep DEF Waking
<1> QED BY <1>4, <1>5

LEMMA CancelStep ==
    ASSUME IInv, NEW r \in Requests, Cancel(r)
    PROVE  IInv'
<1>1. PICK q \in req[r].part : Cancel(r)!(q)
  BY DEF Cancel
<1>2. /\ TypeOK /\ req[r] \in Reqs /\ q \in Parts /\ req[r].pc = "cancel" /\ StockMovesOnce
      /\ pr \in [Parts -> PartStatuses] /\ moved \in [Parts -> Int] /\ shelf \in Nat
      /\ pr' = [pr EXCEPT ![q] = "CANCELLED"] /\ Goto(r, "resume?")
      /\ UNCHANGED <<card, est, moved, shelf, budget>> /\ slips \subseteq slips'
      /\ (pr[q] # "REQUESTED" => <<"cancel", q>> \in slips')
  BY <1>1 DEF IInv, TypeOK, Reqs, Slip
<1>3. StockMovesOnce'
  <2>1. pr'[q] = "CANCELLED" /\ \A p \in Parts \ {q} : pr'[p] = pr[p]
    BY <1>2
  <2>2. <<"cancel", q>> \notin slips' => moved[q] = 0
    BY <1>2 DEF StockMovesOnce
  <2> QED BY <1>2, <2>1, <2>2 DEF StockMovesOnce
<1> QED BY <1>2, <1>3, WakeStep DEF PartStatuses

-----------------------------------------------------------------------------
(* The invariant.                                                          *)

LEMMA InitInv == Init => IInv
<1> SUFFICES ASSUME Init PROVE IInv
  OBVIOUS
<1>1. PICK s \in Scenarios : card = s.card /\ est = s.est /\ shelf = s.shelf /\ budget = s.budget
  BY DEF Init
<1>2. /\ pr = [q \in Parts |-> "NONE"] /\ moved = [q \in Parts |-> 0]
      /\ req = [r \in Requests |-> Idle] /\ slips = {}
  BY DEF Init
<1>3. /\ s \in [card: Cards, est: [Ests -> Quotes], shelf: Nat, budget: [Sorts -> Nat]]
      /\ ~HeldForParts(s.card) /\ \A e \in Ests : Whole(s.est[e])
  BY CardGatesAssumption
<1>4. TypeOK
  BY <1>1, <1>2, <1>3, IdleFacts DEF TypeOK, PartStatuses
<1>5. StockMovesOnce
  BY <1>1, <1>2, <1>3 DEF StockMovesOnce
<1>6. HoldOK
  BY <1>1, <1>2, <1>3, IdleFacts DEF HoldOK
<1>7. \A r \in Requests : RowOK(req[r])
  BY <1>2, IdleRow
<1>8. \A e \in Ests : SumOK(e)
  BY <1>1, <1>3 DEF SumOK, Whole, Accepted
<1> QED BY <1>4, <1>5, <1>6, <1>7, <1>8 DEF IInv

LEMMA EstimateInv ==
    ASSUME IInv, NEW r \in Requests, EstimateStep(r)
    PROVE  IInv'
<1>1. ASSUME NEW e \in Ests, NEW in \in BOOLEAN,
             NEW out \in {{}} \union {{l} : l \in Lines}, LineRead(r, e, out, in)
      PROVE  IInv'
  <2>1. out \in SUBSET Lines
    OBVIOUS
  <2> QED BY <1>1, <2>1, LineReadStep
<1> QED BY <1>1, CreateReadStep, CreateStep, LineWriteStep, LineGoneStep, ToggleReadStep,
           ToggleWriteStep, SumReadStep, TotalWriteStep, FlipReadStep, FlipStep, FlipCommitStep,
           AnswerStep, AboutSteps, SetWriteStep, SendWriteStep, CardEnds, CardReadSteps,
           PriorReadStep DEF EstimateStep

LEMMA PartInv ==
    ASSUME IInv, NEW r \in Requests, PartStep(r)
    PROVE  IInv'
BY PartReadStep, RequestIsStep, AdvanceReadStep, AdvanceStep, CancelReadStep, CancelStep,
   CardReadSteps, PauseStep, ResumeCountStep, CardEnds DEF PartStep

LEMMA CardInv ==
    ASSUME IInv, NEW r \in Requests, CardStep(r)
    PROVE  IInv'
<1>1. ASSUME NEW k \in Sorts, NEW cards, cards \subseteq OfficeCards(card) \union TechCards(card),
             DecideRead(r, k, cards)
      PROVE  IInv'
  BY <1>1, DecideStep
<1>2. CASE DecideRead(r, "office", OfficeCards(card)) \/ DecideRead(r, "tech", TechCards(card))
  BY <1>2, <1>1 DEF Sorts
<1> QED BY <1>2, WriteStep, CardEnds, KillStep, BillReadStep DEF CardStep

LEMMA StepInv == IInv /\ [Next]_vars => IInv'
<1> SUFFICES ASSUME IInv, [Next]_vars PROVE IInv'
  OBVIOUS
<1>1. CASE UNCHANGED vars
  <2>1. TypeOK' /\ StockMovesOnce' /\ HoldOK' /\ \A r \in Requests : RowOK(req'[r])
    BY <1>1 DEF vars, partVars, IInv, TypeOK, StockMovesOnce, HoldOK, OpenParts
  <2>2. \A e \in Ests : SumOK(e)'
    BY <1>1 DEF vars, partVars, IInv, SumOK, Summing, Accepted
  <2> QED BY <2>1, <2>2 DEF IInv
<1> QED BY <1>1, EstimateInv, PartInv, CardInv DEF Next

-----------------------------------------------------------------------------
(* What a step may do.                                                     *)

CardWrite(r) ==
    \/ Answer(r) \/ ApproveCard(r) \/ RefuseCard(r) \/ HoldCard(r) \/ Pause(r) \/ Resume(r)
    \/ Write(r) \/ Bill(r)

LEMMA CardWriters ==
    ASSUME NEW r \in Requests, EstimateStep(r) \/ PartStep(r) \/ CardStep(r), card' # card
    PROVE  CardWrite(r)
<1>1. CASE EstimateStep(r)
  <2>1. ~\/ CreateRead(r) \/ Create(r) \/ LineWrite(r) \/ LineGone(r) \/ ToggleWrite(r)
         \/ SumRead(r) \/ TotalWrite(r) \/ Flip(r) \/ FlipCommit(r) \/ SetWrite(r)
         \/ RefuseRead(r) \/ SendWrite(r) \/ PriorRead(r) \/ GateRead(r)
    BY DEF CreateRead, Create, LineWrite, LineGone, ToggleWrite, SumRead, TotalWrite, Flip,
           FlipCommit, SetWrite, RefuseRead, SendWrite, PriorRead, GateRead
  <2>2. \A e : /\ ~SendRead(r, e)
               /\ \A l : ~ToggleRead(r, e, l) /\ ~FlipRead(r, e, l)
               /\ \A to : ~AnswerRead(r, e, to) /\ ~SetRead(r, e, to)
               /\ \A in, out : ~LineRead(r, e, out, in)
    BY DEF SendRead, ToggleRead, FlipRead, AnswerRead, SetRead, LineRead
  <2> QED BY <1>1, <2>1, <2>2 DEF EstimateStep, CardWrite
<1>2. CASE PartStep(r)
  <2>1. ~\/ PartRead(r) \/ Request(r) \/ Advance(r) \/ PauseRead(r) \/ Cancel(r)
         \/ ResumeRead(r) \/ ResumeCount(r)
    BY DEF PartRead, Request, Advance, PauseRead, Cancel, ResumeRead, ResumeCount
  <2>2. \A q : ~CancelRead(r, q) /\ \A to : ~AdvanceRead(r, q, to)
    BY DEF CancelRead, AdvanceRead
  <2> QED BY <1>2, <2>1, <2>2 DEF PartStep, CardWrite
<1>3. CASE CardStep(r)
  <2>1. /\ ~Kill(r) /\ \A e : ~BillRead(r, e)
        /\ ~DecideRead(r, "office", OfficeCards(card)) /\ ~DecideRead(r, "tech", TechCards(card))
    BY DEF Kill, BillRead, DecideRead
  <2> QED BY <1>3, <2>1 DEF CardStep, CardWrite
<1> QED BY <1>1, <1>2, <1>3

\* Whoever writes the card was about to do it, and goes on or ends with it.
LEMMA CardWriteFacts ==
    ASSUME IInv, NEW r \in Requests, CardWrite(r)
    PROVE  /\ req'[r] # req[r] /\ RowOK(req[r])
           /\ req[r].pc \in {"answer", "approve", "refused", "hold", "pause", "resume", "write", "bill"}
           /\ req[r].pc = "write" => card' = req[r].put
<1>1. TypeOK /\ RowOK(req[r])
  BY DEF IInv
<1>2. req[r].pc \in {"answer", "approve", "refused", "hold", "pause", "resume", "write", "bill"}
  BY DEF CardWrite, Answer, ApproveCard, RefuseCard, HoldCard, Pause, Resume, Write, Bill
<1>3. Finish(r) \/ Goto(r, "resume?")
  BY DEF CardWrite, Answer, ApproveCard, RefuseCard, HoldCard, Pause, Resume, Write, Bill
<1>4. req'[r].pc \in {"idle", "resume?"}
  BY <1>1, <1>3, FinishFacts, GotoFacts DEF PCs
<1>5. req[r].pc = "write" => card' = req[r].put
  BY DEF CardWrite, Answer, ApproveCard, RefuseCard, HoldCard, Pause, Resume, Write, Bill
<1> QED BY <1>1, <1>2, <1>4, <1>5

\* An estimate's status is written by five steps.
LEMMA StatusSteps ==
    ASSUME IInv, NEW r \in Requests, EstimateStep(r) \/ PartStep(r) \/ CardStep(r),
           NEW e \in Ests, est'[e].status # est[e].status
    PROVE  \/ e \in NextRow /\ (Create(r) \/ Write(r))
           \/ e \in req[r].est /\ (SetWrite(r) \/ Answer(r) \/ SendWrite(r))
<1>1. est \in [Ests -> Quotes] /\ est[e] \in Quotes /\ TypeOK /\ req[r] \in Reqs
  BY DEF IInv, TypeOK
<1>2. est' # est
  OBVIOUS
<1>3. CASE PartStep(r)
  BY <1>2, <1>3 DEF PartStep, PartRead, Request, Advance, PauseRead, Pause, Cancel, ResumeRead,
                    ResumeCount, Resume, CancelRead, AdvanceRead
<1>4. CASE CardStep(r)
  <2>1. Write(r)
    BY <1>2, <1>4 DEF CardStep, DecideRead, Bill, Kill, BillRead
  <2> DEFINE new == [NoEstimate EXCEPT !.status = "DRAFT"]
  <2>2. PICK f \in NextRow : est' = [est EXCEPT ![f] = new]
    BY <1>2, <2>1 DEF Write
  <2> HIDE DEF new
  <2>3. e = f
    BY <1>1, <2>2
  <2> QED BY <2>1, <2>2, <2>3
<1>5. CASE EstimateStep(r)
  <2>1. \A f : /\ ~SendRead(r, f)
               /\ \A l : ~ToggleRead(r, f, l) /\ ~FlipRead(r, f, l)
               /\ \A to : ~AnswerRead(r, f, to) /\ ~SetRead(r, f, to)
               /\ \A in, out : ~LineRead(r, f, out, in)
    BY <1>2 DEF SendRead, ToggleRead, FlipRead, AnswerRead, SetRead, LineRead, About
  <2>2. ~\/ CreateRead(r) \/ LineGone(r) \/ SumRead(r) \/ Flip(r) \/ ApproveCard(r)
         \/ RefuseRead(r) \/ RefuseCard(r) \/ PriorRead(r) \/ GateRead(r) \/ HoldCard(r)
    BY <1>2 DEF CreateRead, LineGone, SumRead, Flip, ApproveCard, RefuseRead, RefuseCard,
                PriorRead, GateRead, HoldCard
  <2>3. CASE Create(r)
    BY <1>1, <2>3 DEF Create
  <2>4. ~\/ LineWrite(r) \/ ToggleWrite(r) \/ TotalWrite(r) \/ FlipCommit(r)
    <3>1. ASSUME LineWrite(r) PROVE FALSE
      <4>1. PICK f \in req[r].est, in \in SUBSET Lines : LineWrite(r)!(f, in)
        BY <3>1 DEF LineWrite
      <4> DEFINE row == [est[f] EXCEPT !.lines = (@ \ req[r].line) \union in,
                                    !.declined = @ \ req[r].line]
      <4>2. f \in Ests /\ est[f] \in Quotes
        BY <1>1, <4>1 DEF Reqs
      <4>3. est' = [est EXCEPT ![f] = row]
        BY <1>1, <4>1, <4>2
      <4>4. row.status = est[f].status
        BY <4>2 DEF Quotes
      <4> HIDE DEF row
      <4> QED BY <1>1, <4>2, <4>3, <4>4
    <3>2. ASSUME ToggleWrite(r) PROVE FALSE
      <4>1. PICK f \in req[r].est : ToggleWrite(r)!(f)
        BY <3>2 DEF ToggleWrite
      <4> DEFINE row == [est[f] EXCEPT !.declined = Toggled(f, req[r].line, req[r].off)]
      <4>2. f \in Ests /\ est[f] \in Quotes
        BY <1>1, <4>1 DEF Reqs
      <4>3. est' = [est EXCEPT ![f] = row]
        BY <1>1, <4>1, <4>2
      <4>4. row.status = est[f].status
        BY <4>2 DEF Quotes
      <4> HIDE DEF row
      <4> QED BY <1>1, <4>2, <4>3, <4>4
    <3>3. ASSUME TotalWrite(r) PROVE FALSE
      <4>1. PICK f \in req[r].est : TotalWrite(r)!(f)
        BY <3>3 DEF TotalWrite
      <4> DEFINE row == [est[f] EXCEPT !.total = req[r].sum]
      <4>2. f \in Ests /\ est[f] \in Quotes
        BY <1>1, <4>1 DEF Reqs
      <4>3. est' = [est EXCEPT ![f] = row]
        BY <1>1, <4>1, <4>2
      <4>4. row.status = est[f].status
        BY <4>2 DEF Quotes
      <4> HIDE DEF row
      <4> QED BY <1>1, <4>2, <4>3, <4>4
    <3>4. ASSUME FlipCommit(r) PROVE FALSE
      <4>1. PICK f \in req[r].est : FlipCommit(r)!(f)
        BY <3>4 DEF FlipCommit
      <4> DEFINE row == [est[f] EXCEPT !.declined = Toggled(f, req[r].line, req[r].off),
                                    !.total = req[r].sum]
      <4>2. f \in Ests /\ est[f] \in Quotes
        BY <1>1, <4>1 DEF Reqs
      <4>3. est' = [est EXCEPT ![f] = row]
        BY <1>1, <4>1, <4>2
      <4>4. row.status = est[f].status
        BY <4>2 DEF Quotes
      <4> HIDE DEF row
      <4> QED BY <1>1, <4>2, <4>3, <4>4
    <3> QED BY <3>1, <3>2, <3>3, <3>4
  <2>5. CASE Answer(r)
    BY <1>1, <2>5 DEF Answer
  <2>6. CASE SetWrite(r)
    BY <1>1, <2>6 DEF SetWrite
  <2>7. CASE SendWrite(r)
    BY <1>1, <2>7 DEF SendWrite
  <2> QED BY <1>5, <2>1, <2>2, <2>3, <2>4, <2>5, <2>6, <2>7 DEF EstimateStep
<1> QED BY <1>3, <1>4, <1>5

\* Each of the last three goes on or ends with it.
LEMMA StatusWriters ==
    ASSUME IInv, NEW r \in Requests, EstimateStep(r) \/ PartStep(r) \/ CardStep(r),
           NEW e \in Ests, est'[e].status # est[e].status
    PROVE  \/ e \in NextRow
           \/ /\ e \in req[r].est /\ req'[r] # req[r]
              /\ \/ req[r].pc = "set"
                 \/ req[r].pc = "answer"
                 \/ req[r].pc = "send"
<1>1. TypeOK
  BY DEF IInv
<1>2. CASE Answer(r)
  BY <1>1, <1>2, FinishFacts, StatusSteps DEF Answer
<1>3. CASE SetWrite(r)
  <2> DEFINE pc == CASE req[r].to = "APPROVED" -> "approve" [] req[r].to = "REJECTED" -> "refuse"
                     [] OTHER -> "prior"
  <2>1. req[r].pc = "set" /\ Goto(r, pc)
    BY <1>3 DEF SetWrite
  <2>2. pc \in PCs /\ pc # "set"
    BY DEF PCs
  <2> HIDE DEF pc
  <2> QED BY <1>1, <1>3, <2>1, <2>2, GotoFacts, StatusSteps DEF Answer, SendWrite
<1>4. CASE SendWrite(r)
  BY <1>1, <1>4, FinishFacts, GotoFacts, StatusSteps DEF SendWrite, PCs
<1> QED BY <1>2, <1>3, <1>4, StatusSteps

-----------------------------------------------------------------------------
(* The theorems.                                                           *)

\* The inductive invariant: the types, what a request may rely on between its calls,
\* and the promises below, each with those who are about to make good for it.
THEOREM GatesInvariance == Spec => []IInv
<1>1. Init => IInv
  BY InitInv
<1>2. IInv /\ [Next]_vars => IInv'
  BY StepInv
<1> QED BY <1>1, <1>2, PTL DEF Spec

\* However requests, answers and toggles overlap, an estimate's total is the sum of the
\* lines not declined, and an approval records the total that was seen (recomputeEstimate,
\* setEstimateStatusAction, approveEstimatePublic).
THEOREM TotalsAddUp == Spec => []EstimateAddsUp
<1>1. ASSUME IInv PROVE EstimateAddsUp
  <2> SUFFICES ASSUME NEW e \in Ests,
                      \A r \in Requests : e \in req[r].est => req[r].pc \notin {"sum", "total"}
               PROVE  /\ Clean(e, {"total"}) => est[e].total = Accepted(e)
                      /\ Clean(e, {"line", "answer"}) /\ est[e].status = "APPROVED"
                            => est[e].approved = est[e].total
    BY DEF EstimateAddsUp
  <2>1. SumOK(e) /\ ~Summing(e)
    BY <1>1 DEF IInv, Summing
  <2> QED BY <2>1 DEF SumOK, Clean
<1> QED BY <1>1, GatesInvariance, PTL

\* However many counters advance one part request at once, its stock moves once
\* (advanceRequest).
THEOREM StockIsMovedOnce == Spec => []StockMovesOnce
<1>1. IInv => StockMovesOnce
  BY DEF IInv
<1> QED BY <1>1, GatesInvariance, PTL

\* A card held for parts waits for one, and is let go only when none was open
\* (requestPartAction, maybeResumeJob).
THEOREM HoldIsJustified == Spec => []PartsHoldIsJustified
<1>1. ASSUME IInv PROVE PartsHoldIsJustified
  <2>1. ASSUME <<"hold", 0>> \notin slips, HeldForParts(card),
               \A r \in Requests : req[r].pc \notin {"pause?", "resume?", "count", "resume"}
        PROVE  OpenParts # {}
    BY <1>1, <2>1 DEF IInv, HoldOK, Waking
  <2>2. \A r \in Requests : req[r].pc = "resume" => \A q \in OpenParts : <<"late", q>> \in slips
    BY <1>1 DEF IInv, HoldOK
  <2> QED BY <2>1, <2>2 DEF PartsHoldIsJustified
<1> QED BY <1>1, GatesInvariance, PTL

\* An answer is only changed by the staff or by a request that had read the estimate
\* before it.
THEOREM AnswersStand == Spec => DecisionStands
<1>1. IInv /\ [Next]_vars =>
        [\A e \in Ests :
            est[e].status \in {"APPROVED", "REJECTED"} /\ est'[e].status # est[e].status =>
                \E r \in Requests : /\ req'[r] # req[r] /\ e \in req[r].est
                                   /\ (req[r].pc = "set" \/ req[r].quote # est[e])]_vars
  <2> SUFFICES ASSUME IInv, Next, NEW e \in Ests,
                      est[e].status \in {"APPROVED", "REJECTED"}, est'[e].status # est[e].status
               PROVE  \E r \in Requests : /\ req'[r] # req[r] /\ e \in req[r].est
                                         /\ (req[r].pc = "set" \/ req[r].quote # est[e])
    OBVIOUS
  <2>1. PICK r \in Requests : EstimateStep(r) \/ PartStep(r) \/ CardStep(r)
    BY DEF Next
  <2>2. e \notin NextRow
    BY DEF NextRow, Issued
  <2>3. /\ e \in req[r].est /\ req'[r] # req[r]
        /\ req[r].pc = "set" \/ req[r].pc = "answer" \/ req[r].pc = "send"
    BY <2>1, <2>2, StatusWriters
  <2>4. req[r].pc \in {"answer", "send"} => req[r].quote.status \in {"DRAFT", "SENT"}
    BY DEF IInv, RowOK
  <2> QED BY <2>3, <2>4
<1> QED BY <1>1, GatesInvariance, PTL DEF Spec, DecisionStands

\* The parts counter lets go of no card held for a quote that it did not see before.
THEOREM ApprovalHoldsStand == Spec => ApprovalHoldStands
<1>1. IInv /\ [Next]_vars =>
        [HeldForApproval(card) /\ card' # card =>
            \E r \in Requests :
                /\ req'[r] # req[r]
                /\ \/ req[r].pc \in {"answer", "approve", "refused", "write", "bill"}
                   \/ req[r].card # card]_vars
  <2> SUFFICES ASSUME IInv, Next, HeldForApproval(card), card' # card
               PROVE  \E r \in Requests :
                         /\ req'[r] # req[r]
                         /\ \/ req[r].pc \in {"answer", "approve", "refused", "write", "bill"}
                            \/ req[r].card # card
    OBVIOUS
  <2>1. PICK r \in Requests : CardWrite(r)
    BY CardWriters DEF Next
  <2>2. /\ req'[r] # req[r] /\ RowOK(req[r])
        /\ req[r].pc \in {"answer", "approve", "refused", "hold", "pause", "resume", "write", "bill"}
    BY <2>1, CardWriteFacts
  <2>3. req[r].pc \in {"hold", "pause", "resume"} => req[r].card # card
    BY <2>2 DEF RowOK, HeldForApproval, HeldForParts, Pausable
  <2> QED BY <2>2, <2>3
<1> QED BY <1>1, GatesInvariance, PTL DEF Spec, ApprovalHoldStands

\* Nothing on the floor or in the office moves a delivered or cancelled card, but a HOLD
\* of a delivered one and what had read it before.
THEOREM ClosedCardsStay == Spec => ClosedToTheFloor
<1>1. IInv /\ [Next]_vars =>
        [card.status \in Terminal /\ card'.status # card.status =>
            \E r \in Requests :
                /\ req'[r] # req[r]
                /\ \/ req[r].pc \in {"answer", "approve", "refused", "hold", "bill"}
                   \/ card.status = "DELIVERED" /\ card'.status = "ON_HOLD" /\ req[r].pc = "write"
                   \/ req[r].card # card]_vars
  <2> SUFFICES ASSUME IInv, Next, card.status \in Terminal, card'.status # card.status
               PROVE  \E r \in Requests :
                         /\ req'[r] # req[r]
                         /\ \/ req[r].pc \in {"answer", "approve", "refused", "hold", "bill"}
                            \/ /\ card.status = "DELIVERED" /\ card'.status = "ON_HOLD"
                               /\ req[r].pc = "write"
                            \/ req[r].card # card
    OBVIOUS
  <2>0. card' # card
    OBVIOUS
  <2>1. PICK r \in Requests : CardWrite(r)
    BY <2>0, CardWriters DEF Next
  <2>2. /\ req'[r] # req[r] /\ RowOK(req[r])
        /\ req[r].pc \in {"answer", "approve", "refused", "hold", "pause", "resume", "write", "bill"}
        /\ req[r].pc = "write" => card' = req[r].put
    BY <2>1, CardWriteFacts
  <2>3. req[r].pc \in {"pause", "resume"} => req[r].card # card
    BY <2>2 DEF RowOK, HeldForParts, Pausable, Terminal
  <2>4. req[r].pc = "write" /\ req[r].card = card
           => card.status = "DELIVERED" /\ card'.status = "ON_HOLD"
    BY <2>2 DEF RowOK
  <2> QED BY <2>2, <2>3, <2>4
<1> QED BY <1>1, GatesInvariance, PTL DEF Spec, ClosedToTheFloor
-----------------------------------------------------------------------------
(* Boards: a card and its estimates.                                       *)

\* They have come apart by more than the badge.
Torn == ~(rifts \subseteq {"back"})

\* Somebody is between an answer and the card.
Pending(pcs) == \E r \in Requests : req[r].pc \in pcs

\* Estimates are made in order.
InOrder == \A e \in Issued, f \in Ests : f < e => f \in Issued

\* A held card knows where it was.
Returns == card.status = "ON_HOLD" => card.heldFrom \notin {"NONE", "ON_HOLD"}

\* What a request may rely on besides RowOK.
ReadOK(q) ==
    /\ q.pc \in {"answer", "set", "send"} => q.est \subseteq Issued
    /\ q.pc \in {"count", "resume"} => q.card.heldFrom \notin {"NONE", "ON_HOLD"}
    /\ q.pc = "write" /\ q.put.status = "ON_HOLD"
          => q.card.status # "ON_HOLD" /\ q.put.heldFrom = q.card.status
    /\ q.pc = "write" /\ q.put.status = Extra
          => q.card.status \in AtWork \/ (q.card.status = "ON_HOLD" /\ q.card.heldFrom = Extra)

\* Work has been approved, and an approval on its way to the card is one; extra work is
\* being quoted, or its answer is on its way; at work on a card with an invoice, the
\* newest estimate is approved and to be billed.
WorkOK    == Place(card) \in AtWork \union {Extra} => ApprovedEsts # {}
ApproveOK == \A r \in Requests : req[r].pc = "approve" => req[r].est \intersect ApprovedEsts # {}
QuoteOK   == Place(card) = Extra => \/ NewestIs("DRAFT") \/ NewestIs("SENT")
                                    \/ Pending({"approve", "refuse", "refused"})
DueOK     == billed # {} /\ card.status \in AtWork => Due # {}

\* What is being quoted is not approved yet, or the approval is on its way.
BadgeOK == Place(card) = "ESTIMATE" => ~NewestIs("APPROVED") \/ Pending({"approve"})

BoardInv ==
    /\ IInv /\ InOrder /\ Returns /\ \A r \in Requests : ReadOK(req[r])
    /\ pages /\ ~Torn => WorkOK /\ ApproveOK /\ QuoteOK /\ DueOK
    /\ pages /\ rifts = {} => BadgeOK

Acts(r) == EstimateStep(r) \/ PartStep(r) \/ CardStep(r)

-----------------------------------------------------------------------------
(* What a request goes on to.                                              *)

\* An action that goes on to a call with nothing to rely on.
Plain == {"idle", "create", "line", "toggle", "sum", "total", "flip", "flipped", "refuse",
          "refused", "prior", "gate", "hold", "part", "pause", "advance", "pause?", "cancel",
          "resume?", "bill"}

LEMMA EndsPlain ==
    ASSUME TypeOK, NEW r \in Requests, Finish(r)
    PROVE  OnlyMoves(r) /\ req'[r].pc \in Plain
BY FinishFacts DEF Plain

LEMMA GoesPlain ==
    ASSUME TypeOK, NEW r \in Requests, NEW pc \in Plain, Goto(r, pc)
    PROVE  OnlyMoves(r) /\ req'[r].pc \in Plain
<1>1. pc \in PCs
  BY DEF Plain, PCs
<1> QED BY <1>1, GotoFacts

LEMMA BeginsPlain ==
    ASSUME TypeOK, NEW r \in Requests, NEW q \in Reqs, q.pc \in Plain, req' = [req EXCEPT ![r] = q]
    PROVE  OnlyMoves(r) /\ req'[r].pc \in Plain
BY MoveFacts

\* A request about an estimate is about one that was made.
LEMMA AboutGoes ==
    ASSUME TypeOK, NEW r \in Requests,
           \/ \E e \in Ests : SendRead(r, e)
           \/ \E e \in Ests, to \in {"APPROVED", "REJECTED"} : AnswerRead(r, e, to)
           \/ \E e \in Ests, to \in {"SENT", "APPROVED", "REJECTED"} : SetRead(r, e, to)
    PROVE  /\ OnlyMoves(r) /\ req'[r].pc \in {"answer", "set", "send"}
           /\ req'[r].est \subseteq Issued
<1> USE DEF PCs, EstimateStatuses
<1>1. CASE \E e \in Ests : SendRead(r, e)
  <2>1. PICK e \in Ests : SendRead(r, e)
    BY <1>1
  <2>2. e \in Issued /\ About(r, "send", e, {}, "SENT")
    BY <2>1 DEF SendRead, Issued
  <2> QED BY <2>2, AboutFacts
<1>2. CASE \E e \in Ests, to \in {"APPROVED", "REJECTED"} : AnswerRead(r, e, to)
  <2>1. PICK e \in Ests, to \in {"APPROVED", "REJECTED"} : AnswerRead(r, e, to)
    BY <1>2
  <2>2. e \in Issued /\ About(r, "answer", e, {}, to)
    BY <2>1 DEF AnswerRead, Issued
  <2> QED BY <2>2, AboutFacts
<1>3. CASE \E e \in Ests, to \in {"SENT", "APPROVED", "REJECTED"} : SetRead(r, e, to)
  <2>1. PICK e \in Ests, to \in {"SENT", "APPROVED", "REJECTED"} : SetRead(r, e, to)
    BY <1>3
  <2>2. e \in Issued /\ About(r, "set", e, {}, to)
    BY <2>1 DEF SetRead
  <2> QED BY <2>2, AboutFacts
<1> QED BY <1>1, <1>2, <1>3

\* The other requests that begin about an estimate or a part.
LEMMA ReadsGo ==
    ASSUME IInv, NEW r \in Requests,
           \/ CreateRead(r) \/ PartRead(r)
           \/ \E e \in Ests : BillRead(r, e)
           \/ \E e \in Ests, l \in Lines : ToggleRead(r, e, l) \/ FlipRead(r, e, l)
           \/ \E e \in Ests, in \in BOOLEAN, out \in {{}} \union {{l} : l \in Lines} :
                 LineRead(r, e, out, in)
           \/ \E q \in Parts : CancelRead(r, q) \/ \E to \in PartStatuses : AdvanceRead(r, q, to)
    PROVE  OnlyMoves(r) /\ req'[r].pc \in Plain
<1>0. TypeOK
  BY DEF IInv
<1>1. CASE CreateRead(r)
  <2>1. PICK quote \in {est[e] : e \in {x \in Newest : est[x].status = "REJECTED"}}
                    \union {NoEstimate : e \in {x \in {0} : \A y \in Newest :
                                                              est[y].status # "REJECTED"}} :
          req' = [req EXCEPT ![r] = [Idle EXCEPT !.pc = "create", !.quote = quote]]
    BY <1>1 DEF CreateRead
  <2>2. quote \in Quotes
    BY <2>1, <1>0, IdleFacts DEF Newest, Issued, TypeOK
  <2> DEFINE q == [Idle EXCEPT !.pc = "create", !.quote = quote]
  <2>3. q \in Reqs /\ q.pc = "create"
    BY <2>2, IdleFacts DEF Reqs, PCs
  <2> HIDE DEF q
  <2> QED BY <1>0, <2>1, <2>3, BeginsPlain DEF Plain, q
<1>2. CASE PartRead(r)
  <2> DEFINE q == [Idle EXCEPT !.pc = "part", !.card = card]
  <2>1. q \in Reqs /\ q.pc = "part" /\ req' = [req EXCEPT ![r] = q]
    BY <1>0, <1>2, IdleFacts DEF Reqs, PCs, TypeOK, PartRead
  <2> HIDE DEF q
  <2> QED BY <1>0, <2>1, BeginsPlain DEF Plain
<1>3. CASE \E e \in Ests : BillRead(r, e)
  <2>1. PICK e \in Ests : About(r, "bill", e, {}, "NONE")
    BY <1>3 DEF BillRead
  <2> QED BY <1>0, <2>1, AboutFacts DEF PCs, EstimateStatuses, Plain
<1>4. CASE \E e \in Ests, l \in Lines : ToggleRead(r, e, l) \/ FlipRead(r, e, l)
  <2>1. PICK e \in Ests, l \in Lines : ToggleRead(r, e, l) \/ FlipRead(r, e, l)
    BY <1>4
  <2>3. PICK pc \in {"toggle", "flip"}, off \in BOOLEAN :
          req' = [req EXCEPT ![r] = [Idle EXCEPT !.pc = pc, !.est = {e}, !.line = {l}, !.off = off]]
    <3>1. (l \notin est[e].declined) \in BOOLEAN
      OBVIOUS
    <3> QED BY <2>1, <3>1 DEF ToggleRead, FlipRead
  <2> DEFINE q == [Idle EXCEPT !.pc = pc, !.est = {e}, !.line = {l}, !.off = off]
  <2>2. q \in Reqs /\ q.pc = pc
    BY IdleFacts DEF Reqs, PCs
  <2> HIDE DEF q
  <2> QED BY <1>0, <2>3, <2>2, BeginsPlain DEF Plain, q
<1>5. CASE \E e \in Ests, in \in BOOLEAN, out \in {{}} \union {{l} : l \in Lines} :
              LineRead(r, e, out, in)
  <2>1. PICK e \in Ests, in \in BOOLEAN, out \in SUBSET Lines :
          req' = [req EXCEPT ![r] = [Idle EXCEPT !.pc = "line", !.est = {e}, !.line = out, !.off = in]]
    BY <1>5 DEF LineRead
  <2> DEFINE q == [Idle EXCEPT !.pc = "line", !.est = {e}, !.line = out, !.off = in]
  <2>2. q \in Reqs /\ q.pc = "line"
    BY IdleFacts DEF Reqs, PCs
  <2> HIDE DEF q
  <2> QED BY <1>0, <2>1, <2>2, BeginsPlain DEF Plain, q
<1>6. CASE \E p \in Parts : CancelRead(r, p)
  <2>1. PICK p \in Parts : req' = [req EXCEPT ![r] = [Idle EXCEPT !.pc = "cancel", !.part = {p}]]
    BY <1>6 DEF CancelRead
  <2> DEFINE q == [Idle EXCEPT !.pc = "cancel", !.part = {p}]
  <2>2. q \in Reqs /\ q.pc = "cancel"
    BY IdleFacts DEF Reqs, PCs
  <2> HIDE DEF q
  <2> QED BY <1>0, <2>1, <2>2, BeginsPlain DEF Plain, q
<1>7. CASE \E p \in Parts, to \in PartStatuses : AdvanceRead(r, p, to)
  <2>1. PICK p \in Parts, to \in PartStatuses :
          req' = [req EXCEPT ![r] = [Idle EXCEPT !.pc = "advance", !.part = {p}, !.to = to,
                                                  !.from = pr[p]]]
    BY <1>7 DEF AdvanceRead
  <2> DEFINE q == [Idle EXCEPT !.pc = "advance", !.part = {p}, !.to = to, !.from = pr[p]]
  <2>2. pr[p] \in PartStatuses
    BY <1>0 DEF TypeOK
  <2>3. q \in Reqs /\ q.pc = "advance"
    BY <2>2, IdleFacts DEF Reqs, PCs
  <2> HIDE DEF q
  <2> QED BY <1>0, <2>1, <2>3, BeginsPlain DEF Plain, q
<1> QED BY <1>1, <1>2, <1>3, <1>4, <1>5, <1>6, <1>7

LEMMA PlainReads ==
    ASSUME NEW q, q.pc \in Plain
    PROVE  ReadOK(q) /\ q.pc # "approve"
BY DEF ReadOK, Plain

\* A request that has read the card remembers it as it is.
LEMMA CardGoes ==
    ASSUME TypeOK, Returns, NEW r \in Requests, NEW pc \in {"refused", "hold", "pause", "count"},
           req' = [req EXCEPT ![r].pc = pc, ![r].card = card], pc = "count" => HeldForParts(card)
    PROVE  OnlyMoves(r) /\ ReadOK(req'[r]) /\ req'[r].pc # "approve"
<1> DEFINE q == [req[r] EXCEPT !.pc = pc, !.card = card]
<1>1. req[r] \in Reqs /\ card \in Cards
  BY DEF TypeOK
<1>2. q \in Reqs /\ q.pc = pc /\ q.card = card
  BY <1>1 DEF Reqs, PCs
<1>3. req' = [req EXCEPT ![r] = q]
  OBVIOUS
<1> HIDE DEF q
<1>4. OnlyMoves(r) /\ req'[r] = q
  BY <1>2, <1>3, MoveFacts
<1>5. ReadOK(q)
  BY <1>2 DEF ReadOK, Returns, HeldForParts
<1> QED BY <1>2, <1>4, <1>5

LEMMA CardReadsGo ==
    ASSUME TypeOK, Returns, NEW r \in Requests,
           RefuseRead(r) \/ GateRead(r) \/ PauseRead(r) \/ ResumeRead(r)
    PROVE  OnlyMoves(r) /\ ReadOK(req'[r]) /\ req'[r].pc # "approve"
<1>1. CASE RefuseRead(r)
  BY <1>1, CardGoes DEF RefuseRead
<1>2. CASE GateRead(r)
  BY <1>2, CardGoes, EndsPlain, PlainReads DEF GateRead
<1>3. CASE PauseRead(r)
  <2>1. "resume?" \in Plain
    BY DEF Plain
  <2> QED BY <1>3, <2>1, CardGoes, GoesPlain, PlainReads DEF PauseRead
<1>4. CASE ResumeRead(r)
  BY <1>4, CardGoes, EndsPlain, PlainReads DEF ResumeRead
<1> QED BY <1>1, <1>2, <1>3, <1>4

\* What a person makes of a card: a hold knows where it was, extra work comes of work
\* or of its own hold.
LEMMA OfficeDecides ==
    ASSUME card \in Cards, Returns, NEW p \in OfficePuts(card)
    PROVE  /\ p.status = "ON_HOLD" => card.status # "ON_HOLD" /\ p.heldFrom = card.status
           /\ p.status = Extra => card.status = "ON_HOLD" /\ card.heldFrom = Extra
<1> USE DEF Put, Cards, Extra
<1>1. CASE \E s \in NextStatus(card.status) : p = Put(s, "NONE", "NONE")
  <2>1. PICK i \in 1..7 : p = Put(Timeline[i + 1], "NONE", "NONE")
    BY <1>1 DEF NextStatus
  <2>2. i + 1 \in 1..8
    OBVIOUS
  <2> QED BY <2>1, <2>2, TimelineFacts DEF Linear
<1>2. CASE \E s \in SkippableTargets(card.status) : p = Put(s, "NONE", "NONE")
  <2>1. PICK i \in 1..8 : p = Put(Timeline[i], "NONE", "NONE")
    BY <1>2 DEF SkippableTargets
  <2> QED BY <2>1, TimelineFacts DEF Linear
<1>3. CASE /\ ~\E s \in NextStatus(card.status) : p = Put(s, "NONE", "NONE")
           /\ ~\E s \in SkippableTargets(card.status) : p = Put(s, "NONE", "NONE")
  BY <1>3 DEF OfficePuts, Transitions, Linear, Returns
<1> QED BY <1>1, <1>2, <1>3

LEMMA Decides ==
    ASSUME card \in Cards, Returns, NEW put \in OfficeCards(card) \union TechCards(card)
    PROVE  /\ put.status = "ON_HOLD" => card.status # "ON_HOLD" /\ put.heldFrom = card.status
           /\ put.status = Extra => \/ card.status \in AtWork
                                    \/ card.status = "ON_HOLD" /\ card.heldFrom = Extra
<1>1. CASE put \in OfficeCards(card)
  BY <1>1, OfficeDecides DEF OfficeCards, Card
<1>2. CASE put \in TechCards(card)
  BY <1>2 DEF TechCards, Card, Extra, AtWork
<1> QED BY <1>1, <1>2

LEMMA DecisionGoes ==
    ASSUME IInv, Returns, NEW r \in Requests,
           DecideRead(r, "office", OfficeCards(card)) \/ DecideRead(r, "tech", TechCards(card))
    PROVE  OnlyMoves(r) /\ ReadOK(req'[r]) /\ req'[r].pc # "approve"
<1>1. PICK put \in OfficeCards(card) \union TechCards(card) :
         req' = [req EXCEPT ![r] = [Idle EXCEPT !.pc = "write", !.card = card, !.put = put]]
  BY DEF DecideRead
<1> DEFINE q == [Idle EXCEPT !.pc = "write", !.card = card, !.put = put]
<1>2. TypeOK /\ card \in Cards /\ put \in Cards
  BY <1>1, PutFacts DEF IInv, TypeOK
<1>3. q \in Reqs /\ q.pc = "write" /\ q.card = card /\ q.put = put
  BY <1>2, IdleFacts DEF Reqs, PCs
<1>4. req' = [req EXCEPT ![r] = q]
  BY <1>1
<1> HIDE DEF q
<1>5. ReadOK(q)
  BY <1>2, <1>3, Decides DEF ReadOK
<1> QED BY <1>2, <1>3, <1>4, <1>5, MoveFacts

\* A request that has made a part's move, or counted the parts.
LEMMA PartsGo ==
    ASSUME TypeOK, NEW r \in Requests, ReadOK(req[r]),
           Request(r) \/ Advance(r) \/ Pause(r) \/ Cancel(r) \/ ResumeCount(r) \/ Resume(r)
    PROVE  OnlyMoves(r) /\ ReadOK(req'[r]) /\ req'[r].pc # "approve"
<1>1. CASE Finish(r)
  BY <1>1, EndsPlain, PlainReads
<1>2. CASE Goto(r, "pause") \/ Goto(r, "pause?") \/ Goto(r, "resume?")
  <2>1. {"pause", "pause?", "resume?"} \subseteq Plain
    BY DEF Plain
  <2> QED BY <1>2, <2>1, GoesPlain, PlainReads
<1>3. CASE req[r].pc = "count" /\ Goto(r, "resume")
  <2>1. OnlyMoves(r) /\ req'[r].pc = "resume" /\ req'[r].card = req[r].card
    BY <1>3, GotoFacts DEF PCs
  <2> QED BY <1>3, <2>1 DEF ReadOK
<1>4. CASE Request(r)
  BY <1>1, <1>2, <1>4 DEF Request
<1>5. CASE Advance(r)
  BY <1>1, <1>2, <1>5 DEF Advance
<1> QED BY <1>1, <1>2, <1>3, <1>4, <1>5 DEF Pause, Cancel, ResumeCount, Resume

\* A request about an estimate that goes on, or ends.
LEMMA EstimatesGo ==
    ASSUME TypeOK, NEW r \in Requests,
           \/ Create(r) \/ LineWrite(r) \/ LineGone(r) \/ ToggleWrite(r) \/ SumRead(r)
           \/ TotalWrite(r) \/ Flip(r) \/ FlipCommit(r) \/ Answer(r) \/ ApproveCard(r)
           \/ RefuseCard(r) \/ SendWrite(r) \/ PriorRead(r) \/ HoldCard(r)
    PROVE  OnlyMoves(r) /\ ReadOK(req'[r]) /\ req'[r].pc # "approve"
<1>1. req[r] \in Reqs /\ est \in [Ests -> Quotes]
  BY DEF TypeOK
<1>2. CASE Finish(r)
  BY <1>2, EndsPlain, PlainReads
<1>3. CASE Goto(r, "sum") \/ Goto(r, "prior") \/ Goto(r, "gate")
  <2>1. {"sum", "prior", "gate"} \subseteq Plain
    BY DEF Plain
  <2> QED BY <1>3, <2>1, GoesPlain, PlainReads
<1>4. ASSUME NEW q \in Reqs, q.pc \in Plain, req' = [req EXCEPT ![r] = q]
      PROVE  OnlyMoves(r) /\ ReadOK(req'[r]) /\ req'[r].pc # "approve"
  BY <1>4, BeginsPlain, PlainReads
<1>5. CASE Create(r)
  <2>1. PICK e \in NextRow : Create(r)!(e)
    BY <1>5 DEF Create
  <2>2. CASE req' = [req EXCEPT ![r] = [Idle EXCEPT !.pc = "sum", !.est = {e}]]
    <3> DEFINE q == [Idle EXCEPT !.pc = "sum", !.est = {e}]
    <3>1. q \in Reqs /\ q.pc \in Plain
      BY <2>1, IdleFacts DEF Reqs, PCs, NextRow, Plain
    <3> HIDE DEF q
    <3> QED BY <1>4, <2>2, <3>1 DEF q
  <2> QED BY <1>2, <2>1, <2>2
<1>6. CASE SumRead(r)
  <2>1. PICK e \in req[r].est : SumRead(r)!(e)
    BY <1>6 DEF SumRead
  <2> DEFINE q == [req[r] EXCEPT !.pc = "total", !.sum = Accepted(e), !.quote = est[e]]
  <2>2. q \in Reqs /\ q.pc \in Plain
    BY <1>1, <2>1 DEF Reqs, PCs, Accepted, Quotes, Plain
  <2>3. req' = [req EXCEPT ![r] = q]
    BY <2>1
  <2> HIDE DEF q
  <2> QED BY <1>4, <2>2, <2>3
<1>7. CASE Flip(r)
  <2>1. PICK e \in req[r].est : Flip(r)!(e)
    BY <1>7 DEF Flip
  <2> DEFINE sum == est[e].lines \ Toggled(e, req[r].line, req[r].off)
  <2> DEFINE q == [req[r] EXCEPT !.pc = "flipped", !.sum = sum, !.quote = est[e]]
  <2>3. req' = [req EXCEPT ![r] = q]
    BY <2>1
  <2>4. est[e] \in Quotes /\ sum \in SUBSET Lines
    BY <1>1, <2>1 DEF Reqs, Quotes
  <2> HIDE DEF sum
  <2>2. q \in Reqs /\ q.pc \in Plain
    BY <1>1, <2>4 DEF Reqs, PCs, Plain
  <2> HIDE DEF q
  <2> QED BY <1>4, <2>2, <2>3
<1> QED BY <1>2, <1>3, <1>5, <1>6, <1>7
        DEF LineWrite, LineGone, ToggleWrite, TotalWrite, FlipCommit, Answer, ApproveCard,
            RefuseCard, SendWrite, PriorRead, HoldCard

\* A staff answer goes on to the card.
LEMMA SetGoes ==
    ASSUME TypeOK, NEW r \in Requests, SetWrite(r)
    PROVE  /\ OnlyMoves(r) /\ ReadOK(req'[r]) /\ req'[r].est = req[r].est
           /\ req'[r].pc = CASE req[r].to = "APPROVED" -> "approve"
                             [] req[r].to = "REJECTED" -> "refuse"
                             [] OTHER -> "prior"
<1> DEFINE pc == CASE req[r].to = "APPROVED" -> "approve" [] req[r].to = "REJECTED" -> "refuse"
                   [] OTHER -> "prior"
<1>1. Goto(r, pc)
  BY DEF SetWrite
<1>2. pc \in {"approve", "refuse", "prior"} /\ pc \in PCs
  BY DEF PCs
<1> HIDE DEF pc
<1>3. OnlyMoves(r) /\ req'[r].pc = pc /\ req'[r].est = req[r].est
  BY <1>1, <1>2, GotoFacts
<1>4. ReadOK(req'[r])
  BY <1>2, <1>3 DEF ReadOK
<1> QED BY <1>3, <1>4 DEF pc

\* Only a staff answer comes to be about to approve, and all rely on what they read.
LEMMA Goes ==
    ASSUME IInv, Returns, NEW r \in Requests, ReadOK(req[r]), Acts(r)
    PROVE  OnlyMoves(r) /\ ReadOK(req'[r]) /\ (req'[r].pc = "approve" => SetWrite(r))
<1>1. TypeOK
  BY DEF IInv
<1>2. CASE EstimateStep(r)
  <2>1. CASE \/ CreateRead(r)
             \/ \E e \in Ests, l \in Lines : ToggleRead(r, e, l) \/ FlipRead(r, e, l)
             \/ \E e \in Ests, in \in BOOLEAN, out \in {{}} \union {{l} : l \in Lines} :
                   LineRead(r, e, out, in)
    BY <2>1, ReadsGo, PlainReads
  <2>2. CASE \/ \E e \in Ests : SendRead(r, e)
             \/ \E e \in Ests, to \in {"APPROVED", "REJECTED"} : AnswerRead(r, e, to)
             \/ \E e \in Ests, to \in {"SENT", "APPROVED", "REJECTED"} : SetRead(r, e, to)
    BY <1>1, <2>2, AboutGoes DEF ReadOK
  <2> QED BY <1>1, <1>2, <2>1, <2>2, EstimatesGo, SetGoes, CardReadsGo DEF EstimateStep
<1>3. CASE PartStep(r)
  <2>1. CASE PartRead(r) \/ \E q \in Parts : CancelRead(r, q)
                                            \/ \E to \in PartStatuses : AdvanceRead(r, q, to)
    BY <2>1, ReadsGo, PlainReads
  <2> QED BY <1>1, <1>3, <2>1, PartsGo, CardReadsGo DEF PartStep
<1>4. CASE CardStep(r)
  <2>1. CASE Write(r) \/ Bill(r) \/ Kill(r)
    BY <1>1, <2>1, EndsPlain, PlainReads DEF Write, Bill, Kill
  <2>2. CASE \E e \in Ests : BillRead(r, e)
    BY <2>2, ReadsGo, PlainReads
  <2> QED BY <1>4, <2>1, <2>2, DecisionGoes DEF CardStep
<1> QED BY <1>2, <1>3, <1>4 DEF Acts

-----------------------------------------------------------------------------
(* What a step makes of the answers under way and of the estimates.        *)

\* Whoever is on its way to the card gets there, unless it is killed.
LEMMA PendingMoves ==
    ASSUME NEW r \in Requests, Acts(r)
    PROVE  /\ req[r].pc = "approve" => ApproveCard(r) \/ Kill(r)
           /\ req[r].pc = "refuse" => RefuseRead(r) \/ Kill(r)
           /\ req[r].pc = "refused" => RefuseCard(r) \/ Kill(r)
           /\ req[r].pc = "bill" => Bill(r) \/ Kill(r)
<1>1. CASE EstimateStep(r)
  <2>1. ASSUME req[r].pc \in {"approve", "refuse", "refused", "bill"}
        PROVE  /\ \A e : ~SendRead(r, e)
               /\ \A e, l : ~ToggleRead(r, e, l) /\ ~FlipRead(r, e, l)
               /\ \A e, to : ~AnswerRead(r, e, to) /\ ~SetRead(r, e, to)
               /\ \A e, in, out : ~LineRead(r, e, out, in)
               /\ ~CreateRead(r)
    BY <2>1 DEF SendRead, ToggleRead, FlipRead, AnswerRead, SetRead, LineRead, CreateRead, About,
                Free
  <2>2. ASSUME req[r].pc \in {"approve", "refuse", "refused", "bill"}
        PROVE  ~\/ Create(r) \/ LineWrite(r) \/ LineGone(r) \/ ToggleWrite(r) \/ SumRead(r)
                \/ TotalWrite(r) \/ Flip(r) \/ FlipCommit(r) \/ Answer(r) \/ SetWrite(r)
                \/ SendWrite(r) \/ PriorRead(r) \/ GateRead(r) \/ HoldCard(r)
    BY <2>2 DEF Create, LineWrite, LineGone, ToggleWrite, SumRead, TotalWrite, Flip, FlipCommit,
                Answer, SetWrite, SendWrite, PriorRead, GateRead, HoldCard
  <2>3. /\ ApproveCard(r) => req[r].pc = "approve"
        /\ RefuseRead(r) => req[r].pc = "refuse"
        /\ RefuseCard(r) => req[r].pc = "refused"
    BY DEF ApproveCard, RefuseRead, RefuseCard
  <2> QED BY <1>1, <2>1, <2>2, <2>3 DEF EstimateStep
<1>2. CASE PartStep(r)
  <2>1. ASSUME req[r].pc \in {"approve", "refuse", "refused", "bill"}
        PROVE  ~\/ PartRead(r) \/ Request(r) \/ Advance(r) \/ PauseRead(r) \/ Pause(r)
                \/ Cancel(r) \/ ResumeRead(r) \/ ResumeCount(r) \/ Resume(r)
    BY <2>1 DEF PartRead, Request, Advance, PauseRead, Pause, Cancel, ResumeRead, ResumeCount,
                Resume, Free
  <2>2. ASSUME req[r].pc \in {"approve", "refuse", "refused", "bill"}
        PROVE  \A q : ~CancelRead(r, q) /\ \A to : ~AdvanceRead(r, q, to)
    BY <2>2 DEF CancelRead, AdvanceRead, Free
  <2> QED BY <1>2, <2>1, <2>2 DEF PartStep
<1>3. CASE CardStep(r)
  <2>1. ASSUME req[r].pc \in {"approve", "refuse", "refused", "bill"}
        PROVE  /\ \A k, cards : ~DecideRead(r, k, cards)
               /\ \A e : ~BillRead(r, e)
               /\ ~Write(r)
    BY <2>1 DEF DecideRead, BillRead, Write, About, Free
  <2>2. Bill(r) => req[r].pc = "bill"
    BY DEF Bill
  <2> QED BY <1>3, <2>1, <2>2 DEF CardStep
<1> QED BY <1>1, <1>2, <1>3 DEF Acts

\* Only a killed one spends that.
LEMMA Spending ==
    ASSUME TypeOK, NEW r \in Requests
    PROVE  /\ Kill(r) => Spent("kill")
           /\ CardWrite(r) \/ SetWrite(r) \/ SendWrite(r) => ~Spent("kill")
<1>1. ASSUME Kill(r) PROVE Spent("kill")
  BY <1>1 DEF Kill, Spend, Spent, TypeOK, Sorts
<1>2. ASSUME CardWrite(r) \/ SetWrite(r) \/ SendWrite(r) PROVE ~Spent("kill")
  BY <1>2 DEF CardWrite, Answer, ApproveCard, RefuseCard, HoldCard, Pause, Resume, Write, Bill,
              SetWrite, SendWrite, Spent
<1> QED BY <1>1, <1>2

LEMMA OthersPending ==
    ASSUME NEW r \in Requests, OnlyMoves(r), NEW pcs, Pending(pcs), req[r].pc \notin pcs
    PROVE  Pending(pcs)'
BY DEF Pending, OnlyMoves

\* An answer stays under way while the card is not written.
LEMMA PendingStays ==
    ASSUME TypeOK, NEW r \in Requests, OnlyMoves(r), Acts(r), ~CardWrite(r),
           Spent("kill") => req[r].pc \notin {"approve", "refuse", "refused"}
    PROVE  /\ Pending({"approve"}) => Pending({"approve"})'
           /\ Pending({"approve", "refuse", "refused"}) => Pending({"approve", "refuse", "refused"})'
<1>1. req[r].pc \notin {"approve", "refused"}
  BY PendingMoves, Spending DEF CardWrite
<1>2. CASE req[r].pc = "refuse"
  <2>1. RefuseRead(r)
    BY <1>2, PendingMoves, Spending
  <2> DEFINE q == [req[r] EXCEPT !.pc = "refused", !.card = card]
  <2>0. req[r] \in Reqs /\ card \in Cards
    BY DEF TypeOK
  <2>2. q \in Reqs /\ q.pc = "refused"
    BY <2>0 DEF Reqs, PCs
  <2>5. req' = [req EXCEPT ![r] = q]
    BY <2>1 DEF RefuseRead
  <2> HIDE DEF q
  <2>3. req'[r].pc = "refused"
    BY <2>2, <2>5, MoveFacts
  <2>4. Pending({"approve"}) => Pending({"approve"})'
    BY <1>2, OthersPending
  <2> QED BY <2>3, <2>4 DEF Pending
<1> QED BY <1>1, <1>2, OthersPending

\* What follows from the estimates' statuses alone.
LEMMA SameStatuses ==
    ASSUME \A e \in Ests : est'[e].status = est[e].status
    PROVE  /\ Issued' = Issued /\ Newest' = Newest /\ ApprovedEsts' = ApprovedEsts
           /\ \A s : NewestIs(s)' <=> NewestIs(s)
<1>1. Issued' = Issued
  BY DEF Issued
<1>2. Newest' = Newest /\ ApprovedEsts' = ApprovedEsts
  BY <1>1 DEF Newest, ApprovedEsts, Issued
<1> QED BY <1>1, <1>2 DEF NewestIs, Newest, Issued

\* A DRAFT is made: it is the newest.
LEMMA NewStatus ==
    ASSUME InOrder, NEW n \in NextRow,
           \A e \in Ests : est'[e].status = IF e = n THEN "DRAFT" ELSE est[e].status
    PROVE  /\ n \notin Issued /\ Issued' = Issued \union {n} /\ Newest' = {n}
           /\ ApprovedEsts' = ApprovedEsts /\ NewestIs("DRAFT")' /\ ~NewestIs("APPROVED")'
           /\ InOrder'
<1>1. /\ n \in Ests /\ n \notin Issued /\ \A f \in Ests \ Issued : n <= f
      /\ Ests \subseteq Nat /\ Issued \subseteq Ests
  BY CardGatesAssumption DEF NextRow, Issued
<1>2. Issued' = Issued \union {n}
  BY <1>1 DEF Issued
<1>3. \A e \in Issued : e <= n
  BY <1>1 DEF InOrder
<1>4. Newest' = {n}
  <2>1. n \in Newest'
    BY <1>1, <1>2, <1>3 DEF Newest
  <2>2. \A e \in Newest' : e \in Issued' /\ n <= e
    BY <1>2 DEF Newest
  <2>3. ASSUME NEW e \in Newest' PROVE e = n
    <3>1. n \in Nat /\ e \in Nat /\ n <= e /\ e <= n
      BY <1>1, <1>2, <1>3, <2>2
    <3> QED BY <3>1
  <2> QED BY <2>1, <2>3
<1>5. ApprovedEsts' = ApprovedEsts
  BY <1>1, <1>2 DEF ApprovedEsts, Issued
<1>6. InOrder'
  BY <1>1, <1>2 DEF InOrder
<1>7. NewestIs("DRAFT")' /\ ~NewestIs("APPROVED")'
  BY <1>1, <1>4 DEF NewestIs
<1> QED BY <1>1, <1>2, <1>4, <1>5, <1>6, <1>7

\* An estimate is sent or answered.
LEMMA SetStatus ==
    ASSUME NEW e \in Issued, NEW to \in {"SENT", "APPROVED", "REJECTED"},
           \A f \in Ests : est'[f].status = IF f = e THEN to ELSE est[f].status
    PROVE  /\ Issued' = Issued /\ Newest' = Newest /\ (InOrder => InOrder')
           /\ to = "APPROVED" => e \in ApprovedEsts' /\ ApprovedEsts \subseteq ApprovedEsts'
           /\ to = "APPROVED" => (NewestIs("APPROVED") => NewestIs("APPROVED")')
           /\ to # "APPROVED" => (NewestIs("APPROVED")' => NewestIs("APPROVED"))
           /\ to # "APPROVED" /\ est[e].status # "APPROVED" => ApprovedEsts' = ApprovedEsts
           /\ to = "SENT" => (NewestIs("DRAFT") \/ NewestIs("SENT")
                                 => NewestIs("DRAFT")' \/ NewestIs("SENT")')
<1>1. Issued' = Issued
  BY DEF Issued
<1>2. Newest' = Newest /\ Newest \subseteq Ests
  BY <1>1 DEF Newest, Issued
<1>3. (InOrder => InOrder')
  BY <1>1 DEF InOrder
<1>4. to = "APPROVED" => e \in ApprovedEsts' /\ ApprovedEsts \subseteq ApprovedEsts'
  BY <1>1 DEF ApprovedEsts, Issued
<1>5. to # "APPROVED" /\ est[e].status # "APPROVED" => ApprovedEsts' = ApprovedEsts
  BY <1>1 DEF ApprovedEsts, Issued
<1>6. to = "APPROVED" => (NewestIs("APPROVED") => NewestIs("APPROVED")')
  BY <1>2 DEF NewestIs
<1>7. to # "APPROVED" => (NewestIs("APPROVED")' => NewestIs("APPROVED"))
  BY <1>2 DEF NewestIs
<1>8. to = "SENT" => (NewestIs("DRAFT") \/ NewestIs("SENT")
                          => NewestIs("DRAFT")' \/ NewestIs("SENT")')
  BY <1>2 DEF NewestIs
<1> QED BY <1>1, <1>2, <1>3, <1>4, <1>5, <1>6, <1>7, <1>8

-----------------------------------------------------------------------------
(* What each step does to the estimates' statuses and to the card.         *)

Makes(n)    == \A e \in Ests : est'[e].status = IF e = n THEN "DRAFT" ELSE est[e].status
Sets(e, to) == \A f \in Ests : est'[f].status = IF f = e THEN to ELSE est[f].status

LEMMA CreateMakes ==
    ASSUME TypeOK, NEW r \in Requests, Create(r)
    PROVE  card' = card /\ \E n \in NextRow : Makes(n)
<1>1. PICK n \in NextRow : Create(r)!(n)
  BY DEF Create
<1> DEFINE was == req[r].quote
<1> DEFINE new == [NoEstimate EXCEPT !.status = "DRAFT", !.lines = was.lines,
                                     !.declined = was.declined, !.total = was.total]
<1>2. est' = [est EXCEPT ![n] = new] /\ card' = card
  BY <1>1
<1>3. new.status = "DRAFT"
  BY DEF NoEstimate
<1> HIDE DEF new
<1>4. est \in [Ests -> Quotes]
  BY DEF TypeOK
<1> QED BY <1>2, <1>3, <1>4 DEF Makes

LEMMA WriteMakes ==
    ASSUME TypeOK, NEW r \in Requests, Write(r)
    PROVE  /\ card' = req[r].put /\ req[r].pc = "write" /\ req[r].put \in Cards
           /\ IF req[r].put.status = Extra /\ req[r].card.status # "ON_HOLD"
              THEN \E n \in NextRow : Makes(n)
              ELSE \A e \in Ests : est'[e].status = est[e].status
<1>0. est \in [Ests -> Quotes] /\ req[r].put \in Cards
  BY DEF TypeOK, Reqs
<1>1. CASE req[r].put.status = Extra /\ req[r].card.status # "ON_HOLD"
  <2> DEFINE new == [NoEstimate EXCEPT !.status = "DRAFT"]
  <2>1. PICK n \in NextRow : est' = [est EXCEPT ![n] = new]
    BY <1>1 DEF Write, Extra
  <2>2. new.status = "DRAFT"
    BY DEF NoEstimate
  <2> HIDE DEF new
  <2>3. Makes(n)
    BY <1>0, <2>1, <2>2 DEF Makes
  <2> QED BY <1>0, <1>1, <2>3 DEF Write
<1>2. CASE ~(req[r].put.status = Extra /\ req[r].card.status # "ON_HOLD")
  BY <1>0, <1>2 DEF Write, Extra
<1> QED BY <1>1, <1>2

LEMMA SetSets ==
    ASSUME IInv, NEW r \in Requests, ReadOK(req[r]), SetWrite(r)
    PROVE  /\ card' = card /\ req[r].to \in {"SENT", "APPROVED", "REJECTED"}
           /\ \E e \in Issued : e \in req[r].est /\ Sets(e, req[r].to)
<1>1. PICK e \in req[r].est : SetWrite(r)!(e)
  BY DEF SetWrite
<1>2. /\ req[r].pc = "set" /\ card' = card /\ RowOK(req[r]) /\ est \in [Ests -> Quotes]
      /\ req[r] \in Reqs
  BY <1>1 DEF IInv, TypeOK
<1> DEFINE to == req[r].to
<1>3. to \in {"SENT", "APPROVED", "REJECTED"} /\ req[r].est \subseteq Issued
  BY <1>2 DEF RowOK, ReadOK
<1>4. e \in Issued /\ e \in Ests /\ est[e] \in Quotes /\ req[r].quote.total \in SUBSET Lines
  BY <1>1, <1>2, <1>3 DEF Issued, Reqs, Quotes
<1> DEFINE new == IF to = "SENT" THEN [est[e] EXCEPT !.status = to, !.sent = TRUE]
                  ELSE Answered(est[e], to, req[r].quote.total)
<1>5. est' = [est EXCEPT ![e] = new]
  BY <1>1, <1>2, <1>4
<1>6. new.status = to
  <2>1. CASE to = "SENT"
    BY <1>4, <2>1 DEF Quotes
  <2>2. CASE to \in {"APPROVED", "REJECTED"}
    BY <1>4, <2>2, AnsweredFacts
  <2> QED BY <1>3, <2>1, <2>2
<1> HIDE DEF new
<1>7. Sets(e, to)
  BY <1>2, <1>4, <1>5, <1>6 DEF Sets
<1> QED BY <1>1, <1>2, <1>3, <1>4, <1>7

LEMMA AnswerSets ==
    ASSUME IInv, NEW r \in Requests, ReadOK(req[r]), Answer(r)
    PROVE  /\ req[r].pc = "answer"
           /\ \E e \in Issued : Sets(e, req[r].to)
           /\ \/ req[r].to = "APPROVED" /\ card' = Card("APPROVED", "NONE", "NONE")
              \/ req[r].to = "REJECTED" /\ card' = [card EXCEPT !.status = "ESTIMATE"]
<1>1. PICK e \in req[r].est : Answer(r)!(e)
  BY DEF Answer
<1>2. /\ req[r].pc = "answer" /\ RowOK(req[r]) /\ est \in [Ests -> Quotes] /\ req[r] \in Reqs
  BY <1>1 DEF IInv, TypeOK
<1> DEFINE to == req[r].to
<1>3. to \in {"APPROVED", "REJECTED"} /\ req[r].est \subseteq Issued
  BY <1>2 DEF RowOK, ReadOK
<1>4. e \in Issued /\ e \in Ests /\ est[e] \in Quotes /\ req[r].quote.total \in SUBSET Lines
  BY <1>1, <1>2, <1>3 DEF Issued, Reqs, Quotes
<1> DEFINE new == Answered(est[e], to, req[r].quote.total)
<1>5. est' = [est EXCEPT ![e] = new]
  BY <1>1
<1>6. new.status = to
  BY <1>3, <1>4, AnsweredFacts
<1> HIDE DEF new
<1>7. Sets(e, to)
  BY <1>2, <1>4, <1>5, <1>6 DEF Sets
<1> QED BY <1>1, <1>2, <1>3, <1>4, <1>7

LEMMA SendSets ==
    ASSUME IInv, NEW r \in Requests, ReadOK(req[r]), SendWrite(r)
    PROVE  /\ card' = card
           /\ \/ \E e \in Issued : Sets(e, "SENT")
              \/ \A e \in Ests : est'[e].status = est[e].status
<1>1. PICK e \in req[r].est : SendWrite(r)!(e)
  BY DEF SendWrite
<1>2. req[r].pc = "send" /\ card' = card /\ est \in [Ests -> Quotes] /\ req[r] \in Reqs
  BY <1>1 DEF IInv, TypeOK
<1>4. e \in Issued /\ e \in Ests /\ est[e] \in Quotes
  BY <1>1, <1>2 DEF ReadOK, Issued, Reqs
<1> DEFINE status == IF ~req[r].quote.sent THEN "SENT" ELSE est[e].status
<1> DEFINE new == [est[e] EXCEPT !.sent = TRUE, !.status = status]
<1>5. est' = [est EXCEPT ![e] = new]
  BY <1>1, <1>4 DEF Quotes
<1>6. new.status = status
  BY <1>4 DEF Quotes
<1> HIDE DEF new
<1>7. Sets(e, status)
  BY <1>2, <1>4, <1>5, <1>6 DEF Sets
<1>8. CASE status = "SENT"
  BY <1>2, <1>4, <1>7, <1>8
<1>9. CASE status = est[e].status
  BY <1>2, <1>7, <1>9 DEF Sets
<1> QED BY <1>8, <1>9

\* A step that writes neither the card nor an estimate's status.
LEMMA Otherwise ==
    ASSUME IInv, NEW r \in Requests, Acts(r), ~CardWrite(r), ~Create(r), ~SetWrite(r), ~SendWrite(r)
    PROVE  card' = card /\ \A e \in Ests : est'[e].status = est[e].status
BY CardWriters, StatusSteps DEF Acts, CardWrite

\* The writers of the card alone.
LEMMA CardOnly ==
    ASSUME IInv, NEW r \in Requests,
           ApproveCard(r) \/ RefuseCard(r) \/ HoldCard(r) \/ Pause(r) \/ Resume(r) \/ Bill(r)
    PROVE  \A e \in Ests : est'[e].status = est[e].status
BY DEF ApproveCard, RefuseCard, HoldCard, Pause, Resume, Bill

\* Estimates are made in order, and stay.
LEMMA IssuedStay ==
    ASSUME IInv, InOrder, NEW r \in Requests, ReadOK(req[r]), Acts(r)
    PROVE  InOrder' /\ Issued \subseteq Issued'
<1>1. CASE \A e \in Ests : est'[e].status = est[e].status
  BY <1>1, SameStatuses DEF InOrder
<1>2. CASE \E n \in NextRow : Makes(n)
  BY <1>2, NewStatus DEF Makes
<1>3. CASE \E e \in Issued, to \in {"SENT", "APPROVED", "REJECTED"} : Sets(e, to)
  BY <1>3, SetStatus DEF Sets
<1>4. TypeOK
  BY DEF IInv
<1>5. CASE Create(r)
  BY <1>2, <1>4, <1>5, CreateMakes
<1>6. CASE Write(r)
  BY <1>1, <1>2, <1>4, <1>6, WriteMakes
<1>7. CASE SetWrite(r)
  BY <1>3, <1>7, SetSets
<1>8. CASE Answer(r)
  BY <1>3, <1>8, AnswerSets
<1>9. CASE SendWrite(r)
  BY <1>1, <1>3, <1>9, SendSets
<1> QED BY <1>1, <1>5, <1>6, <1>7, <1>8, <1>9, Otherwise, CardOnly DEF CardWrite

\* A held card still knows where it was.
LEMMA ReturnsStep ==
    ASSUME IInv, Returns, NEW r \in Requests, ReadOK(req[r]), Acts(r)
    PROVE  Returns'
<1>1. /\ TypeOK /\ RowOK(req[r]) /\ req[r] \in Reqs /\ req[r].card \in Cards /\ req[r].put \in Cards
      /\ card \in Cards
  BY DEF IInv, TypeOK, Reqs
<1>2. CASE Answer(r)
  BY <1>1, <1>2, AnswerSets DEF Returns, Card, Cards
<1>3. CASE ApproveCard(r) \/ RefuseCard(r) \/ Bill(r)
  BY <1>1, <1>3 DEF ApproveCard, RefuseCard, Bill, Returns, Card, Cards
<1>4. CASE HoldCard(r) \/ Pause(r)
  BY <1>1, <1>4 DEF HoldCard, Pause, Returns, Card, Cards, RowOK, Pausable, Statuses, Linear
<1>5. CASE Resume(r)
  BY <1>1, <1>5 DEF Resume, Returns, Card, Cards, ReadOK
<1>6. CASE Write(r)
  BY <1>1, <1>6, WriteMakes DEF Returns, ReadOK, Cards, Statuses, Linear
<1>7. CASE card' = card
  BY <1>7 DEF Returns
<1> QED BY <1>2, <1>3, <1>4, <1>5, <1>6, <1>7, CardWriters DEF Acts, CardWrite

-----------------------------------------------------------------------------
(* A step that tears nothing apart.                                        *)

Tame(r) ==
    /\ Spent("kill") => req[r].pc \notin {"approve", "refuse", "refused"}
    /\ \A e \in Ests : est[e].status \in Answers => est'[e].status = est[e].status
    /\ req[r].pc \in {"pause", "resume", "hold", "refused", "write"} /\ ~Spent("kill")
          => req[r].card = card
    /\ req[r].pc = "write" /\ ~Spent("kill") /\ card'.status \in AtWork => ApprovedEsts # {}
    /\ billed # {} /\ Due' = {} /\ card'.status \in AtWork => card' = card /\ Issued' = Issued

LEMMA TameStep ==
    ASSUME NEW r \in Requests, Step(r), pages, ~Torn'
    PROVE  ~Torn /\ Tame(r)
<1>1. rifts' = rifts \union {tag \in Tags : Brings(tag, r)} /\ rifts' \subseteq {"back"}
  BY DEF Step, Torn
<1>2. ~Torn
  BY <1>1 DEF Torn
<1>3. \A tag \in {"killed", "crossed", "stale", "ahead", "again"} : ~Brings(tag, r)
  BY <1>1 DEF Tags
<1>4. Spent("kill") => req[r].pc \notin {"approve", "refuse", "refused"}
  BY <1>3 DEF Brings
<1>5. \A e \in Ests : est[e].status \in Answers => est'[e].status = est[e].status
  BY <1>3 DEF Brings
<1>6. req[r].pc \in {"pause", "resume", "hold", "refused", "write"} /\ ~Spent("kill")
         => req[r].card = card
  BY <1>3 DEF Brings
<1>7. req[r].pc = "write" /\ ~Spent("kill") /\ card'.status \in AtWork => ApprovedEsts # {}
  BY <1>3 DEF Brings
<1>8. billed # {} /\ Due' = {} /\ card'.status \in AtWork => card' = card /\ Issued' = Issued
  BY <1>3 DEF Brings
<1> QED BY <1>2, <1>4, <1>5, <1>6, <1>7, <1>8 DEF Tame

\* Nor sends an approved card back.
SendsBack(r) ==
    /\ ~Spent("kill") /\ req[r].pc \in {"answer", "refused", "write"}
    /\ NewestIs("APPROVED") /\ card'.status = "ESTIMATE"

LEMMA NotBack ==
    ASSUME NEW r \in Requests, Step(r), pages, rifts' = {}
    PROVE  rifts = {} /\ ~SendsBack(r)
<1>1. rifts = {} /\ ~Brings("back", r)
  BY DEF Step, Tags
<1> QED BY <1>1 DEF Brings, SendsBack

\* What is approved stays so, and so does what is due unless another estimate is made.
LEMMA ApprovedStay ==
    ASSUME NEW r \in Requests, Tame(r)
    PROVE  ApprovedEsts \subseteq ApprovedEsts'
BY DEF Tame, Answers, ApprovedEsts, Issued

LEMMA DueStep ==
    ASSUME NEW r \in Requests, Tame(r), DueOK, billed' = billed
    PROVE  DueOK'
<1> SUFFICES ASSUME billed' # {}, card'.status \in AtWork, Due' = {} PROVE FALSE
  BY DEF DueOK
<1>1. card' = card /\ Issued' = Issued /\ billed # {}
  BY DEF Tame
<1>2. PICK e \in Due : TRUE
  BY <1>1 DEF DueOK
<1>3. e \in Newest /\ e \in Ests /\ est[e].status = "APPROVED" /\ e \notin billed
  BY <1>2 DEF Due, Newest, Issued
<1>4. est'[e].status = "APPROVED"
  BY <1>3 DEF Tame, Answers
<1>5. e \in Newest'
  BY <1>1, <1>3 DEF Newest
<1> QED BY <1>3, <1>4, <1>5 DEF Due

\* An approval on its way to the card is one.
LEMMA ApproveStep ==
    ASSUME IInv, NEW r \in Requests, ReadOK(req[r]), Tame(r), ApproveOK, OnlyMoves(r),
           req'[r].pc = "approve" => SetWrite(r)
    PROVE  ApproveOK'
<1>1. ApprovedEsts \subseteq ApprovedEsts'
  BY ApprovedStay
<1>2. ASSUME NEW x \in Requests \ {r}, req'[x].pc = "approve"
      PROVE  req'[x].est \intersect ApprovedEsts' # {}
  BY <1>1, <1>2 DEF ApproveOK, OnlyMoves
<1>3. ASSUME req'[r].pc = "approve"
      PROVE  req'[r].est \intersect ApprovedEsts' # {}
  <2>1. TypeOK
    BY DEF IInv
  <2>2. PICK e \in Issued : e \in req[r].est /\ Sets(e, req[r].to)
    BY <1>3, SetSets
  <2>3. req[r].to = "APPROVED" /\ req'[r].est = req[r].est
    BY <1>3, <2>1, SetGoes
  <2>4. e \in ApprovedEsts'
    BY <2>2, <2>3, SetStatus DEF Sets
  <2> QED BY <2>2, <2>3, <2>4
<1> QED BY <1>2, <1>3 DEF ApproveOK

\* A hold, and its end, leave the card where it was.
LEMMA HoldsStay ==
    ASSUME IInv, NEW r \in Requests, ReadOK(req[r]), Tame(r), HoldCard(r) \/ Pause(r) \/ Resume(r)
    PROVE  Place(card') = Place(card) /\ req[r].pc \notin {"approve", "refuse", "refused"}
<1>1. req[r].pc \in {"hold", "pause", "resume"} /\ ~Spent("kill") /\ RowOK(req[r]) /\ card \in Cards
  BY Spending DEF CardWrite, HoldCard, Pause, Resume, IInv, TypeOK
<1>2. req[r].card = card
  BY <1>1 DEF Tame
<1>3. CASE HoldCard(r) \/ Pause(r)
  BY <1>1, <1>2, <1>3 DEF HoldCard, Pause, Place, Card, RowOK, Pausable
<1>4. CASE Resume(r)
  <2>1. card.status = "ON_HOLD" /\ card.heldFrom \notin {"NONE", "ON_HOLD"}
    BY <1>2, <1>4 DEF Resume, RowOK, IInv, ReadOK, HeldForParts
  <2> QED BY <1>1, <1>2, <1>4, <2>1 DEF Resume, Place, Card
<1> QED BY <1>1, <1>3, <1>4

\* A card put to extra work, or on hold, by a person.
LEMMA WriteStays ==
    ASSUME IInv, NEW r \in Requests, ReadOK(req[r]), Tame(r), Write(r)
    PROVE  /\ req[r].card = card /\ ~Spent("kill") /\ card' = req[r].put /\ req[r].pc = "write"
           /\ card'.status = "ON_HOLD" => Place(card') = Place(card)
           /\ card'.status = Extra => \/ card.status \in AtWork /\ Place(card) \in AtWork
                                      \/ card.status = "ON_HOLD" /\ Place(card) = Extra
<1>1. TypeOK
  BY DEF IInv
<1>2. req[r].pc = "write" /\ ~Spent("kill") /\ card' = req[r].put
  BY <1>1, WriteMakes, Spending DEF CardWrite
<1>3. req[r].card = card
  BY <1>2 DEF Tame
<1> QED BY <1>2, <1>3 DEF ReadOK, Place, AtWork

\* Work is approved, whoever put the card to it.
LEMMA WorkStep ==
    ASSUME IInv, NEW r \in Requests, ReadOK(req[r]), Acts(r), Tame(r), WorkOK, ApproveOK
    PROVE  WorkOK'
<1>1. TypeOK /\ card \in Cards
  BY DEF IInv, TypeOK
<1>2. ApprovedEsts \subseteq ApprovedEsts'
  BY ApprovedStay
<1>3. CASE Place(card') = Place(card) \/ Place(card') \notin AtWork \union {Extra}
  BY <1>2, <1>3 DEF WorkOK
<1>4. CASE ApprovedEsts # {}
  BY <1>2, <1>4 DEF WorkOK
<1>5. CASE card' = card
  BY <1>3, <1>5
<1>6. CASE Answer(r)
  <2>1. PICK e \in Issued : Sets(e, req[r].to)
    BY <1>6, AnswerSets
  <2>2. CASE req[r].to = "APPROVED"
    BY <2>1, <2>2, SetStatus DEF Sets, WorkOK
  <2>3. CASE card' = [card EXCEPT !.status = "ESTIMATE"]
    <3>1. Place(card') = "ESTIMATE"
      BY <1>1, <2>3 DEF Place, Cards
    <3> QED BY <1>3, <3>1 DEF AtWork, Extra
  <2> QED BY <1>6, <2>2, <2>3, AnswerSets
<1>7. CASE ApproveCard(r)
  BY <1>4, <1>7 DEF ApproveCard, ApproveOK
<1>8. CASE RefuseCard(r)
  <2>1. req[r].card = card /\ req[r].pc = "refused"
    BY <1>1, <1>8, Spending DEF RefuseCard, CardWrite, Tame
  <2>2. CASE card.status = Extra
    BY <1>4, <2>2 DEF WorkOK, Place, Extra
  <2>3. CASE card.status # Extra
    <3>1. Place(card') = "ESTIMATE"
      BY <1>1, <1>8, <2>1, <2>3 DEF RefuseCard, Place, Cards, Extra
    <3> QED BY <1>3, <3>1 DEF AtWork, Extra
  <2> QED BY <2>2, <2>3
<1>9. CASE HoldCard(r) \/ Pause(r) \/ Resume(r)
  BY <1>3, <1>9, HoldsStay
<1>10. CASE Write(r)
  <2>1. CASE card'.status = "ON_HOLD"
    BY <1>3, <1>10, <2>1, WriteStays
  <2>2. CASE card'.status = Extra
    BY <1>4, <1>10, <2>2, WriteStays DEF WorkOK, Place
  <2>3. CASE card'.status \in AtWork
    BY <1>4, <1>10, <2>3, WriteStays DEF Tame
  <2>4. CASE card'.status \notin AtWork \union {Extra, "ON_HOLD"}
    BY <1>3, <2>4 DEF Place
  <2> QED BY <2>1, <2>2, <2>3, <2>4
<1>11. CASE Bill(r)
  <2>1. Place(card') = "INVOICED"
    BY <1>1, <1>11 DEF Bill, Place, Cards
  <2> QED BY <1>3, <2>1 DEF AtWork, Extra
<1> QED BY <1>5, <1>6, <1>7, <1>8, <1>9, <1>10, <1>11, CardWriters DEF Acts, CardWrite

\* Extra work is being quoted, or its answer is on its way.
LEMMA QuoteStep ==
    ASSUME IInv, InOrder, NEW r \in Requests, ReadOK(req[r]), Acts(r), OnlyMoves(r), Tame(r), QuoteOK
    PROVE  QuoteOK'
<1> DEFINE Pcs == {"approve", "refuse", "refused"}
<1>0. TypeOK /\ card \in Cards
  BY DEF IInv, TypeOK
<1>1. CASE Place(card') # Extra
  BY <1>1 DEF QuoteOK
<1>2. CASE /\ Place(card') = Place(card)
           /\ Pending(Pcs) => Pending(Pcs)'
           /\ NewestIs("DRAFT") \/ NewestIs("SENT") => NewestIs("DRAFT")' \/ NewestIs("SENT")'
  BY <1>2 DEF QuoteOK
<1>3. CASE ~CardWrite(r)
  <2>1. card' = card /\ (Pending(Pcs) => Pending(Pcs)')
    BY <1>0, <1>3, CardWriters, PendingStays DEF Acts, Tame
  <2>2. CASE Create(r)
    <3>1. NewestIs("DRAFT")'
      BY <1>0, <2>2, CreateMakes, NewStatus DEF Makes
    <3> QED BY <3>1 DEF QuoteOK
  <2>3. CASE SetWrite(r)
    <3>1. CASE req[r].to = "SENT"
      BY <1>2, <2>1, <2>3, <3>1, SetSets, SetStatus DEF Sets
    <3>2. CASE req[r].to # "SENT"
      <4>1. req'[r].pc \in Pcs
        BY <1>0, <2>3, <3>2, SetSets, SetGoes
      <4> QED BY <4>1 DEF QuoteOK, Pending
    <3> QED BY <3>1, <3>2
  <2>4. CASE SendWrite(r)
    <3>1. CASE \A e \in Ests : est'[e].status = est[e].status
      BY <1>2, <2>1, <3>1, SameStatuses
    <3>2. CASE \E e \in Issued : Sets(e, "SENT")
      BY <1>2, <2>1, <3>2, SetStatus DEF Sets
    <3> QED BY <2>4, <3>1, <3>2, SendSets
  <2>5. CASE ~Create(r) /\ ~SetWrite(r) /\ ~SendWrite(r)
    BY <1>2, <1>3, <2>1, <2>5, Otherwise, SameStatuses
  <2> QED BY <2>2, <2>3, <2>4, <2>5
<1>4. CASE Answer(r) \/ ApproveCard(r) \/ RefuseCard(r) \/ Bill(r)
  <2>1. card'.status \in {"APPROVED", "ESTIMATE", "INVOICED"}
    BY <1>0, <1>4, AnswerSets DEF ApproveCard, RefuseCard, Bill, Card, Cards
  <2> QED BY <1>1, <2>1 DEF Place, Extra
<1>5. CASE HoldCard(r) \/ Pause(r) \/ Resume(r)
  BY <1>2, <1>5, HoldsStay, CardOnly, SameStatuses, OthersPending
<1>6. CASE Write(r)
  <2>1. CASE card'.status = Extra /\ req[r].card.status # "ON_HOLD"
    <3>1. NewestIs("DRAFT")'
      BY <1>0, <1>6, <2>1, WriteMakes, NewStatus DEF Makes
    <3> QED BY <3>1 DEF QuoteOK
  <2>2. CASE ~(card'.status = Extra /\ req[r].card.status # "ON_HOLD")
    <3>1. \A e \in Ests : est'[e].status = est[e].status
      BY <1>0, <1>6, <2>2, WriteMakes
    <3>2. Place(card') # Extra \/ Place(card') = Place(card)
      BY <1>6, <2>2, WriteStays DEF Place, AtWork, Extra
    <3>3. Pending(Pcs) => Pending(Pcs)'
      BY <1>6, WriteStays, OthersPending
    <3> QED BY <1>1, <1>2, <3>1, <3>2, <3>3, SameStatuses
  <2> QED BY <2>1, <2>2
<1> QED BY <1>3, <1>4, <1>5, <1>6 DEF CardWrite

\* What is being quoted is not approved yet, unless the approval is on its way.
LEMMA BadgeStep ==
    ASSUME IInv, InOrder, NEW r \in Requests, ReadOK(req[r]), Acts(r), OnlyMoves(r), Tame(r),
           ~SendsBack(r), BadgeOK
    PROVE  BadgeOK'
<1>0. TypeOK /\ card \in Cards
  BY DEF IInv, TypeOK
<1>1. CASE Place(card') # "ESTIMATE" \/ ~NewestIs("APPROVED")'
  BY <1>1 DEF BadgeOK
<1>2. CASE /\ Place(card') = Place(card)
           /\ Pending({"approve"}) => Pending({"approve"})'
           /\ NewestIs("APPROVED")' => NewestIs("APPROVED")
  BY <1>2 DEF BadgeOK
<1>3. CASE ~CardWrite(r)
  <2>1. card' = card /\ (Pending({"approve"}) => Pending({"approve"})')
    BY <1>0, <1>3, CardWriters, PendingStays DEF Acts, Tame
  <2>2. CASE Create(r)
    BY <1>0, <1>1, <2>2, CreateMakes, NewStatus DEF Makes
  <2>3. CASE SetWrite(r)
    <3>1. CASE req[r].to # "APPROVED"
      BY <1>2, <2>1, <2>3, <3>1, SetSets, SetStatus DEF Sets
    <3>2. CASE req[r].to = "APPROVED"
      <4>1. req'[r].pc = "approve"
        BY <1>0, <2>3, <3>2, SetGoes
      <4> QED BY <4>1 DEF BadgeOK, Pending
    <3> QED BY <3>1, <3>2
  <2>4. CASE SendWrite(r)
    <3>1. CASE \A e \in Ests : est'[e].status = est[e].status
      BY <1>2, <2>1, <3>1, SameStatuses
    <3>2. CASE \E e \in Issued : Sets(e, "SENT")
      BY <1>2, <2>1, <3>2, SetStatus DEF Sets
    <3> QED BY <2>4, <3>1, <3>2, SendSets
  <2>5. CASE ~Create(r) /\ ~SetWrite(r) /\ ~SendWrite(r)
    BY <1>2, <1>3, <2>1, <2>5, Otherwise, SameStatuses
  <2> QED BY <2>2, <2>3, <2>4, <2>5
<1>4. CASE Answer(r)
  <2>1. PICK e \in Issued : Sets(e, req[r].to)
    BY <1>4, AnswerSets
  <2>2. CASE req[r].to = "APPROVED"
    BY <1>1, <1>4, <2>2, AnswerSets DEF Place, Card
  <2>3. CASE req[r].to = "REJECTED"
    <3>1. ~NewestIs("APPROVED")
      BY <1>0, <1>4, <2>3, AnswerSets, Spending DEF SendsBack, CardWrite, Cards
    <3>2. ~NewestIs("APPROVED")'
      BY <2>1, <2>3, <3>1, SetStatus DEF Sets
    <3> QED BY <1>1, <3>2
  <2> QED BY <1>4, <2>2, <2>3, AnswerSets
<1>5. CASE ApproveCard(r) \/ Bill(r)
  <2>1. Place(card') # "ESTIMATE"
    BY <1>0, <1>5 DEF ApproveCard, Bill, Place, Card, Cards
  <2> QED BY <1>1, <2>1
<1>6. CASE RefuseCard(r)
  <2>1. req[r].pc = "refused" /\ ~Spent("kill")
    BY <1>0, <1>6, Spending DEF RefuseCard, CardWrite
  <2>2. card'.status # "ESTIMATE" \/ ~NewestIs("APPROVED")
    BY <2>1 DEF SendsBack
  <2>3. card'.status \in {"APPROVED", "ESTIMATE"}
    BY <1>0, <1>6 DEF RefuseCard, Cards
  <2>4. NewestIs("APPROVED")' <=> NewestIs("APPROVED")
    BY <1>6, CardOnly, SameStatuses
  <2> QED BY <1>1, <2>2, <2>3, <2>4 DEF Place
<1>7. CASE HoldCard(r) \/ Pause(r) \/ Resume(r)
  BY <1>2, <1>7, HoldsStay, CardOnly, SameStatuses, OthersPending
<1>8. CASE Write(r)
  <2>1. CASE card'.status = Extra /\ req[r].card.status # "ON_HOLD"
    BY <1>1, <2>1 DEF Place, Extra
  <2>2. CASE ~(card'.status = Extra /\ req[r].card.status # "ON_HOLD")
    <3>1. \A e \in Ests : est'[e].status = est[e].status
      BY <1>0, <1>8, <2>2, WriteMakes
    <3>2. NewestIs("APPROVED")' <=> NewestIs("APPROVED")
      BY <3>1, SameStatuses
    <3>3. CASE card'.status = "ON_HOLD"
      BY <1>2, <1>8, <3>2, <3>3, WriteStays, OthersPending
    <3>4. CASE card'.status = "ESTIMATE"
      BY <1>1, <1>8, <3>2, <3>4, WriteStays DEF SendsBack
    <3>5. CASE card'.status \notin {"ON_HOLD", "ESTIMATE"}
      BY <1>1, <3>5 DEF Place
    <3> QED BY <3>3, <3>4, <3>5
  <2> QED BY <2>1, <2>2
<1> QED BY <1>3, <1>4, <1>5, <1>6, <1>7, <1>8 DEF CardWrite

-----------------------------------------------------------------------------
(* Boards: the invariant, and whose turn it is.                            *)

\* The newest of some estimates.
LEMMA SomeNewest ==
    ASSUME NEW S \in SUBSET Ests, S # {}
    PROVE  \E e \in S : \A f \in S : f <= e
<1> DEFINE After(e) == {f \in S : f > e}
<1>1. S \subseteq Nat
  BY CardGatesAssumption
<1>2. IsFiniteSet(S)
  BY FS_Subset, BoardsAssumption
<1> DEFINE T == {After(e) : e \in S}
<1>3. T \subseteq SUBSET S /\ T # {}
  OBVIOUS
<1> HIDE DEF T
<1>4. PICK s \in T : \A t \in T : t \subseteq s => t = s
  BY <1>2, <1>3, SmallestSubset
<1> USE DEF T
<1>5. PICK e \in S : s = After(e)
  BY <1>4
<1>6. ASSUME NEW f \in S, f > e PROVE FALSE
  <2>1. f \in After(e) /\ f \notin After(f)
    BY <1>1, <1>6
  <2>2. After(f) \subseteq After(e)
    <3>1. ASSUME NEW g \in S, g > f PROVE g > e
      <4>1. e \in Nat /\ f \in Nat /\ g \in Nat
        BY <1>1
      <4> QED BY <1>6, <3>1, <4>1
    <3> QED BY <3>1
  <2>3. After(f) \in T
    OBVIOUS
  <2> QED BY <1>4, <1>5, <2>1, <2>2, <2>3
<1>7. \A f \in S : f <= e
  BY <1>1, <1>6
<1> QED BY <1>7

LEMMA NewestOne ==
    /\ Issued # {} => Newest # {}
    /\ \A e, f \in Newest : e = f
<1>1. Issued \in SUBSET Ests /\ Ests \subseteq Nat
  BY CardGatesAssumption DEF Issued
<1>2. Issued # {} => Newest # {}
  BY <1>1, SomeNewest DEF Newest
<1>3. ASSUME NEW e \in Newest, NEW f \in Newest PROVE e = f
  <2>1. e \in Nat /\ f \in Nat /\ e <= f /\ f <= e
    BY <1>1 DEF Newest
  <2> QED BY <2>1
<1> QED BY <1>2, <1>3

LEMMA BoardInitInv == BoardInit => BoardInv
<1> SUFFICES ASSUME BoardInit PROVE BoardInv
  OBVIOUS
<1>1. PICK s \in Scenarios : card = s.card /\ est = s.est
  BY DEF BoardInit, Init
<1>2. Fits(card, est) /\ IInv /\ billed = {}
  BY <1>1, BoardsAssumption, InitInv DEF BoardInit
<1> DEFINE issued == {e \in Ests : est[e].status # "NONE"}
<1> DEFINE newest == {est[e].status : e \in {x \in issued : \A f \in issued : f <= x}}
<1>3. /\ card.status = "ON_HOLD" => card.heldFrom \notin {"NONE", "ON_HOLD"}
      /\ \A e \in issued, f \in Ests : f < e => f \in issued
      /\ Place(card) \in AtWork \union {Extra} => \E e \in issued : est[e].status = "APPROVED"
      /\ Place(card) = Extra => newest \subseteq {"DRAFT", "SENT"}
      /\ Place(card) = "ESTIMATE" => "APPROVED" \notin newest
  BY <1>2 DEF Fits
<1>4. issued = Issued /\ newest = {est[e].status : e \in Newest}
  BY DEF Issued, Newest
<1> HIDE DEF issued, newest
<1>5. InOrder /\ Returns /\ WorkOK
  BY <1>3, <1>4 DEF InOrder, Returns, WorkOK, ApprovedEsts
<1>6. \A r \in Requests : req[r].pc = "idle"
  BY IdleFacts DEF BoardInit, Init
<1>7. (\A r \in Requests : ReadOK(req[r])) /\ ApproveOK
  BY <1>6, PlainReads DEF Plain, ApproveOK
<1>8. QuoteOK
  <2> SUFFICES ASSUME Place(card) = Extra PROVE NewestIs("DRAFT") \/ NewestIs("SENT")
    BY DEF QuoteOK
  <2>1. PICK e \in Newest : TRUE
    BY <1>3, <1>4, NewestOne
  <2>2. est[e].status \in {"DRAFT", "SENT"}
    BY <1>3, <1>4
  <2> QED BY <2>2 DEF NewestIs
<1>9. DueOK /\ BadgeOK
  BY <1>2, <1>3, <1>4 DEF DueOK, BadgeOK, NewestIs
<1> QED BY <1>2, <1>5, <1>7, <1>8, <1>9 DEF BoardInv

LEMMA BoardStepInv == BoardInv /\ [BoardNext]_boardVars => BoardInv'
<1> SUFFICES ASSUME BoardInv, [BoardNext]_boardVars PROVE BoardInv'
  OBVIOUS
<1>1. CASE UNCHANGED boardVars
  <2>1. card' = card /\ est' = est /\ req' = req /\ billed' = billed /\ pages' = pages
        /\ rifts' = rifts /\ UNCHANGED vars
    BY <1>1 DEF boardVars, vars
  <2>2. IInv'
    BY <2>1, StepInv DEF BoardInv
  <2>3. InOrder' /\ Returns' /\ \A r \in Requests : ReadOK(req[r])'
    BY <2>1 DEF BoardInv, InOrder, Returns, ReadOK, Issued
  <2>4. /\ Torn' <=> Torn
        /\ Issued' = Issued /\ Newest' = Newest /\ ApprovedEsts' = ApprovedEsts /\ Due' = Due
        /\ \A s : NewestIs(s)' <=> NewestIs(s)
        /\ \A pcs : Pending(pcs)' <=> Pending(pcs)
    BY <2>1 DEF Torn, Issued, Newest, ApprovedEsts, Due, NewestIs, Pending
  <2>5. pages' /\ ~Torn' => WorkOK' /\ ApproveOK' /\ QuoteOK' /\ DueOK'
    BY <2>1, <2>4 DEF BoardInv, WorkOK, ApproveOK, QuoteOK, DueOK
  <2>6. pages' /\ rifts' = {} => BadgeOK'
    BY <2>1, <2>4 DEF BoardInv, BadgeOK
  <2> QED BY <2>2, <2>3, <2>5, <2>6 DEF BoardInv
<1>2. ASSUME NEW r \in Requests, Step(r) PROVE BoardInv'
  <2>1. IInv /\ InOrder /\ Returns /\ ReadOK(req[r]) /\ Acts(r) /\ pages' = pages /\ TypeOK
    BY <1>2 DEF BoardInv, Step, Acts, IInv
  <2>2. IInv'
    BY <1>2, <2>1, StepInv DEF Step, Next
  <2>3. OnlyMoves(r) /\ ReadOK(req'[r]) /\ (req'[r].pc = "approve" => SetWrite(r))
    BY <2>1, Goes
  <2>4. InOrder' /\ Returns' /\ Issued \subseteq Issued'
    BY <2>1, IssuedStay, ReturnsStep
  <2>5. \A x \in Requests : ReadOK(req[x])'
    <3>1. ASSUME NEW x \in Requests \ {r} PROVE ReadOK(req[x])'
      BY <2>3, <2>4 DEF BoardInv, OnlyMoves, ReadOK
    <3>2. ReadOK(req[r])'
      BY <2>3, <2>4 DEF ReadOK
    <3> QED BY <3>1, <3>2
  <2>6. ASSUME pages, ~Torn' PROVE WorkOK' /\ ApproveOK' /\ QuoteOK' /\ DueOK'
    <3>1. ~Torn /\ Tame(r)
      BY <1>2, <2>6, TameStep
    <3>2. WorkOK /\ ApproveOK /\ QuoteOK /\ DueOK
      BY <2>6, <3>1 DEF BoardInv
    <3>3. DueOK'
      <4>1. CASE req[r].pc = "bill" /\ ~Spent("kill")
        <5>1. Bill(r)
          BY <2>1, <4>1, PendingMoves, Spending
        <5>2. card'.status = "INVOICED"
          BY <2>1, <5>1 DEF Bill, TypeOK, Cards
        <5> QED BY <5>2 DEF DueOK, AtWork
      <4>2. CASE billed' = billed
        BY <3>1, <3>2, <4>2, DueStep
      <4> QED BY <1>2, <4>1, <4>2 DEF Step
    <3> QED BY <2>1, <2>3, <3>1, <3>2, <3>3, WorkStep, ApproveStep, QuoteStep
  <2>7. ASSUME pages, rifts' = {} PROVE BadgeOK'
    <3>1. rifts = {} /\ ~SendsBack(r) /\ Tame(r)
      BY <1>2, <2>7, NotBack, TameStep DEF Torn
    <3> QED BY <2>1, <2>3, <2>7, <3>1, BadgeStep DEF BoardInv
  <2> QED BY <2>1, <2>2, <2>4, <2>5, <2>6, <2>7 DEF BoardInv
<1> QED BY <1>1, <1>2 DEF BoardNext

\* A technician can complete a card that is at work, or one whose quote is approved.
LEMMA Completes ==
    /\ card.status \in {"APPROVED", "REPAIR"} /\ ApprovedEsts # {} => CanComplete
    /\ card.status = "ESTIMATE" /\ NewestIs("APPROVED") => CanComplete
<1> DEFINE done == Card("TECH_COMPLETE", "NONE", "NONE")
<1>1. done.status = "TECH_COMPLETE"
  BY DEF Card
<1>2. card.status \in {"APPROVED", "REPAIR"} => done \in TechCards(card)
  BY DEF TechCards
<1>3. card.status = "ESTIMATE" /\ NewestIs("APPROVED")
         => done \in TechCards(card) /\ ApprovedEsts # {}
  BY DEF TechCards, NewestIs, ApprovedEsts, Newest
<1> QED BY <1>1, <1>2, <1>3 DEF CanComplete, OffersComplete

\* The newest approved estimate of a completed card is listed, and its bill offered.
LEMMA Bills ==
    ASSUME card.status = "TECH_COMPLETE", ApprovedEsts # {}, billed # {} => Due # {}
    PROVE  \E e \in Listed : OffersBill(e)
<1>1. CASE billed = {}
  <2>1. PICK e \in ApprovedEsts : \A f \in ApprovedEsts : f <= e
    BY SomeNewest DEF ApprovedEsts, Issued
  <2> QED BY <1>1, <2>1 DEF Listed, OffersBill, ApprovedEsts
<1>2. CASE Due # {}
  BY <1>2 DEF Due, Listed, OffersBill
<1> QED BY <1>1, <1>2

\* Somebody can price a card whose newest estimate is neither sent nor approved.
LEMMA Prices ==
    ASSUME TypeOK, card.status = "ESTIMATE", ~NewestIs("SENT"), ~NewestIs("APPROVED")
    PROVE  OffersPricing
<1> SUFFICES ASSUME Issued # {} PROVE NewestIs("DRAFT") \/ NewestIs("REJECTED")
  BY DEF OffersPricing, OffersCreate
<1>1. PICK e \in Newest : TRUE
  BY NewestOne
<1>2. est[e].status \in EstimateStatuses \ {"NONE"}
  BY DEF Newest, Issued, TypeOK, Quotes
<1> QED BY <1>2 DEF EstimateStatuses, NewestIs

LEMMA TurnIsTaken == BoardInv => TurnOffered
<1> SUFFICES ASSUME BoardInv, pages, \A r \in Requests : Free(r),
                    card.status \notin Terminal \union {"ON_HOLD"}
             PROVE  /\ rifts \subseteq {"back"} => Can(Stage)
                    /\ rifts = {} => Can(Label)
  BY DEF TurnOffered
<1>1. /\ TypeOK /\ card \in Cards /\ Place(card) = card.status
      /\ ~Pending({"approve"}) /\ ~Pending({"approve", "refuse", "refused"})
  BY DEF BoardInv, IInv, TypeOK, Place, Pending, Free
<1>2. ~(NewestIs("APPROVED") /\ NewestIs("SENT"))
  BY NewestOne DEF NewestIs
<1>3. /\ rifts \subseteq {"back"} => WorkOK /\ QuoteOK /\ DueOK
      /\ rifts = {} => BadgeOK
  BY DEF BoardInv, Torn
<1>4. card.status \in {"ARRIVED", "INSPECTION", "ESTIMATE", "APPROVED", "REPAIR", "TECH_COMPLETE",
                       "INVOICED", Extra}
  BY <1>1 DEF Cards, Statuses, Linear, Terminal, Extra
<1>5. CASE card.status \in {"ARRIVED", "INSPECTION", "INVOICED"}
  <2>1. Stage = card.status /\ Label = card.status
    BY <1>5 DEF Stage, Label
  <2> QED BY <1>5, <2>1 DEF Can, OffersInspection
<1>6. CASE card.status = "ESTIMATE"
  <2>1. CASE NewestIs("APPROVED")
    <3>1. Stage = "REPAIR"
      BY <1>2, <1>6, <2>1 DEF Stage
    <3>2. rifts # {}
      BY <1>1, <1>3, <1>6, <2>1 DEF BadgeOK
    <3> QED BY <1>6, <2>1, <3>1, <3>2, Completes DEF Can
  <2>2. CASE NewestIs("SENT")
    <3>1. Stage = "APPROVAL" /\ Label = "APPROVAL"
      BY <1>2, <1>6, <2>2 DEF Stage, Label
    <3> QED BY <2>2, <3>1 DEF Can, OffersAnswer
  <2>3. CASE ~NewestIs("APPROVED") /\ ~NewestIs("SENT")
    <3>1. Stage = "ESTIMATE" /\ Label = "ESTIMATE"
      BY <1>6, <2>3 DEF Stage, Label
    <3> QED BY <1>1, <1>6, <2>3, <3>1, Prices DEF Can
  <2> QED BY <2>1, <2>2, <2>3
<1>7. CASE card.status \in {"APPROVED", "REPAIR"}
  <2>1. Stage = "REPAIR" /\ Label = "REPAIR"
    BY <1>7 DEF Stage, Label
  <2>2. rifts \subseteq {"back"} => CanComplete
    BY <1>1, <1>3, <1>7, Completes DEF WorkOK, AtWork
  <2> QED BY <2>1, <2>2 DEF Can
<1>8. CASE card.status = "TECH_COMPLETE"
  <2>1. Stage = "TECH_COMPLETE" /\ Label = "TECH_COMPLETE"
    BY <1>8 DEF Stage, Label
  <2>2. rifts \subseteq {"back"} => \E e \in Listed : OffersBill(e)
    BY <1>1, <1>3, <1>8, Bills DEF WorkOK, DueOK, AtWork
  <2> QED BY <2>1, <2>2 DEF Can
<1>9. CASE card.status = Extra
  <2>1. Stage = "APPROVAL" /\ Label = "APPROVAL"
    BY <1>9 DEF Stage, Label, Extra
  <2>2. rifts \subseteq {"back"} => NewestIs("DRAFT") \/ NewestIs("SENT")
    BY <1>1, <1>3, <1>9 DEF QuoteOK
  <2> QED BY <1>9, <2>1, <2>2 DEF Can, OffersAnswer, OffersPricing, Extra
<1> QED BY <1>4, <1>5, <1>6, <1>7, <1>8, <1>9

\* With what the pages make of the card beside it: work is approved, an approval under
\* way is one, extra work is quoted, a bill is due, and what is being quoted is open,
\* until a card and its estimates are torn apart in one of the ways of Brings.
THEOREM BoardInvariance == BoardSpec => []BoardInv
<1>1. BoardInit => BoardInv
  BY BoardInitInv
<1>2. BoardInv /\ [BoardNext]_boardVars => BoardInv'
  BY BoardStepInv
<1> QED BY <1>1, <1>2, PTL DEF BoardSpec

\* However the requests of the advisor, the technician, the cashier and the customer
\* follow one another, whoever's turn the stepper and the badge say it is has a button
\* that is accepted (workflow-stage.ts, job-list.tsx, the job pages and the link).
THEOREM TurnsAreOffered == BoardSpec => []TurnOffered
<1>1. BoardInv => TurnOffered
  BY TurnIsTaken
<1> QED BY <1>1, BoardInvariance, PTL
=============================================================================
