----------------------------- MODULE CardGates ------------------------------
(***************************************************************************)
(* The gates of one job card: its estimates, which the customer answers    *)
(* and a revision of which holds the card, and its part requests, which    *)
(* hold it until they are closed (src/app/actions/billing.ts, public.ts,   *)
(* parts.ts, src/lib/partrequest.ts), against everything else that writes  *)
(* the card's status (jobs.ts, delivery.ts; JobCard).                      *)
(*                                                                         *)
(* A request is a sequence of database calls, one per action; two requests *)
(* interleave between their calls, and may be killed there.                *)
(*                                                                         *)
(* A line is priced at one; an amount is the set of the lines it is the    *)
(* sum of.  A line of price zero (a technician's, until it is priced) is   *)
(* left out.  A part request is for one unit of a catalogue part.          *)
(***************************************************************************)
EXTENDS JobCard, Integers, FiniteSets

CONSTANTS
    Ests,       \* Estimate rows that may be created, in the order of their creation
    Lines,      \* lines an estimate may have
    Parts,      \* PartRequest rows that may be created
    Requests,   \* requests that may be under way at once
    Scenarios   \* cards to start from, and how many requests of each sort

Sorts == {"create", "line", "toggle", "set", "send", "answer", "flip", "part", "advance",
          "cancel", "office", "tech", "bill", "kill"}

EstimateStatuses == {"NONE", "DRAFT", "SENT", "APPROVED", "REJECTED"}
PartStatuses == {"NONE", "REQUESTED", "ORDERED", "ARRIVED", "FULFILLED", "CANCELLED"}
HoldReasons  == {"AWAITING_PART", "AWAITING_APPROVAL", "OTHER"}

Cards  == [status: Statuses, heldFrom: Statuses \union {"NONE"}, why: HoldReasons \union {"NONE"}]
Quotes == [status: EstimateStatuses, sent: BOOLEAN, lines: SUBSET Lines,
           declined: SUBSET Lines, total: SUBSET Lines, approved: SUBSET Lines]

NoEstimate == [status |-> "NONE", sent |-> FALSE, lines |-> {}, declined |-> {},
               total |-> {}, approved |-> {}]

HeldForApproval(c) == c.status = "ON_HOLD" /\ c.why = "AWAITING_APPROVAL"
HeldForParts(c)    == c.status = "ON_HOLD" /\ c.why = "AWAITING_PART"

\* An estimate to start from has been summed up, and approved as it is.
Whole(q) == q.total = q.lines \ q.declined /\ (q.status = "APPROVED" => q.approved = q.total)

\* There are no part requests to start from.
ASSUME CardGatesAssumption ==
    /\ Ests \subseteq Nat
    /\ Scenarios \subseteq [card: Cards, est: [Ests -> Quotes], shelf: Nat,
                            budget: [Sorts -> Nat]]
    /\ \A s \in Scenarios : ~HeldForParts(s.card) /\ \A e \in Ests : Whole(s.est[e])

VARIABLES
    card,      \* JobCard: status, heldFrom, holdReason
    est,       \* Estimate; approved is approvedAmount, sent that sentAt is set
    pr,        \* PartRequest.status
    moved,     \* moved[q]: the net PartMovement of request q
    shelf,     \* qtyOnHand of the part
    req,       \* req[r]: a request's locals
    slips,     \* history: rows a write landed on that were no longer what was read
    budget     \* what is left of the scenario's budget

partVars == <<pr, moved, shelf>>
vars == <<card, est, partVars, req, slips, budget>>

Spend(k) == budget[k] > 0 /\ budget' = [budget EXCEPT ![k] = @ - 1]

-----------------------------------------------------------------------------
(* Requests.                                                               *)

Card(status, heldFrom, why) == [status |-> status, heldFrom |-> heldFrom, why |-> why]

NoCard == Card("ARRIVED", "NONE", "NONE")
Idle == [pc |-> "idle", est |-> {}, part |-> {}, line |-> {}, to |-> "NONE", off |-> FALSE,
         sum |-> {}, quote |-> NoEstimate, from |-> "NONE", card |-> NoCard, put |-> NoCard]

Free(r)     == req[r].pc = "idle"
Finish(r)   == req' = [req EXCEPT ![r] = Idle]
Goto(r, pc) == req' = [req EXCEPT ![r].pc = pc]

\* A request about estimate e, which it has read.
About(r, pc, e, l, to) ==
    /\ Free(r)
    /\ req' = [req EXCEPT ![r] = [Idle EXCEPT !.pc = pc, !.est = {e}, !.line = l, !.to = to,
                                              !.quote = est[e]]]

Slip(rows) == slips' = slips \union rows

Accepted(e) == est[e].lines \ est[e].declined
Issued  == {e \in Ests : est[e].status # "NONE"}
Newest  == {e \in Issued : \A f \in Issued : f <= e}
NextRow   == {e \in Ests \ Issued : \A f \in Ests \ Issued : e <= f}

-----------------------------------------------------------------------------
(* Making and editing an estimate.                                         *)

\* createEstimateAction: unless there is a DRAFT; from the newest if REJECTED ...
CreateRead(r) ==
    /\ \A e \in Issued : est[e].status # "DRAFT"
    /\ Free(r)
    /\ \E quote \in {est[e] : e \in {x \in Newest : est[x].status = "REJECTED"}}
                    \union {NoEstimate : e \in {x \in {0} : \A y \in Newest :
                                                              est[y].status # "REJECTED"}} :
          req' = [req EXCEPT ![r] = [Idle EXCEPT !.pc = "create", !.quote = quote]]
    /\ Spend("create")
    /\ UNCHANGED <<card, est, partVars, slips>>

\* ... whose lines it takes over, to be summed up again.
Create(r) ==
    \E e \in NextRow :
        LET was == req[r].quote IN
        /\ req[r].pc = "create"
        /\ est' = [est EXCEPT ![e] = [NoEstimate EXCEPT !.status = "DRAFT", !.lines = was.lines,
                                         !.declined = was.declined, !.total = was.total]]
        /\ IF was = NoEstimate THEN Finish(r)
           ELSE req' = [req EXCEPT ![r] = [Idle EXCEPT !.pc = "sum", !.est = {e}]]
        /\ UNCHANGED <<card, partVars, slips, budget>>

\* addEstimateLineAction, addLineFromPartAction (nothing goes out);
\* updateEstimateLinePriceAction, updateEstimateLineAction (another line in the place
\* of one); removeEstimateLineAction (nothing comes in): the check for DRAFT.
LineRead(r, e, out, in) ==
    /\ est[e].status = "DRAFT" /\ out \subseteq est[e].lines /\ (in \/ out # {})
    /\ Free(r)
    /\ req' = [req EXCEPT ![r] = [Idle EXCEPT !.pc = "line", !.est = {e}, !.line = out,
                                              !.off = in]]
    /\ Spend("line")
    /\ UNCHANGED <<card, est, partVars, slips>>

\* A customer's toggle holds its line's row until it commits.
LineLocked(e, ls) == \E r \in Requests : req[r].pc = "flipped" /\ e \in req[r].est
                                            /\ req[r].line \intersect ls # {}

LineWrite(r) ==
    \E e \in req[r].est, in \in SUBSET Lines :
        /\ req[r].pc = "line" /\ ~LineLocked(e, req[r].line)
        /\ in \intersect est[e].lines = {} /\ Cardinality(in) = IF req[r].off THEN 1 ELSE 0
        /\ req[r].line \subseteq est[e].lines \/ in = {}
        /\ est' = [est EXCEPT ![e].lines = (@ \ req[r].line) \union in,
                              ![e].declined = @ \ req[r].line]
        /\ Slip({<<"line", f>> : f \in {x \in {e} : est[x].status # "DRAFT"}})
        /\ Goto(r, "sum")
        /\ UNCHANGED <<card, partVars, budget>>

\* The update of a line that is gone fails, and with it the request.
LineGone(r) ==
    \E e \in req[r].est :
        /\ req[r].pc \in {"line", "toggle", "flip"} /\ ~(req[r].line \subseteq est[e].lines)
        /\ req[r].pc = "line" => req[r].off
        /\ Finish(r)
        /\ UNCHANGED <<card, est, partVars, slips, budget>>

\* toggleEstimateLineAction asks nothing of the estimate.
ToggleRead(r, e, l) ==
    /\ l \in est[e].lines
    /\ Free(r)
    /\ req' = [req EXCEPT ![r] = [Idle EXCEPT !.pc = "toggle", !.est = {e}, !.line = {l},
                                              !.off = l \notin est[e].declined]]
    /\ Spend("toggle")
    /\ UNCHANGED <<card, est, partVars, slips>>

Toggled(e, ls, off) == IF off THEN est[e].declined \union ls ELSE est[e].declined \ ls

ToggleWrite(r) ==
    \E e \in req[r].est :
        /\ req[r].pc = "toggle" /\ ~LineLocked(e, req[r].line)
        /\ req[r].line \subseteq est[e].lines
        /\ est' = [est EXCEPT ![e].declined = Toggled(e, req[r].line, req[r].off)]
        /\ Slip({<<"line", f>> : f \in {x \in {e} : est[x].status # "DRAFT"}})
        /\ Goto(r, "sum")
        /\ UNCHANGED <<card, partVars, budget>>

\* Bug: the lines the customer declined count as well.
SumReadAll(r) ==
    \E e \in req[r].est :
        /\ req[r].pc = "sum"
        /\ req' = [req EXCEPT ![r].pc = "total", ![r].sum = est[e].lines,
                              ![r].quote = est[e]]
        /\ UNCHANGED <<card, est, partVars, slips, budget>>

\* recomputeEstimate: the lines are read, and the total is written.
SumRead(r) ==
    \E e \in req[r].est :
        /\ req[r].pc = "sum"
        /\ req' = [req EXCEPT ![r].pc = "total", ![r].sum = Accepted(e),
                              ![r].quote = est[e]]
        /\ UNCHANGED <<card, est, partVars, slips, budget>>

TotalWrite(r) ==
    \E e \in req[r].est :
        /\ req[r].pc = "total"
        /\ est' = [est EXCEPT ![e].total = req[r].sum]
        /\ Slip({<<"total", f>> : f \in {x \in {e} : est[x] # req[r].quote}}
                \union {<<"line", f>> : f \in {x \in {e} : est[x].status # "DRAFT"}})
        /\ Finish(r)
        /\ UNCHANGED <<card, partVars, budget>>

-----------------------------------------------------------------------------
(* The customer's link (public.ts).                                        *)

\* toggleLinePublic: while the estimate is SENT ...
FlipRead(r, e, l) ==
    /\ est[e].status = "SENT" /\ l \in est[e].lines
    /\ Free(r)
    /\ req' = [req EXCEPT ![r] = [Idle EXCEPT !.pc = "flip", !.est = {e}, !.line = {l},
                                              !.off = l \notin est[e].declined]]
    /\ Spend("flip")
    /\ UNCHANGED <<card, est, partVars, slips>>

\* ... a transaction: the line, then the sum of the lines as they are committed,
\* its own aside ...
Flip(r) ==
    \E e \in req[r].est :
        /\ req[r].pc = "flip" /\ ~LineLocked(e, req[r].line)
        /\ req[r].line \subseteq est[e].lines
        /\ req' = [req EXCEPT ![r].pc = "flipped",
                              ![r].sum = est[e].lines \ Toggled(e, req[r].line, req[r].off),
                              ![r].quote = est[e]]
        /\ UNCHANGED <<card, est, partVars, slips, budget>>

\* ... and the total.
FlipCommit(r) ==
    \E e \in req[r].est :
        /\ req[r].pc = "flipped"
        /\ est' = [est EXCEPT ![e].declined = Toggled(e, req[r].line, req[r].off),
                              ![e].total = req[r].sum]
        /\ Slip({<<"total", f>> : f \in {x \in {e} : est[x] # req[r].quote}}
                \union {<<"line", f>> : f \in {x \in {e} : est[x].status # "SENT"}})
        /\ Finish(r)
        /\ UNCHANGED <<card, partVars, budget>>

\* Bug: the link asks only whether the estimate was sent.
AnswerReadSent(r, e, to) ==
    /\ est[e].sent
    /\ About(r, "answer", e, {}, to)
    /\ Spend("answer")
    /\ UNCHANGED <<card, est, partVars, slips>>

\* approveEstimatePublic, rejectEstimatePublic: while it is SENT ...
AnswerRead(r, e, to) ==
    /\ est[e].status = "SENT"
    /\ About(r, "answer", e, {}, to)
    /\ Spend("answer")
    /\ UNCHANGED <<card, est, partVars, slips>>

Answered(quote, to, amount) ==
    IF to = "APPROVED" THEN [quote EXCEPT !.status = to, !.approved = amount]
                       ELSE [quote EXCEPT !.status = to]

\* ... both rows in one transaction; a rejection leaves the hold's columns.
Answer(r) ==
    \E e \in req[r].est :
        /\ req[r].pc = "answer"
        /\ est' = [est EXCEPT ![e] = Answered(@, req[r].to, req[r].quote.total)]
        /\ card' = IF req[r].to = "APPROVED" THEN Card("APPROVED", "NONE", "NONE")
                   ELSE [card EXCEPT !.status = "ESTIMATE"]
        /\ Slip({<<"answer", f>> : f \in {x \in {e} : est[x] # req[r].quote}})
        /\ Finish(r)
        /\ UNCHANGED <<partVars, budget>>

-----------------------------------------------------------------------------
(* The staff's side: setEstimateStatusAction, sendEstimateToCustomerAction. *)

\* Whatever the estimate's status ...
SetRead(r, e, to) ==
    /\ e \in Issued
    /\ About(r, "set", e, {}, to)
    /\ Spend("set")
    /\ UNCHANGED <<card, est, partVars, slips>>

\* ... the estimate first, the card in a later call.
SetWrite(r) ==
    \E e \in req[r].est :
        LET to == req[r].to IN
        /\ req[r].pc = "set"
        /\ est' = [est EXCEPT ![e] = IF to = "SENT" THEN [@ EXCEPT !.status = to, !.sent = TRUE]
                                     ELSE Answered(@, to, req[r].quote.total)]
        /\ Slip({<<"answer", f>> : f \in {x \in {e} : est[x] # req[r].quote}})
        /\ Goto(r, CASE to = "APPROVED" -> "approve" [] to = "REJECTED" -> "refuse"
                     [] OTHER -> "prior")
        /\ UNCHANGED <<card, partVars, budget>>

ApproveCard(r) ==
    /\ req[r].pc = "approve"
    /\ card' = Card("APPROVED", "NONE", "NONE")
    /\ Finish(r)
    /\ UNCHANGED <<est, partVars, slips, budget>>

RefuseRead(r) ==
    /\ req[r].pc = "refuse"
    /\ req' = [req EXCEPT ![r].pc = "refused", ![r].card = card]
    /\ UNCHANGED <<card, est, partVars, slips, budget>>

RefuseCard(r) ==
    /\ req[r].pc = "refused"
    /\ card' = [card EXCEPT !.status =
                   IF req[r].card.status = "EXTRA_WORK_AWAITING_APPROVAL" THEN "APPROVED"
                                                                          ELSE "ESTIMATE"]
    /\ Finish(r)
    /\ UNCHANGED <<est, partVars, slips, budget>>

\* Not of an estimate that has its answer ...
SendRead(r, e) ==
    /\ est[e].status \in {"DRAFT", "SENT"}
    /\ About(r, "send", e, {}, "SENT")
    /\ Spend("send")
    /\ UNCHANGED <<card, est, partVars, slips>>

\* ... by then; the first time it becomes SENT.
SendWrite(r) ==
    \E e \in req[r].est :
        LET first == ~req[r].quote.sent IN
        /\ req[r].pc = "send"
        /\ est' = [est EXCEPT ![e].sent = TRUE, ![e].status = IF first THEN "SENT" ELSE @]
        /\ IF first THEN Goto(r, "prior") ELSE Finish(r)
        /\ UNCHANGED <<card, partVars, slips, budget>>

\* isQuoteIncrease over the largest total approved so far.
OthersApproved(e) == {f \in Ests \ {e} : est[f].status = "APPROVED"}
QuoteIncrease(e, total) ==
    /\ \E f \in OthersApproved(e) : est[f].total # {}
    /\ \A f \in OthersApproved(e) : Cardinality(est[f].total) < Cardinality(total)

\* An increase holds the card: the approved totals are read ...
PriorRead(r) ==
    \E e \in req[r].est :
        /\ req[r].pc = "prior"
        /\ IF QuoteIncrease(e, req[r].quote.total) THEN Goto(r, "gate") ELSE Finish(r)
        /\ UNCHANGED <<card, est, partVars, slips, budget>>

\* ... the card, which is left as it is if it is on hold, closed or not ...
GateRead(r) ==
    /\ req[r].pc = "gate"
    /\ IF card.status = "ON_HOLD" THEN Finish(r)
       ELSE req' = [req EXCEPT ![r].pc = "hold", ![r].card = card]
    /\ UNCHANGED <<card, est, partVars, slips, budget>>

\* ... and held.
HoldCard(r) ==
    /\ req[r].pc = "hold"
    /\ card' = Card("ON_HOLD", req[r].card.status, "AWAITING_APPROVAL")
    /\ Finish(r)
    /\ UNCHANGED <<est, partVars, slips, budget>>

-----------------------------------------------------------------------------
(* Part requests.                                                          *)

OpenParts == {q \in Parts : pr[q] \in {"REQUESTED", "ORDERED", "ARRIVED"}}

\* Bug: a closed card is paused.
PausableClosed(status) == status # "ON_HOLD"

Pausable(status) == status \notin {"ON_HOLD", "CANCELLED", "DELIVERED"}

\* requestPartAction: the card's check ...
PartRead(r) ==
    /\ Free(r)
    /\ card.status \notin {"TECH_COMPLETE", "INVOICED", "DELIVERED", "CANCELLED"}
    /\ ~HeldForApproval(card)
    /\ req' = [req EXCEPT ![r] = [Idle EXCEPT !.pc = "part", !.card = card]]
    /\ Spend("part")
    /\ UNCHANGED <<card, est, partVars, slips>>

\* ... the request, of a part that is or is not in stock; if not, the card is to be
\* held, if it could be when it was read ...
Request(r) ==
    \E q \in Parts :
        /\ req[r].pc = "part" /\ pr[q] = "NONE"
        /\ pr' = [pr EXCEPT ![q] = "REQUESTED"]
        /\ IF shelf = 0 /\ Pausable(req[r].card.status) THEN Goto(r, "pause") ELSE Finish(r)
        /\ Slip({<<"late", q>> : x \in {y \in Requests : req[y].pc = "resume"}})
        /\ UNCHANGED <<card, est, moved, shelf, budget>>

\* ... and is; ordering a part goes on to maybeResumeJob.
Pause(r) ==
    /\ req[r].pc = "pause"
    /\ card' = Card("ON_HOLD", req[r].card.status, "AWAITING_PART")
    /\ Slip({<<"hold", 0>> : s \in {OpenParts} \intersect {{}}})
    /\ IF req[r].to = "ORDERED" THEN Goto(r, "resume?") ELSE Finish(r)
    /\ UNCHANGED <<est, partVars, budget>>

\* TRANSITIONS.
MovesOn == {<<"REQUESTED", "ORDERED">>, <<"REQUESTED", "FULFILLED">>,
            <<"REQUESTED", "CANCELLED">>, <<"ORDERED", "ARRIVED">>, <<"ORDERED", "CANCELLED">>,
            <<"ARRIVED", "FULFILLED">>, <<"ARRIVED", "ORDERED">>, <<"ARRIVED", "CANCELLED">>}

\* Bug: a part returned to the supplier stays on the shelf's books.
StockDeltaKept(from, to) ==
    CASE to = "ARRIVED" -> 1 [] to = "FULFILLED" -> -1 [] OTHER -> 0

\* stockDelta, of one unit.
StockDelta(from, to) ==
    CASE to = "ARRIVED" -> 1
      [] to = "FULFILLED" \/ (from = "ARRIVED" /\ to = "ORDERED") -> -1
      [] OTHER -> 0

\* advanceRequest: the status is read ...
AdvanceRead(r, q, to) ==
    /\ Free(r) /\ <<pr[q], to>> \in MovesOn
    /\ req' = [req EXCEPT ![r] = [Idle EXCEPT !.pc = "advance", !.part = {q}, !.to = to,
                                              !.from = pr[q]]]
    /\ Spend("advance")
    /\ UNCHANGED <<card, est, partVars, slips>>

\* ... and claimed, with the stock, in a transaction that fails if it has changed or
\* the shelf has too little.
Advance(r) ==
    \E q \in req[r].part :
        LET from == req[r].from
            to == req[r].to IN
        /\ req[r].pc = "advance"
        /\ IF pr[q] = from /\ shelf + StockDelta(from, to) >= 0
           THEN /\ pr' = [pr EXCEPT ![q] = to]
                /\ shelf' = shelf + StockDelta(from, to)
                /\ moved' = [moved EXCEPT ![q] = @ + StockDelta(from, to)]
                /\ Goto(r, IF to = "ORDERED" THEN "pause?" ELSE "resume?")
           ELSE Finish(r) /\ UNCHANGED partVars
        /\ UNCHANGED <<card, est, slips, budget>>

\* An order holds the card, if it can be held.
PauseRead(r) ==
    /\ req[r].pc = "pause?"
    /\ IF Pausable(card.status)
       THEN req' = [req EXCEPT ![r].pc = "pause", ![r].card = card]
       ELSE Goto(r, "resume?")
    /\ UNCHANGED <<card, est, partVars, slips, budget>>

\* cancelOwnPartRequestAction: while it is REQUESTED ...
CancelRead(r, q) ==
    /\ Free(r) /\ pr[q] = "REQUESTED"
    /\ req' = [req EXCEPT ![r] = [Idle EXCEPT !.pc = "cancel", !.part = {q}]]
    /\ Spend("cancel")
    /\ UNCHANGED <<card, est, partVars, slips>>

\* ... by id.
Cancel(r) ==
    \E q \in req[r].part :
        /\ req[r].pc = "cancel"
        /\ pr' = [pr EXCEPT ![q] = "CANCELLED"]
        /\ Slip({<<"cancel", p>> : p \in {x \in {q} : pr[x] # "REQUESTED"}})
        /\ Goto(r, "resume?")
        /\ UNCHANGED <<card, est, moved, shelf, budget>>

\* Bug: any hold is ended by the last part.
ResumeReadAny(r) ==
    /\ req[r].pc = "resume?"
    /\ IF card.status = "ON_HOLD"
       THEN req' = [req EXCEPT ![r].pc = "count", ![r].card = card]
       ELSE Finish(r)
    /\ UNCHANGED <<card, est, partVars, slips, budget>>

\* maybeResumeJob: the card, held for parts ...
ResumeRead(r) ==
    /\ req[r].pc = "resume?"
    /\ IF HeldForParts(card)
       THEN req' = [req EXCEPT ![r].pc = "count", ![r].card = card]
       ELSE Finish(r)
    /\ UNCHANGED <<card, est, partVars, slips, budget>>

\* Bug: only parts still to be ordered keep the card.
ResumeCountOrdered(r) ==
    /\ req[r].pc = "count"
    /\ IF \A q \in Parts : pr[q] # "REQUESTED" THEN Goto(r, "resume") ELSE Finish(r)
    /\ UNCHANGED <<card, est, partVars, slips, budget>>

\* ... the requests that are open ...
ResumeCount(r) ==
    /\ req[r].pc = "count"
    /\ IF OpenParts = {} THEN Goto(r, "resume") ELSE Finish(r)
    /\ UNCHANGED <<card, est, partVars, slips, budget>>

\* ... and back to where it was held.
Resume(r) ==
    /\ req[r].pc = "resume"
    /\ card' = Card(IF req[r].card.heldFrom = "NONE" THEN "REPAIR" ELSE req[r].card.heldFrom,
                    "NONE", "NONE")
    /\ Finish(r)
    /\ UNCHANGED <<est, partVars, slips, budget>>

-----------------------------------------------------------------------------
(* What else writes the card.                                              *)

\* The office's actions; only a HOLD has a reason, and not that of a quote.
OfficeCards(c) ==
    {Card(p.status, p.heldFrom, "NONE") : p \in {x \in OfficePuts(c) : x.status # "ON_HOLD"}}
    \union {Card(p.status, p.heldFrom, w) : p \in {x \in OfficePuts(c) : x.status = "ON_HOLD"},
                                            w \in {"AWAITING_PART", "OTHER"}}

\* sendForEstimateAction, markCompleteAction, sendForReestimateAction.
TechCards(c) ==
    {Card("ESTIMATE", "NONE", "NONE") :
        s \in {c.status} \intersect {"ARRIVED", "INSPECTION", "ON_HOLD"}}
    \union {Card("TECH_COMPLETE", "NONE", "NONE") :
        s \in {x \in {c.status} : \/ x \in {"APPROVED", "REPAIR"}
                                  \/ x = "ESTIMATE" /\ \E e \in Newest : est[e].status = "APPROVED"}}
    \union {Card("EXTRA_WORK_AWAITING_APPROVAL", "NONE", "NONE") :
        s \in {c.status} \intersect {"APPROVED", "REPAIR"}}

DecideRead(r, sort, cards) ==
    \E put \in cards :
        /\ Free(r)
        /\ req' = [req EXCEPT ![r] = [Idle EXCEPT !.pc = "write", !.card = card, !.put = put]]
        /\ Spend(sort)
        /\ UNCHANGED <<card, est, partVars, slips>>

\* The write; extra work comes with a DRAFT of its own, a card resumed to it does not.
Write(r) ==
    LET put == req[r].put IN
    /\ req[r].pc = "write"
    /\ card' = put
    /\ IF put.status = "EXTRA_WORK_AWAITING_APPROVAL" /\ req[r].card.status # "ON_HOLD"
       THEN \E e \in NextRow : est' = [est EXCEPT ![e] = [NoEstimate EXCEPT !.status = "DRAFT"]]
       ELSE UNCHANGED est
    /\ Slip({<<"hold", 0>> : s \in {x \in {put} : HeldForParts(x) /\ OpenParts = {}}})
    /\ Finish(r)
    /\ UNCHANGED <<partVars, budget>>

\* generateInvoiceAction (Invoices): of an approved estimate, whatever the card.
BillRead(r, e) ==
    /\ est[e].status = "APPROVED"
    /\ About(r, "bill", e, {}, "NONE")
    /\ Spend("bill")
    /\ UNCHANGED <<card, est, partVars, slips>>

Bill(r) ==
    /\ req[r].pc = "bill"
    /\ card' = [card EXCEPT !.status = "INVOICED"]
    /\ Finish(r)
    /\ UNCHANGED <<est, partVars, slips, budget>>

\* A function is killed between two calls.
Kill(r) ==
    /\ ~Free(r) /\ Spend("kill")
    /\ Slip({<<"total", e>> : e \in {x \in req[r].est : req[r].pc \in {"sum", "total"}}}
            \union {<<"hold", 0>> : s \in {req[r].pc} \intersect
                                          {"pause?", "pause", "resume?", "count", "resume"}})
    /\ Finish(r)
    /\ UNCHANGED <<card, est, partVars>>

-----------------------------------------------------------------------------
Init ==
    /\ \E s \in Scenarios : card = s.card /\ est = s.est /\ shelf = s.shelf /\ budget = s.budget
    /\ pr = [q \in Parts |-> "NONE"] /\ moved = [q \in Parts |-> 0]
    /\ req = [r \in Requests |-> Idle] /\ slips = {}

EstimateStep(r) ==
    \/ CreateRead(r) \/ Create(r)
    \/ LineWrite(r) \/ LineGone(r) \/ ToggleWrite(r) \/ SumRead(r) \/ TotalWrite(r)
    \/ Flip(r) \/ FlipCommit(r) \/ Answer(r)
    \/ SetWrite(r) \/ ApproveCard(r) \/ RefuseRead(r) \/ RefuseCard(r)
    \/ SendWrite(r) \/ PriorRead(r) \/ GateRead(r) \/ HoldCard(r)
    \/ \E e \in Ests : SendRead(r, e)
    \/ \E e \in Ests, l \in Lines : ToggleRead(r, e, l) \/ FlipRead(r, e, l)
    \/ \E e \in Ests, to \in {"APPROVED", "REJECTED"} : AnswerRead(r, e, to)
    \/ \E e \in Ests, to \in {"SENT", "APPROVED", "REJECTED"} : SetRead(r, e, to)
    \/ \E e \in Ests, in \in BOOLEAN, out \in {{}} \union {{l} : l \in Lines} :
          LineRead(r, e, out, in)

PartStep(r) ==
    \/ PartRead(r) \/ Request(r) \/ Advance(r) \/ PauseRead(r) \/ Pause(r)
    \/ Cancel(r) \/ ResumeRead(r) \/ ResumeCount(r) \/ Resume(r)
    \/ \E q \in Parts : CancelRead(r, q) \/ \E to \in PartStatuses : AdvanceRead(r, q, to)

CardStep(r) ==
    \/ DecideRead(r, "office", OfficeCards(card)) \/ DecideRead(r, "tech", TechCards(card))
    \/ Write(r) \/ Bill(r) \/ Kill(r)
    \/ \E e \in Ests : BillRead(r, e)

Next == \E r \in Requests : EstimateStep(r) \/ PartStep(r) \/ CardStep(r)

Spec == Init /\ [][Next]_vars

-----------------------------------------------------------------------------
(* Properties.                                                             *)

PCs == {"idle", "create", "line", "toggle", "sum", "total", "flip", "flipped", "answer", "set",
        "approve", "refuse", "refused", "send", "prior", "gate", "hold", "part", "pause",
        "advance", "pause?", "cancel", "resume?", "count", "resume", "write", "bill"}
Reqs == [pc: PCs, est: SUBSET Ests, part: SUBSET Parts, line: SUBSET Lines,
         to: EstimateStatuses \union PartStatuses, off: BOOLEAN, sum: SUBSET Lines,
         quote: Quotes, from: PartStatuses, card: Cards, put: Cards]

\* Every variable has its type.
TypeOK ==
    /\ card \in Cards /\ est \in [Ests -> Quotes]
    /\ pr \in [Parts -> PartStatuses] /\ moved \in [Parts -> Int] /\ shelf \in Nat
    /\ req \in [Requests -> Reqs] /\ budget \in [Sorts -> Nat]

Clean(e, whats) == \A what \in whats : <<what, e>> \notin slips

\* Between requests an estimate's total is the sum of the lines not declined, and an
\* approval records the total the customer saw (billing.ts: "Totals reflect only
\* ACCEPTED lines"; "Record the approval (audit)"); unless a total was written from
\* lines that had changed by then or never written, or an estimate was edited after
\* it was sent or approved by someone who saw another state of it.
EstimateAddsUp ==
    \A e \in Ests :
        (\A r \in Requests : e \in req[r].est => req[r].pc \notin {"sum", "total"}) =>
            /\ Clean(e, {"total"}) => est[e].total = Accepted(e)
            /\ Clean(e, {"line", "answer"}) /\ est[e].status = "APPROVED"
                  => est[e].approved = est[e].total

\* An answer stands: nothing but the staff's own setEstimateStatusAction changes an
\* estimate that is APPROVED or REJECTED, unless it was read before the answer.
DecisionStands ==
    [][\A e \in Ests :
          est[e].status \in {"APPROVED", "REJECTED"} /\ est'[e].status # est[e].status =>
              \E r \in Requests : /\ req'[r] # req[r] /\ e \in req[r].est
                                 /\ (req[r].pc = "set" \/ req[r].quote # est[e])]_vars

\* A card held for a quote is let go by an answer, by a person's decision or by the
\* bill, never by the parts counter, unless that had read the card before the hold
\* (partrequest.ts: "a parts-resume can never override an AWAITING_APPROVAL (quote)
\* hold").
ApprovalHoldStands ==
    [][HeldForApproval(card) /\ card' # card =>
          \E r \in Requests :
              /\ req'[r] # req[r]
              /\ \/ req[r].pc \in {"answer", "approve", "refused", "write", "bill"}
                 \/ req[r].card # card]_vars

\* A delivered or cancelled card changes only through an estimate, the bill or a HOLD
\* of a delivered card, none of which look, or by a request that had read it before
\* (jobcard-status.ts: such a card has no actions).
ClosedToTheFloor ==
    [][card.status \in Terminal /\ card'.status # card.status =>
          \E r \in Requests :
              /\ req'[r] # req[r]
              /\ \/ req[r].pc \in {"answer", "approve", "refused", "hold", "bill"}
                 \/ card.status = "DELIVERED" /\ card'.status = "ON_HOLD" /\ req[r].pc = "write"
                 \/ req[r].card # card]_vars

\* A request moves the stock by what its status says, whoever else moves it at the
\* same time: nothing until it arrives, one in on arrival, one out when it is fitted,
\* and back again when it is returned, and never below nothing (parts.ts: "instead of
\* applying stock effects twice"; "qtyOnHand can never go
\* below zero, even under concurrency"); unless its technician cancelled it by id after it was fitted.
StockMovesOnce ==
    /\ shelf >= 0
    /\ \A q \in Parts :
          /\ pr[q] \in {"NONE", "REQUESTED", "ORDERED"} => moved[q] = 0
          /\ pr[q] = "ARRIVED" => moved[q] = 1
          /\ pr[q] = "FULFILLED" => moved[q] \in {0, -1}
          /\ pr[q] = "CANCELLED" /\ <<"cancel", q>> \notin slips => moved[q] \in {0, 1}

\* Between the steps of part requests, a card held for parts has an open one to wait
\* for, unless the hold was written when it had none or a request was killed; and a
\* card is not let go while a request is open that was open when they were counted
\* (parts.ts: "resume the job if it was held only for parts and there are no more
\* open requests").
PartsHoldIsJustified ==
    /\ ( /\ <<"hold", 0>> \notin slips /\ HeldForParts(card)
         /\ \A r \in Requests : req[r].pc \notin {"pause?", "resume?", "count", "resume"} )
            => OpenParts # {}
    /\ \A r \in Requests : req[r].pc = "resume"
                               => \A q \in OpenParts : <<"late", q>> \in slips

\* With nothing under way, no work goes on while a quote above what was approved
\* waits for the customer (billing.ts: "must be re-approved by the customer before
\* work continues").
NoWorkBeforeReapproval ==
    (\A r \in Requests : Free(r)) =>
        \A e \in Ests : est[e].status = "SENT" /\ QuoteIncrease(e, est[e].total)
                           => card.status \notin {"APPROVED", "REPAIR"}

=============================================================================
