----------------------------- MODULE Purchasing -----------------------------
(***************************************************************************)
(* Purchase orders, goods receipt and return, and the stock of parts       *)
(* (src/app/actions/purchasing.ts, inventory.ts, src/lib/part-cost-blend.ts*)
(* and the stock side of parts.ts), composed with Payables.                *)
(*                                                                         *)
(* A request reads, decides, and writes later; READ COMMITTED, with row    *)
(* locks held to the end of a transaction.  A receipt's transaction is     *)
(* three steps, since what it reads in between is not locked: it claims    *)
(* its lines and reads the parts (Claim), takes the parts' row locks and   *)
(* reads the order's other lines (Count), and commits.  The code goes line *)
(* by line; a receipt here claims all its lines first, and has at most one *)
(* line of each part.                                                      *)
(*                                                                         *)
(* Prices are left out but for two things: whether a line has one yet, and *)
(* which receipts a part's cost is the average of.                         *)
(***************************************************************************)
EXTENDS Payables, FiniteSets, Functions

CONSTANTS
    Orders, Lines, Parts,
    OrderOf,          \* OrderOf[l]: the order line l belongs to
    DestinationOf,    \* a part, Direct (to a job card), or Nowhere
    Direct, Nowhere,
    Requests,         \* requests on orders and parts that may be under way at once
    MaxQty,           \* the largest quantity on a form
    PayablesEnabled,  \* the garage's rollout flag
    Scenarios         \* drafts and parts to start from, and how many requests of
                      \* each sort there may be

Sorts == {"edit", "status", "receive", "return", "adjust", "reprice", "use",
          "pay", "void", "expense", "kill"}

Intents == {"QUOTE", "ORDER"}

\* createPurchaseOrderAction and createPoFromEstimateAction make a DRAFT with the
\* lines of the form, of which an ORDER has none without a destination;
\* createPartAction makes a part with its opening stock.
NoLine == [live |-> FALSE, qty |-> 0, priced |-> FALSE, recd |-> 0, retd |-> 0, ver |-> 0]
NewLines == [live: {TRUE}, qty: 1..MaxQty, priced: BOOLEAN, recd: {0}, retd: {0}, ver: {0}]

ASSUME PurchasingAssumption ==
    /\ OrderOf \in [Lines -> Orders]
    /\ DestinationOf \in [Lines -> Parts \union {Direct, Nowhere}]
    /\ Direct \notin Parts /\ Nowhere \notin Parts /\ IsFiniteSet(Lines)
    /\ MaxQty \in Nat /\ PayablesEnabled \in BOOLEAN
    /\ Scenarios \subseteq [intent: [Orders -> Intents], lines: [Lines -> {NoLine} \union NewLines],
                            stock: [Parts -> Nat], budget: [Sorts -> Nat]]
    /\ \A s \in Scenarios, l \in Lines :
          s.lines[l].live /\ DestinationOf[l] = Nowhere => s.intent[OrderOf[l]] = "QUOTE"

VARIABLES
    po,         \* PurchaseOrder
    line,       \* PurchaseOrderLine; ver is updatedAt, new with every update
    fitted,     \* fitted[l]: JobPartReceipt quantities of line l
    part,       \* Part: qtyOnHand, and the lines its cost is blended from
    moved,      \* moved[p]: PartMovement deltas, of orders and of everything else,
                \* and the opening stock
    req,        \* req[r]: a request's locals
    overtaken,  \* history: <<what, row>> written after the row had changed
    budget      \* what is left of the scenario's budget

orderVars == <<po, line, fitted, overtaken>>
stockVars == <<part, moved>>
vars == <<po, line, fitted, part, moved, req, overtaken, budget, payVars>>

Spend(k) == budget[k] > 0 /\ budget' = [budget EXCEPT ![k] = @ - 1]

-----------------------------------------------------------------------------
(* Rows and requests.                                                      *)

OrderStatuses == {"DRAFT", "ORDERED", "PARTIALLY_RECEIVED", "RECEIVED", "CANCELLED"}

Zero == [l \in Lines |-> 0]

\* take: quantities on a receipt or return form; lines, status, parts: what the
\* request has read; put: what it is to write; full: whether every line is in.
Idle == [pc |-> "idle", order |-> {}, line |-> {}, part |-> {}, take |-> Zero,
         lines |-> [l \in Lines |-> NoLine], status |-> "DRAFT", parts |-> <<>>,
         put |-> NoLine, next |-> "DRAFT", full |-> FALSE]

Free(r)   == req[r].pc = "idle"
Finish(r) == req' = [req EXCEPT ![r] = Idle]

LinesOf(o)  == {l \in Lines : OrderOf[l] = o /\ line[l].live}
Taken(take) == {l \in Lines : take[l] > 0}

\* What a form brings to part p: at most one of its lines does.
LinesFor(take, p) == {l \in Taken(take) : DestinationOf[l] = p}
Gain(take, p) == IF LinesFor(take, p) = {} THEN 0
                 ELSE take[CHOOSE l \in LinesFor(take, p) : TRUE]

Forms(o) == {take \in [Lines -> 0..MaxQty] :
                /\ Taken(take) # {} /\ Taken(take) \subseteq LinesOf(o)
                /\ \A p \in Parts : \A l, m \in LinesFor(take, p) : l = m}

\* Row locks: a receipt holds its lines from Claim on, its parts from Count on.
InReceipt(r) == req[r].pc \in {"count", "commit"}
LineLocked(l) == \E r \in Requests : InReceipt(r) /\ req[r].take[l] > 0
PartLocked(p) == \E r \in Requests : req[r].pc = "commit" /\ Gain(req[r].take, p) > 0

-----------------------------------------------------------------------------
(* The order and its lines.                                                *)

\* addPoLineAction, editPoLineAction, removePoLineAction: the check for DRAFT ...
EditRead(r, l, what, put) ==
    /\ Free(r) /\ po[OrderOf[l]].status = "DRAFT"
    /\ IF what = "add"
       THEN /\ line[l] = NoLine
            /\ po[OrderOf[l]].intent = "ORDER" => DestinationOf[l] # Nowhere
       ELSE line[l].live
    /\ req' = [req EXCEPT ![r] = [Idle EXCEPT !.pc = what, !.line = {l}, !.lines = line,
                                              !.put = put]]
    /\ Spend("edit")
    /\ UNCHANGED <<orderVars, stockVars, payVars>>

\* ... and the write: an edit only if the row is the one the form showed.
Lands(r, l) ==
    \/ req[r].pc = "add" /\ line[l] = NoLine
    \/ req[r].pc = "edit" /\ line[l].live /\ line[l].ver = req[r].lines[l].ver
    \/ req[r].pc = "remove" /\ line[l].live

Edited(r, l) ==
    IF req[r].pc = "remove" THEN [NoLine EXCEPT !.ver = line[l].ver + 1]
    ELSE [line[l] EXCEPT !.live = TRUE, !.qty = req[r].put.qty, !.ver = @ + 1,
                         !.priced = req[r].put.priced]

\* A removed line takes its JobPartReceipts with it.
EditWrite(r) ==
    \E l \in req[r].line :
        /\ req[r].pc \in {"add", "edit", "remove"} /\ ~LineLocked(l)
        /\ IF Lands(r, l)
           THEN /\ line' = [line EXCEPT ![l] = Edited(r, l)]
                /\ fitted' = IF req[r].pc = "remove" THEN [fitted EXCEPT ![l] = 0] ELSE fitted
                /\ overtaken' = IF po[OrderOf[l]].status = "DRAFT" THEN overtaken
                                ELSE overtaken \union {<<"lines", OrderOf[l]>>}
           ELSE UNCHANGED <<line, fitted, overtaken>>
        /\ Finish(r)
        /\ UNCHANGED <<po, stockVars, budget, payVars>>

\* canMarkOrdered and lineHasReceiveDestination.
Orderable(o) ==
    LinesOf(o) # {} /\ \A l \in LinesOf(o) : line[l].priced /\ DestinationOf[l] # Nowhere

\* setPoStatusAction: what it allows of what it reads ...
StatusRead(r, o, next) ==
    /\ Free(r)
    /\ \/ next = "ORDERED" /\ po[o].status = "DRAFT" /\ Orderable(o)
       \/ next = "CANCELLED" /\ po[o].status \in {"DRAFT", "ORDERED"}
    /\ req' = [req EXCEPT ![r] = [Idle EXCEPT !.pc = "status", !.order = {o}, !.next = next,
                                              !.status = po[o].status]]
    /\ Spend("status")
    /\ UNCHANGED <<orderVars, stockVars, payVars>>

\* ... and its write, by id.
StatusWrite(r) ==
    \E o \in req[r].order :
        /\ req[r].pc = "status"
        /\ po' = [po EXCEPT ![o].status = req[r].next]
        /\ overtaken' = IF /\ po[o].status = req[r].status
                           /\ req[r].next = "ORDERED" => Orderable(o)
                        THEN overtaken ELSE overtaken \union {<<"status", o>>}
        /\ Finish(r)
        /\ UNCHANGED <<line, fitted, stockVars, budget, payVars>>

-----------------------------------------------------------------------------
(* Goods receipt.                                                          *)

Outstanding(l) == line[l].qty - line[l].recd

ReceiveRead(r, o, take) ==
    /\ Free(r) /\ po[o].status \in {"ORDERED", "PARTIALLY_RECEIVED"}
    /\ \A l \in Taken(take) : take[l] <= Outstanding(l) /\ DestinationOf[l] # Nowhere
    /\ req' = [req EXCEPT ![r] = [Idle EXCEPT !.pc = "claim", !.order = {o}, !.take = take,
                                              !.lines = line]]
    /\ Spend("receive")
    /\ UNCHANGED <<orderVars, stockVars, payVars>>

\* The cap re-tested on the locked row: what was ordered when the order was read.
FitsUnderCap(r, l) ==
    line[l].live /\ line[l].recd <= req[r].lines[l].qty - req[r].take[l]

Claim(r) ==
    /\ req[r].pc = "claim" /\ \A l \in Taken(req[r].take) : ~LineLocked(l)
    /\ IF \A l \in Taken(req[r].take) : FitsUnderCap(r, l)
       THEN req' = [req EXCEPT ![r].pc = "count", ![r].parts = part]
       ELSE Finish(r)
    /\ UNCHANGED <<orderVars, stockVars, budget, payVars>>

\* Every line of the order is in, as far as this transaction sees.
AllFull(r, o) == \A l \in LinesOf(o) : line[l].recd + req[r].take[l] >= line[l].qty

Count(r) ==
    /\ req[r].pc = "count"
    /\ \A p \in Parts : Gain(req[r].take, p) > 0 => ~PartLocked(p)
    /\ \E o \in req[r].order : req' = [req EXCEPT ![r].pc = "commit", ![r].full = AllFull(r, o)]
    /\ UNCHANGED <<orderVars, stockVars, budget, payVars>>

\* Bug: the blend always replaces.
BlendedAway(r, p) == {l \in LinesFor(req[r].take, p) : req[r].lines[l].priced}

\* blendPartCost of the part as it was read: replace when nothing is on hand or
\* the cost is zero, else average; a line without a price changes nothing.
Blended(r, p) ==
    LET was == req[r].parts[p]
        new == {l \in LinesFor(req[r].take, p) : req[r].lines[l].priced} IN
    IF new = {} THEN was.cost
    ELSE IF was.qty <= 0 THEN new ELSE was.cost \union new

Received(r, p) ==
    IF Gain(req[r].take, p) = 0 THEN part[p]
    ELSE [qty |-> part[p].qty + Gain(req[r].take, p), cost |-> Blended(r, p)]

\* What this receipt overwrites without having seen it.
ReceivedBlindly(r, o) ==
    {<<"blend", p>> : p \in {x \in Parts : /\ Gain(req[r].take, x) > 0
                                           /\ req[r].parts[x] # part[x]}}
    \union {<<"receipts", o>> : f \in {req[r].full} \ {AllFull(r, o)}}
    \union {<<"status", o>> :
                s \in {po[o].status} \ {"ORDERED", "PARTIALLY_RECEIVED"}}

LinesReceived(take) ==
    [l \in Lines |-> IF take[l] = 0 THEN line[l]
                     ELSE [line[l] EXCEPT !.recd = @ + take[l], !.ver = @ + 1]]

\* Bug: the status is not recomputed from the lines.
StatusAfterAlwaysPartial(r) == "PARTIALLY_RECEIVED"

StatusAfter(r) == IF req[r].full THEN "RECEIVED" ELSE "PARTIALLY_RECEIVED"

ReceivedMoves(take) ==
    [p \in Parts |-> [moved[p] EXCEPT !.orders = @ + Gain(take, p)]]

\* The bill is part of the transaction when the garage has payables.
BillTheReceipt ==
    \/ PayablesEnabled /\ \E b \in Bills, n \in 1..MaxAmount : OpenBill(b, n)
    \/ UNCHANGED payVars

Commit(r) ==
    \E o \in req[r].order :
        LET take == req[r].take IN
        /\ req[r].pc = "commit"
        /\ line' = LinesReceived(take)
        /\ fitted' = [l \in Lines |-> IF DestinationOf[l] = Direct THEN fitted[l] + take[l]
                                                                   ELSE fitted[l]]
        /\ part' = [p \in Parts |-> Received(r, p)]
        /\ moved' = ReceivedMoves(take)
        /\ po' = [po EXCEPT ![o].status = StatusAfter(r)]
        /\ overtaken' = overtaken \union ReceivedBlindly(r, o)
        /\ BillTheReceipt
        /\ Finish(r)
        /\ UNCHANGED budget

-----------------------------------------------------------------------------
(* Return to the supplier, and what else moves stock.                      *)

ReturnRead(r, o, take) ==
    /\ Free(r) /\ po[o].status \in {"RECEIVED", "PARTIALLY_RECEIVED"}
    /\ \A l \in Taken(take) : /\ take[l] <= line[l].recd - line[l].retd
                              /\ DestinationOf[l] \in Parts
    /\ req' = [req EXCEPT ![r] = [Idle EXCEPT !.pc = "return", !.order = {o}, !.take = take,
                                              !.lines = line]]
    /\ Spend("return")
    /\ UNCHANGED <<orderVars, stockVars, payVars>>

\* The two guards of the transaction, each on its locked row.
Returnable(r, l) ==
    /\ line[l].live /\ line[l].retd <= req[r].lines[l].recd - req[r].take[l]
    /\ \A p \in Parts : p = DestinationOf[l] => part[p].qty >= req[r].take[l]

LinesReturned(take) ==
    [l \in Lines |-> IF take[l] = 0 THEN line[l]
                     ELSE [line[l] EXCEPT !.retd = @ + take[l], !.ver = @ + 1]]

ReturnWrite(r) ==
    LET take == req[r].take IN
    /\ req[r].pc = "return"
    /\ \A l \in Taken(take) : ~LineLocked(l)
    /\ \A p \in Parts : Gain(take, p) > 0 => ~PartLocked(p)
    /\ IF \A l \in Taken(take) : Returnable(r, l)
       THEN /\ line' = LinesReturned(take)
            /\ part' = [p \in Parts |-> [part[p] EXCEPT !.qty = @ - Gain(take, p)]]
            /\ moved' = [p \in Parts |-> [moved[p] EXCEPT !.orders = @ - Gain(take, p)]]
       ELSE UNCHANGED <<line, part, moved>>
    /\ Finish(r)
    /\ UNCHANGED <<po, fitted, overtaken, budget, payVars>>

\* adjustStockAction: the new quantity is reckoned from a read ...
AdjustRead(r, p, qty) ==
    /\ Free(r) /\ qty # part[p].qty
    /\ req' = [req EXCEPT ![r] = [Idle EXCEPT !.pc = "adjust", !.part = {p}, !.parts = part,
                                              !.put.qty = qty]]
    /\ Spend("adjust")
    /\ UNCHANGED <<orderVars, stockVars, payVars>>

\* Bug: the movement holds the new quantity, not the difference.
AdjustWriteAsMovement(r) ==
    \E p \in req[r].part :
        /\ req[r].pc = "adjust" /\ ~PartLocked(p)
        /\ part' = [part EXCEPT ![p].qty = req[r].put.qty]
        /\ moved' = [moved EXCEPT ![p].other = @ + req[r].put.qty]
        /\ Finish(r)
        /\ UNCHANGED <<orderVars, budget, payVars>>

\* ... and written as it is, with a movement of the difference.
AdjustWrite(r) ==
    \E p \in req[r].part :
        /\ req[r].pc = "adjust" /\ ~PartLocked(p)
        /\ part' = [part EXCEPT ![p].qty = req[r].put.qty]
        /\ moved' = [moved EXCEPT ![p].other = @ + req[r].put.qty - req[r].parts[p].qty]
        /\ overtaken' = IF part[p].qty = req[r].parts[p].qty THEN overtaken
                        ELSE overtaken \union {<<"adjust", p>>}
        /\ Finish(r)
        /\ UNCHANGED <<po, line, fitted, budget, payVars>>

\* updatePartAction: the owner's own cost, in place of what was blended.
Reprice(p) ==
    /\ ~PartLocked(p)
    /\ part' = [part EXCEPT ![p].cost = {}]
    /\ Spend("reprice")
    /\ UNCHANGED <<orderVars, moved, req, payVars>>

\* A part request arrives at the counter (+1) or is fitted (-1): guarded updates.
Use(p, n) ==
    /\ ~PartLocked(p) /\ part[p].qty + n >= 0
    /\ part' = [part EXCEPT ![p].qty = @ + n]
    /\ moved' = [moved EXCEPT ![p].other = @ + n]
    /\ Spend("use")
    /\ UNCHANGED <<orderVars, req, payVars>>

\* A function is killed: what its transaction has not committed never was.
Kill(r) ==
    /\ ~Free(r) /\ Finish(r) /\ Spend("kill")
    /\ UNCHANGED <<orderVars, stockVars, payVars>>

-----------------------------------------------------------------------------
Init ==
    /\ \E s \in Scenarios :
          /\ po = [o \in Orders |-> [status |-> "DRAFT", intent |-> s.intent[o]]]
          /\ line = s.lines
          /\ part = [p \in Parts |-> [qty |-> s.stock[p], cost |-> {}]]
          /\ moved = [p \in Parts |-> [opening |-> s.stock[p], orders |-> 0, other |-> 0]]
          /\ budget = s.budget
    /\ fitted = Zero
    /\ req = [r \in Requests |-> Idle] /\ overtaken = {}
    /\ PayInit

OrderStep(r) ==
    \/ EditWrite(r) \/ StatusWrite(r) \/ Claim(r) \/ Count(r) \/ Commit(r)
    \/ ReturnWrite(r) \/ AdjustWrite(r) \/ Kill(r)
    \/ \E l \in Lines, what \in {"add", "edit", "remove"}, put \in NewLines :
          EditRead(r, l, what, put)
    \/ \E o \in Orders, next \in {"ORDERED", "CANCELLED"} : StatusRead(r, o, next)
    \/ \E o \in Orders : \E take \in Forms(o) : ReceiveRead(r, o, take) \/ ReturnRead(r, o, take)
    \/ \E p \in Parts, qty \in 0..MaxQty : AdjustRead(r, p, qty)

StockStep(p) == Reprice(p) \/ \E n \in {1, -1} : Use(p, n)

DeskStep(d) ==
    \/ PayWrite(d) /\ UNCHANGED budget
    \/ VoidBillWrite(d) /\ UNCHANGED budget
    \/ VoidExpenseWrite(d) /\ UNCHANGED budget
    \/ DeskKilled(d) /\ Spend("kill")
    \/ \E alloc \in [Bills -> 0..MaxAmount] : PayRead(d, alloc) /\ Spend("pay")
    \/ \E b \in Bills : VoidBillRead(d, b) /\ Spend("void")
    \/ \E x \in Expenses : VoidExpenseRead(d, x) /\ Spend("void")

Next ==
    \/ \E r \in Requests : OrderStep(r)
    \/ \E p \in Parts : StockStep(p)
    \/ /\ \/ \E d \in Desks : DeskStep(d)
          \/ \E x \in Expenses : RecordExpense(x, MaxAmount) /\ Spend("expense")
       /\ UNCHANGED <<orderVars, stockVars, req>>

Spec == Init /\ [][Next]_vars

-----------------------------------------------------------------------------
(* Properties.                                                             *)

LineRows == [live: BOOLEAN, qty: Nat, priced: BOOLEAN, recd: Nat, retd: Nat, ver: Nat]
PartRows == [qty: Nat, cost: SUBSET Lines]

\* Types; stock is a natural number (parts.ts: "qtyOnHand can never go below zero,
\* even under concurrency").
TypeOK ==
    /\ PayTypeOK
    /\ po \in [Orders -> [status: OrderStatuses, intent: Intents]]
    /\ line \in [Lines -> LineRows] /\ fitted \in [Lines -> Nat]
    /\ part \in [Parts -> PartRows] /\ moved \in [Parts -> [opening: Nat, orders: Int, other: Int]]
    /\ budget \in [Sorts -> Nat]
    /\ \A r \in Requests :
          /\ req[r].order \subseteq Orders /\ req[r].line \subseteq Lines
          /\ req[r].part \subseteq Parts /\ req[r].take \in [Lines -> Nat]
          /\ req[r].lines \in [Lines -> LineRows] /\ req[r].put \in LineRows
          /\ req[r].next \in OrderStatuses /\ req[r].full \in BOOLEAN
          /\ req[r].pc \in {"count", "commit", "adjust"} => req[r].parts \in [Parts -> PartRows]

\* Stock is what came in less what went out, unless a manual adjustment was written
\* over a movement it had not seen (inventory.ts: "so every change is accountable").
StockAccountedFor ==
    \A p \in Parts :
        <<"adjust", p>> \notin overtaken
            => part[p].qty = moved[p].opening + moved[p].orders + moved[p].other

\* Every unit received on a line is on the shelf's movements or on a job's
\* receipts, none twice, as long as no line is removed from an order under way.
ReceiptsLand ==
    (\A o \in Orders : <<"lines", o>> \notin overtaken) =>
        /\ \A p \in Parts :
              moved[p].orders = SumFunctionOnSet([l \in Lines |-> line[l].recd - line[l].retd],
                                                 {l \in Lines : DestinationOf[l] = p})
        /\ \A l \in Lines : DestinationOf[l] = Direct => fitted[l] = line[l].recd

\* No line is received above what was ordered, even by receipts that race, nor
\* returned above what was received (purchasing.ts: "never receive more than
\* outstanding"); only an edit decided on the draft can lower a line below it.
LinesWithinBounds ==
    \A l \in Lines :
        /\ line[l].recd <= line[l].qty \/ <<"lines", OrderOf[l]>> \in overtaken
        /\ line[l].retd <= line[l].recd

\* An order's status says what its lines say: nothing came in before it was
\* ordered or if it was cancelled, ordered lines have a price and a place to go,
\* and it is RECEIVED exactly when all is in (purchasing.ts: "CANCELLED is allowed
\* from DRAFT or ORDERED (not from RECEIVED - that already moved stock)").  Only
\* writes that were overtaken can part them: of the status, of a line, or of the
\* status by two receipts that did not see each other's lines.
StatusFitsLines ==
    \A o \in Orders :
        (\A what \in {"status", "lines", "receipts"} : <<what, o>> \notin overtaken) =>
            /\ po[o].status \in {"DRAFT", "ORDERED", "CANCELLED"}
                  => \A l \in LinesOf(o) : line[l].recd = 0
            /\ po[o].status \in {"ORDERED", "PARTIALLY_RECEIVED", "RECEIVED"} => Orderable(o)
            /\ po[o].status = "RECEIVED" => \A l \in LinesOf(o) : line[l].recd = line[l].qty
            /\ po[o].status = "PARTIALLY_RECEIVED"
                  => \E l \in LinesOf(o) : line[l].recd < line[l].qty

\* An order tells what came of it: all of the above.
OrderTellsReceipts == LinesWithinBounds /\ ReceiptsLand /\ StatusFitsLines

\* While a part is in stock a receipt never drops out of its cost unless the owner
\* sets the cost, or two receipts read the part before either wrote it.
CostKeepsItsReceipts ==
    [][\A p \in Parts :
          \/ part[p].qty <= 0 \/ part'[p].cost = {} \/ part[p].cost \subseteq part'[p].cost
          \/ <<"blend", p>> \in overtaken']_vars
=============================================================================
