------------------------------ MODULE Invoices ------------------------------
(***************************************************************************)
(* The invoices of one job card: made from its approved estimates, edited, *)
(* sent, paid, voided and corrected; the advances taken before there is    *)
(* one; and the ledger rows of all of them (src/app/actions/billing.ts,    *)
(* src/lib/billing.ts).                                                    *)
(*                                                                         *)
(* A request reads, decides, and commits later; an edit writes a line,     *)
(* reads all lines, and writes totals and ledger rows, each in a call of   *)
(* its own.  Lines are left out but for their sum; an estimate is one      *)
(* line, which may be taken off it.  VAT is part of every amount, and the  *)
(* COGS rows, which follow the INVOICE rows everywhere, are left out.      *)
(*                                                                         *)
(* Nothing in the repository sets invoiceDeliveredAt: Deliver is the       *)
(* WhatsApp webhook that ownedEditableInvoice waits for.                   *)
(***************************************************************************)
EXTENDS Naturals, Integers, FiniteSets, Functions

CONSTANTS
    Invs, Advs,   \* Invoice and AdvancePayment rows that may be created
    Ests,         \* the card's estimates, numbered in the order of their creation
    Worth,        \* Worth[e]: the amount of the line of estimate e
    Wordings,     \* the descriptions, quantities and prices the lines may have
    Texts,
    Requests,     \* requests that may be under way at once
    MaxTotal,     \* the largest amount of a document
    Budgets       \* for each scenario, how many requests of each sort, and kills

Sorts == {"approve", "decline", "toggle", "generate", "edit", "send", "deliver", "pay",
          "advance", "void", "reissue", "kill"}

ASSUME InvoicesAssumption ==
    /\ Ests \subseteq Nat /\ IsFiniteSet(Ests) /\ IsFiniteSet(Advs)
    /\ Worth \in [Ests -> Nat] /\ MaxTotal \in Nat
    /\ Wordings \subseteq [Ests -> Texts]
    /\ \A w \in Wordings, e, f \in Ests : w[e] = w[f] => Worth[e] = Worth[f]
    /\ Budgets \subseteq [Sorts -> Nat]

VARIABLES
    estimate,   \* Estimate: is it APPROVED; its line's text, and is the line off it
    invoice,    \* Invoice, with the sum of its lines and of its payments
    ar,         \* ar[i]: what the INVOICE rows of i have put on the AR account, and
                \* what its INVOICE_VOID rows have taken off
    seq,        \* Garage.invoiceSeq
    advance,    \* AdvancePayment
    deposit,    \* deposit[a]: what the ledger's CUSTOMER_DEPOSITS account owes for a
    card,       \* JobCard: invoiceSentAt, invoiceDeliveredAt
    req,        \* req[r]: a request's locals
    slips,      \* history: <<what, row>>, writes that landed on a row their guards
                \* had not seen, or do not look at
    budget      \* what is left of the scenario's budget

docVars == <<invoice, ar, seq, advance, deposit>>
vars == <<estimate, docVars, card, req, slips, budget>>

Spend(k) == budget[k] > 0 /\ budget' = [budget EXCEPT ![k] = @ - 1]

-----------------------------------------------------------------------------
Statuses == {"NONE", "DRAFT", "SENT", "PAID", "VOID"}

\* made: the estimates it was linked to; prev: the void it replaces; has: the
\* estimates whose line it holds unchanged; times: how often an estimate's line was
\* put on it.
NoInvoice == [status |-> "NONE", number |-> 0, made |-> {}, prev |-> {}, sum |-> 0,
              total |-> 0, paid |-> 0, has |-> {}, times |-> [e \in Ests |-> 0]]
NoAdvance == [amount |-> 0, migrated |-> FALSE]
NoAr      == [posted |-> 0, reversed |-> 0]

Issued   == {i \in Invs : invoice[i].status # "NONE"}
TakenAdv == {a \in Advs : advance[a].amount > 0}

\* ests: the estimates whose lines it goes by; first: the one it is to link to.
Idle == [pc |-> "idle", inv |-> {}, adv |-> {}, ests |-> {}, first |-> {}, amount |-> 0,
         seen |-> NoInvoice]

Free(r)     == req[r].pc = "idle"
Finish(r)   == req' = [req EXCEPT ![r] = Idle]
Goto(r, pc) == req' = [req EXCEPT ![r].pc = pc]
Begin(r, pc, i, n) ==
    /\ Free(r)
    /\ req' = [req EXCEPT ![r] = [Idle EXCEPT !.pc = pc, !.inv = {i}, !.amount = n,
                                              !.seen = invoice[i]]]

\* A send that stamps the card and goes on to post holds the card's row until it
\* commits both.
CardLocked == \E r \in Requests : req[r].pc = "post"

Worths(es)   == SumFunctionOnSet(Worth, es)
Amounts(as)  == SumFunctionOnSet([a \in Advs |-> advance[a].amount], as)
Approved     == {e \in Ests : estimate[e].approved}
Offered      == {e \in Approved : ~estimate[e].off}
Oldest(es)   == {e \in es : \A f \in es : e <= f}
Made(e)      == {i \in Invs : e \in invoice[i].made}

When(really, slip) == IF really THEN {slip} ELSE {}
Slip(what, row, really) == slips' = slips \union When(really, <<what, row>>)

\* What a write to i slips on, if it was decided when i was as seen: it changed, it
\* is void, or (for a write of its lines) it has been paid on, or is PAID.
Ghost(i) == When(invoice[i].status = "VOID", <<"ghost", i>>)
Blind(what, i, seen) == When(invoice[i] # seen, <<what, i>>) \union Ghost(i)
PaidOn(i) == When(invoice[i].paid # 0 \/ invoice[i].status = "PAID", <<"paid", i>>)

-----------------------------------------------------------------------------
(* The estimates (setEstimateStatusAction, toggleEstimateLineAction).      *)

\* A request to bill that would link its invoice to an estimate no longer the oldest
\* approved one.
Misled(e) ==
    When(\E r \in Requests : req[r].pc = "create" /\ req[r].first # Oldest(Approved)',
         <<"turned", e>>)

\* Advances beyond what is now approved, before there is an invoice.
Shrunk(e) == When(Issued = {} /\ Amounts(TakenAdv) > Worths(Offered)', <<"shrunk", e>>)

Approve(e) ==
    /\ ~estimate[e].approved
    /\ estimate' = [estimate EXCEPT ![e].approved = TRUE]
    /\ slips' = slips \union Misled(e)
    /\ Spend("approve")
    /\ UNCHANGED <<docVars, card, req>>

\* The status is written whatever it was: the approval of an estimate is taken back,
\* by REJECTED or by SENT, also of one that has an invoice or advances.
Decline(e) ==
    /\ estimate[e].approved
    /\ estimate' = [estimate EXCEPT ![e].approved = FALSE]
    /\ slips' = slips \union Misled(e) \union Shrunk(e)
                      \union When(Made(e) # {}, <<"turned", e>>)
    /\ Spend("decline")
    /\ UNCHANGED <<docVars, card, req>>

\* Its line is taken off the estimate, or put on again, in any status.
Toggle(e) ==
    /\ estimate' = [estimate EXCEPT ![e].off = ~@]
    /\ slips' = slips \union Shrunk(e)
    /\ Spend("toggle")
    /\ UNCHANGED <<docVars, card, req>>

-----------------------------------------------------------------------------
(* generateInvoiceAction.                                                  *)

\* Bug: the lines the invoice has are added again.
MissingAll(i) == Offered

\* A line is known by its text: one the invoice has the like of is not missing.
Missing(i) ==
    {e \in Offered : \A f \in invoice[i].has : estimate[f].text # estimate[e].text}

\* The approved estimates and, if one of them has an invoice, that invoice: then
\* what it lacks is to be added, unless it was delivered.
GenerateRead(r) ==
    LET linked == {e \in Approved : Made(e) # {}} IN
    /\ Free(r)
    /\ IF linked = {}
       THEN \E e \in Oldest(Approved) :
               req' = [req EXCEPT ![r] = [Idle EXCEPT !.pc = "create", !.ests = Offered,
                                                      !.first = {e}]]
       ELSE \E e \in Oldest(linked) : \E i \in Made(e) :
               /\ ~card.delivered /\ Missing(i) # {}
               /\ req' = [req EXCEPT ![r] = [Idle EXCEPT !.pc = "topup", !.inv = {i},
                                                         !.ests = Missing(i),
                                                         !.seen = invoice[i]]]
    /\ Spend("generate")
    /\ UNCHANGED <<estimate, docVars, card, slips>>

\* Its createMany; the recompute follows.
TopUp(r) ==
    \E i \in req[r].inv, n \in 0..MaxTotal :
        /\ req[r].pc = "topup" /\ n = invoice[i].sum + Worths(req[r].ests)
        /\ invoice' = [invoice EXCEPT ![i].sum = n, ![i].has = @ \union req[r].ests,
                          ![i].times = [e \in Ests |->
                              IF e \in req[r].ests THEN @[e] + 1 ELSE @[e]]]
        /\ slips' = slips \union Blind("topup", i, req[r].seen) \union PaidOn(i)
        /\ Goto(r, "recompute")
        /\ UNCHANGED <<estimate, ar, seq, advance, deposit, card, budget>>

\* Bug: an advance once migrated is not marked.
MigratedUnmarked(a) == advance[a]

Migrated(a) == IF advance[a].amount > 0 THEN [advance[a] EXCEPT !.migrated = TRUE]
                                        ELSE advance[a]

\* The invoice linked to the estimates first, with the lines of es, of total n.
Bill(first, es, n, paid) ==
    [status |-> IF paid >= n THEN "PAID" ELSE "SENT", number |-> seq + 1,
     made |-> first, prev |-> {}, sum |-> n, total |-> n, paid |-> paid,
     has |-> es, times |-> [e \in Ests |-> IF e \in es THEN 1 ELSE 0]]

\* Bug: the unique link to an estimate is left out.
CreateAgain(r) ==
    LET open == {a \in TakenAdv : ~advance[a].migrated}
        first == req[r].first IN
    /\ req[r].pc = "create" /\ ~CardLocked
    /\ \E i \in Invs \ Issued, n \in 0..MaxTotal, paid \in 0..MaxTotal :
            /\ n = Worths(req[r].ests) /\ paid = Amounts(open)
            /\ seq' = seq + 1
            /\ invoice' = [invoice EXCEPT ![i] = Bill(first, req[r].ests, n, paid)]
            /\ ar' = [ar EXCEPT ![i].posted = n]
            /\ advance' = [a \in Advs |-> Migrated(a)]
            /\ deposit' = [a \in Advs |-> IF a \in open THEN deposit[a] - advance[a].amount
                                                        ELSE deposit[a]]
            /\ Slip("billed", i, n < Worths(Offered))
    /\ Finish(r)
    /\ UNCHANGED <<estimate, card, budget>>

\* The transaction: the number first, whose row lock lets one invoice through at a
\* time; the invoice, refused if the estimate it links to has one by now; its rows;
\* and the advances found now, as payments.
Create(r) ==
    LET open == {a \in TakenAdv : ~advance[a].migrated}
        first == req[r].first IN
    /\ req[r].pc = "create" /\ ~CardLocked
    /\ IF \E e \in first : Made(e) # {}
       THEN UNCHANGED <<docVars, slips>>
       ELSE \E i \in Invs \ Issued, n \in 0..MaxTotal, paid \in 0..MaxTotal :
               /\ n = Worths(req[r].ests) /\ paid = Amounts(open)
               /\ seq' = seq + 1
               /\ invoice' = [invoice EXCEPT ![i] = Bill(first, req[r].ests, n, paid)]
               /\ ar' = [ar EXCEPT ![i].posted = n]
               /\ advance' = [a \in Advs |-> Migrated(a)]
               /\ deposit' = [a \in Advs |-> IF a \in open THEN deposit[a] - advance[a].amount
                                                           ELSE deposit[a]]
               /\ Slip("billed", i, n < Worths(Offered))
    /\ Finish(r)
    /\ UNCHANGED <<estimate, card, budget>>

-----------------------------------------------------------------------------
(* Edits: addInvoiceLineAction, updateInvoiceLineAction,                   *)
(* removeInvoiceLineAction, setInvoiceDiscountAction.                      *)

\* ownedEditableInvoice looks at the delivery and at nothing else.
EditRead(r, i) ==
    /\ i \in Issued /\ ~card.delivered
    /\ Begin(r, "edit", i, 0)
    /\ Spend("edit")
    /\ UNCHANGED <<estimate, docVars, card, slips>>

\* The line's own write: some line is added, or one that may be an estimate's is
\* changed or removed.  A discount is put on in two calls: the old one is deleted, the
\* new one created.
EditWrite(r) ==
    \E i \in req[r].inv, n \in 0..MaxTotal, gone \in SUBSET Ests :
        /\ req[r].pc \in {"edit", "discount"} /\ n # invoice[i].sum
        /\ gone \subseteq invoice[i].has /\ Cardinality(gone) <= 1
        /\ invoice' = [invoice EXCEPT ![i].sum = n, ![i].has = @ \ gone]
        /\ slips' = slips \union Ghost(i) \union PaidOn(i)
                          \union {<<"reprice", i>> : e \in gone}
        /\ \/ Goto(r, "recompute")
           \/ req[r].pc = "edit" /\ gone = {} /\ Goto(r, "discount")
        /\ UNCHANGED <<estimate, ar, seq, advance, deposit, card, budget>>

\* recomputeInvoice: the read of the lines ...
RecomputeRead(r) ==
    \E i \in req[r].inv :
        /\ req[r].pc = "recompute"
        /\ req' = [req EXCEPT ![r].pc = "total", ![r].seen = invoice[i]]
        /\ UNCHANGED <<estimate, docVars, card, slips, budget>>

\* Bug: the INVOICE rows are added to, not replaced.
RecomputeWriteAdds(r) ==
    \E i \in req[r].inv :
        /\ req[r].pc = "total"
        /\ invoice' = [invoice EXCEPT ![i].total = req[r].seen.sum]
        /\ ar' = [ar EXCEPT ![i].posted = @ + req[r].seen.sum]
        /\ Slip("total", i, invoice[i].sum # req[r].seen.sum)
        /\ Finish(r)
        /\ UNCHANGED <<estimate, seq, advance, deposit, card, budget>>

\* ... and the transaction that writes the totals and replaces the INVOICE rows,
\* whatever the invoice's status, and leaves the status as it is.
RecomputeWrite(r) ==
    \E i \in req[r].inv :
        /\ req[r].pc = "total"
        /\ invoice' = [invoice EXCEPT ![i].total = req[r].seen.sum]
        /\ ar' = [ar EXCEPT ![i].posted = req[r].seen.sum]
        /\ slips' = slips \union Blind("total", i, req[r].seen) \union PaidOn(i)
        /\ Finish(r)
        /\ UNCHANGED <<estimate, seq, advance, deposit, card, budget>>

-----------------------------------------------------------------------------
(* Sending and delivery.                                                   *)

\* sendInvoiceToCustomerAction reads the amounts ...
SendRead(r, i) ==
    /\ i \in Issued
    /\ Begin(r, "send", i, 0)
    /\ Spend("send")
    /\ UNCHANGED <<estimate, docVars, card, slips>>

\* ... counts the rows of a correction, and stamps the card if they are not missing ...
SendCount(r) ==
    \E i \in req[r].inv :
        /\ req[r].pc = "send" /\ ~CardLocked
        /\ IF invoice[i].prev # {} /\ ar[i].posted = 0
           THEN Goto(r, "post") /\ UNCHANGED card
           ELSE Finish(r) /\ card' = [card EXCEPT !.sent = TRUE]
        /\ slips' = slips \union Blind("send", i, req[r].seen)
        /\ UNCHANGED <<estimate, docVars, budget>>

\* ... or posts them and stamps it.
SendPost(r) ==
    \E i \in req[r].inv :
        /\ req[r].pc = "post"
        /\ ar' = [ar EXCEPT ![i].posted = @ + req[r].seen.total]
        /\ card' = [card EXCEPT !.sent = TRUE]
        /\ Slip("post", i, ar[i].posted # 0 \/ invoice[i].total # req[r].seen.total)
        /\ Finish(r)
        /\ UNCHANGED <<estimate, invoice, seq, advance, deposit, budget>>

Deliver ==
    /\ card.sent /\ ~card.delivered /\ ~CardLocked
    /\ card' = [card EXCEPT !.delivered = TRUE]
    /\ Spend("deliver")
    /\ UNCHANGED <<estimate, docVars, req, slips>>

-----------------------------------------------------------------------------
(* Money.                                                                  *)

\* recordPaymentAction: what is paid is summed up ...
PayRead(r, i, n) ==
    /\ i \in Issued /\ n > 0 /\ invoice[i].paid + n <= invoice[i].total
    /\ Begin(r, "pay", i, n)
    /\ Spend("pay")
    /\ UNCHANGED <<estimate, docVars, card, slips>>

\* Bug: the invoice is settled by any payment.
PayWriteSettles(r) ==
    \E i \in req[r].inv :
        /\ req[r].pc = "pay"
        /\ invoice' = [invoice EXCEPT ![i].paid = @ + req[r].amount, ![i].status = "PAID"]
        /\ slips' = slips \union Blind("pay", i, req[r].seen)
        /\ Finish(r)
        /\ UNCHANGED <<estimate, ar, seq, advance, deposit, card, budget>>

\* ... and the payment written, with PAID decided from that sum.
PayWrite(r) ==
    \E i \in req[r].inv :
        LET settled == req[r].seen.paid + req[r].amount >= req[r].seen.total IN
        /\ req[r].pc = "pay"
        /\ invoice' = [invoice EXCEPT ![i].paid = @ + req[r].amount,
                                      ![i].status = IF settled THEN "PAID" ELSE @]
        /\ slips' = slips \union Blind("pay", i, req[r].seen)
        /\ Finish(r)
        /\ UNCHANGED <<estimate, ar, seq, advance, deposit, card, budget>>

\* recordAdvancePaymentAction: there is no invoice yet, and the advances stay within
\* the totals of what is approved ...
AdvanceRead(r, a, n) ==
    /\ Free(r) /\ a \notin TakenAdv /\ n > 0
    /\ Issued = {} /\ Approved # {}
    /\ \E had \in 0..MaxTotal :
          /\ had = Amounts(TakenAdv) /\ had + n <= Worths(Offered)
          /\ req' = [req EXCEPT ![r] = [Idle EXCEPT !.pc = "advance", !.adv = {a},
                                                    !.amount = n, !.ests = Offered,
                                                    !.seen.sum = had]]
    /\ Spend("advance")
    /\ UNCHANGED <<estimate, docVars, card, slips>>

\* ... by the time of the read.
AdvanceWrite(r) ==
    \E a \in req[r].adv :
        /\ req[r].pc = "advance" /\ a \notin TakenAdv
        /\ advance' = [advance EXCEPT ![a] = [amount |-> req[r].amount, migrated |-> FALSE]]
        /\ deposit' = [deposit EXCEPT ![a] = @ + req[r].amount]
        /\ slips' = slips
              \union When(Issued # {} \/ Amounts(TakenAdv) # req[r].seen.sum, <<"advance", a>>)
              \union When(Worths(Offered) < Worths(req[r].ests), <<"ceiling", a>>)
        /\ Finish(r)
        /\ UNCHANGED <<estimate, invoice, ar, seq, card, budget>>

-----------------------------------------------------------------------------
(* Void and correction.                                                    *)

\* voidInvoiceAction: of a delivered invoice that is neither void nor paid ...
VoidRead(r, i) ==
    /\ card.delivered /\ invoice[i].status \in {"DRAFT", "SENT"}
    /\ Begin(r, "void", i, 0)
    /\ Spend("void")
    /\ UNCHANGED <<estimate, docVars, card, slips>>

\* ... by id, with the reversal of the amounts that were read.
VoidWrite(r) ==
    \E i \in req[r].inv :
        /\ req[r].pc = "void"
        /\ invoice' = [invoice EXCEPT ![i].status = "VOID"]
        /\ ar' = [ar EXCEPT ![i].reversed = @ + req[r].seen.total]
        /\ Slip("void", i, invoice[i] # req[r].seen)
        /\ Finish(r)
        /\ UNCHANGED <<estimate, seq, advance, deposit, card, budget>>

Replaced(i) == \E j \in Invs : i \in invoice[j].prev

\* reissueInvoiceAction: of a void that has no correction yet ...
ReissueRead(r, i) ==
    /\ invoice[i].status = "VOID" /\ ~Replaced(i)
    /\ Begin(r, "reissue", i, 0)
    /\ Spend("reissue")
    /\ UNCHANGED <<estimate, docVars, card, slips>>

Correction(i, seen) ==
    [NoInvoice EXCEPT !.status = "DRAFT", !.number = seq + 1, !.prev = {i}, !.sum = seen.sum,
                      !.total = seen.total]

\* ... as a DRAFT with a number and no rows, refused by the unique previousInvoiceId
\* if there is one by now; it takes the delivery off the card.
ReissueWrite(r) ==
    \E i \in req[r].inv :
        /\ req[r].pc = "reissue" /\ ~CardLocked
        /\ IF Replaced(i)
           THEN UNCHANGED <<invoice, seq, card, slips>>
           ELSE \E j \in Invs \ Issued :
                   /\ seq' = seq + 1
                   /\ invoice' = [invoice EXCEPT ![j] = Correction(i, req[r].seen)]
                   /\ card' = [sent |-> FALSE, delivered |-> FALSE]
                   /\ Slip("total", j, req[r].seen.sum # req[r].seen.total)
        /\ Finish(r)
        /\ UNCHANGED <<estimate, ar, advance, deposit, budget>>

\* A function is killed between two calls: an edited line may stay without totals.
Kill(r) ==
    /\ ~Free(r) /\ Spend("kill")
    /\ slips' = slips \union IF req[r].pc \in {"discount", "recompute", "total"}
                              THEN {<<"total", i>> : i \in req[r].inv} ELSE {}
    /\ Finish(r)
    /\ UNCHANGED <<estimate, docVars, card>>

-----------------------------------------------------------------------------
Init ==
    /\ \E w \in Wordings :
          estimate = [e \in Ests |-> [approved |-> FALSE, off |-> FALSE, text |-> w[e]]]
    /\ seq = 0
    /\ invoice = [i \in Invs |-> NoInvoice] /\ ar = [i \in Invs |-> NoAr]
    /\ advance = [a \in Advs |-> NoAdvance] /\ deposit = [a \in Advs |-> 0]
    /\ card = [sent |-> FALSE, delivered |-> FALSE]
    /\ req = [r \in Requests |-> Idle] /\ slips = {} /\ budget \in Budgets

RequestStep(r) ==
    \/ GenerateRead(r) \/ TopUp(r) \/ Create(r)
    \/ EditWrite(r) \/ RecomputeRead(r) \/ RecomputeWrite(r)
    \/ SendCount(r) \/ SendPost(r)
    \/ PayWrite(r) \/ AdvanceWrite(r) \/ VoidWrite(r) \/ ReissueWrite(r) \/ Kill(r)
    \/ \E i \in Invs : EditRead(r, i) \/ SendRead(r, i) \/ VoidRead(r, i) \/ ReissueRead(r, i)
    \/ \E i \in Invs, n \in 0..MaxTotal : PayRead(r, i, n)
    \/ \E a \in Advs, n \in 0..MaxTotal : AdvanceRead(r, a, n)

Next ==
    \/ \E r \in Requests : RequestStep(r)
    \/ \E e \in Ests : Approve(e) \/ Decline(e) \/ Toggle(e)
    \/ Deliver

Spec == Init /\ [][Next]_vars

-----------------------------------------------------------------------------
(* Properties.                                                             *)

EstimateRows == [approved: BOOLEAN, off: BOOLEAN, text: Texts]
InvoiceRows == [status: Statuses, number: Nat, made: SUBSET Ests, prev: SUBSET Invs, sum: Nat,
                total: Nat, paid: Nat, has: SUBSET Ests, times: [Ests -> Nat]]
PCs == {"idle", "create", "topup", "edit", "discount", "recompute", "total", "send", "post",
        "pay", "advance", "void", "reissue"}

\* Types; a request under way has the rows it is about.
TypeOK ==
    /\ estimate \in [Ests -> EstimateRows] /\ seq \in Nat
    /\ invoice \in [Invs -> InvoiceRows] /\ ar \in [Invs -> [posted: Nat, reversed: Nat]]
    /\ advance \in [Advs -> [amount: Nat, migrated: BOOLEAN]] /\ deposit \in [Advs -> Nat]
    /\ card \in [sent: BOOLEAN, delivered: BOOLEAN]
    /\ budget \in [Sorts -> Nat]
    /\ req \in [Requests -> [pc: PCs, inv: SUBSET Invs, adv: SUBSET Advs, ests: SUBSET Ests,
                             first: SUBSET Ests, amount: Nat, seen: InvoiceRows]]

\* The deposits account owes a customer exactly the advances not yet on an invoice,
\* and once there is an invoice no advance is left behind, unless it was decided
\* before there was one and written after (billing.ts: "the same row can never be
\* migrated twice").
DepositsFollowAdvances ==
    \A a \in Advs :
        /\ deposit[a] = IF advance[a].migrated THEN 0 ELSE advance[a].amount
        /\ a \in TakenAdv /\ Issued # {} /\ <<"advance", a>> \notin slips
              => advance[a].migrated

Busy(i) == \E r \in Requests :
    i \in req[r].inv /\ req[r].pc \in {"discount", "recompute", "total", "post"}
Sound(i, whats) == \A what \in whats : <<what, i>> \notin slips

Booked(i) ==
    /\ invoice[i].total = invoice[i].sum
    /\ invoice[i].status = "VOID" => ar[i].posted = ar[i].reversed
    /\ invoice[i].status \in {"SENT", "PAID"}
          => ar[i].posted \in {invoice[i].total} \union {0 : p \in invoice[i].prev}
    /\ invoice[i].status # "VOID" => ar[i].reversed = 0

\* One of the invoices was made from estimates; the others are corrections.
Single == \A i, j \in Issued : invoice[i].prev = {} /\ invoice[j].prev = {} => i = j
Steady == \A e \in Ests : <<"turned", e>> \notin slips

\* Between requests, what the ledger holds for an invoice is its total, its total is
\* the sum of its lines, and a void nets to zero (billing.ts: "Net across the two
\* events on every account is zero"; "so accounting stays balanced").  What can
\* break it: totals written from lines that had changed or never written, rows
\* posted twice by a send and an edit, a void of amounts that had changed, a write to
\* an invoice that is void already, and a card with two invoices made from estimates,
\* on whose delivery a correction can be voided that was never posted.
BooksFollowInvoice ==
    Single /\ (\A i \in Invs : Sound(i, {"ghost"})) =>
        \A i \in Issued : ~Busy(i) /\ Sound(i, {"total", "post", "void"}) => Booked(i)

\* PAID means that the payments make up the total, SENT that they do not, and they
\* never exceed it.  Out of turn: a payment decided on another state of the invoice;
\* advances written when there was an invoice, or other advances than were read; an
\* estimate approved, or one of those approved made less, between the read and the
\* write of an invoice or an advance; an edit or top-up of an invoice that had been
\* paid on.  And in turn, without any overlap, the one the code lets through: an
\* estimate's approval is taken back, or its line is, when the advances taken for it
\* already exceed what is left approved.
PaymentsFit ==
    \A i \in Issued :
        Sound(i, {"pay", "paid", "billed", "ghost"})
        /\ (\A a \in Advs : Sound(a, {"advance", "ceiling"}))
        /\ (\A e \in Ests : Sound(e, {"shrunk"})) =>
            /\ invoice[i].paid <= invoice[i].total
            /\ invoice[i].status = "PAID" => invoice[i].paid = invoice[i].total
            /\ invoice[i].status = "SENT" /\ invoice[i].paid > 0
                  => invoice[i].paid < invoice[i].total

\* A void has at most one correction, and an estimate is linked to one invoice.  A card
\* has one invoice that is not void, as long as the approval of its estimate is not
\* taken back, no request to bill was let in when another estimate was the oldest
\* approved, and nothing is written to an invoice that is void already.
OneLiveInvoice ==
    /\ \A i, j, k \in Invs : k \in invoice[i].prev \intersect invoice[j].prev => i = j
    /\ \A i, j \in Invs, e \in Ests : e \in invoice[i].made \intersect invoice[j].made => i = j
    /\ Steady /\ (\A i \in Invs : Sound(i, {"ghost"})) =>
          \A i, j \in Issued :
             invoice[i].status # "VOID" /\ invoice[j].status # "VOID" => i = j

\* Invoice numbers are gapless and given once (billing.ts: "invoice numbering is
\* gapless per-garage (VAT requirement)").
NumbersGapless ==
    /\ {invoice[i].number : i \in Issued} = 1..seq
    /\ \A i, j \in Issued : invoice[i].number = invoice[j].number => i = j

\* The documents of a card stay in order: both of the above.
DocumentsInOrder == OneLiveInvoice /\ NumbersGapless

\* An estimate's work is billed once, unless a top-up was overtaken, its approval or
\* that of the invoiced estimate was turned as above, or the cashier changed the
\* estimate's line on the invoice (billing.ts: "so we don't re-add lines the cashier
\* already kept").
BilledOnce ==
    Steady /\ (\A i \in Invs : Sound(i, {"topup", "reprice"})) =>
        \A e \in Ests, i, j \in Invs :
            /\ invoice[i].times[e] <= 1
            /\ invoice[i].times[e] > 0 /\ invoice[j].times[e] > 0 => i = j
=============================================================================
