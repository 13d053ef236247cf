-------------------------------- MODULE Books -------------------------------
(***************************************************************************)
(* The garage's ledger over several accounting periods, and the reports    *)
(* made from it: VAT return, profit and loss, balance sheet, statements of *)
(* account, ageing and who-owes (src/lib/vat-summary.ts, pnl.ts,           *)
(* statements.ts, customer-statement.ts, owner-dashboard.ts,               *)
(* owner-metrics.ts), on top of the opening balances of Imports.           *)
(*                                                                         *)
(* Invoices and Payables have the interleavings of the requests that write *)
(* the ledger; here each is one step, and carries what those leave out:    *)
(* VAT, revenue, cost of sales, and the period a row is dated in.  A       *)
(* posting is the rows one createMany writes; rows[a] is debit - credit.   *)
(***************************************************************************)
EXTENDS Imports, Integers, Functions

CONSTANTS
    Jobs, Invs, Advs,
    Papers,         \* Expense and SupplierBill rows
    Quote,          \* Quote[j]: the subtotal of job j's approved estimates
    Subtotals,      \* what an edit may make of it
    PartsCost,      \* the cost of an invoice's PART lines
    Emirates,
    LastPeriod,
    Opening,        \* the amount of an opening balance
    Owners,         \* Owners[j]: the customer that owns job j's vehicle at first
    Workloads       \* how many requests of each sort

Works == {"generate", "rebook", "send", "deliver", "pay", "advance", "void", "reissue",
          "spend", "unspend", "flip", "emirate", "transfer"}
Costs == {0, PartsCost, None}     \* None: a PART line has no unitCost

ASSUME BooksAssumption ==
    /\ Owners \in [Jobs -> Customers]
    /\ Quote \in [Jobs -> Subtotals] /\ \A s \in Subtotals : s \in Nat /\ s % 20 = 0
    /\ PartsCost \in Nat \ {0} /\ Opening \in Nat /\ LastPeriod \in Nat
    /\ None \notin Invs \union Jobs /\ Advs \intersect Nat = {}
    /\ IsFiniteSet(Invs) /\ IsFiniteSet(Advs) /\ IsFiniteSet(Emirates)
    /\ Workloads \subseteq [Works -> Nat]

VARIABLES
    now,        \* the accounting period
    ledger,     \* LedgerEntry, as postings
    inv,        \* Invoice, its payments, and the cost its lines carry
    card,       \* JobCard: invoiceSentAt, invoiceDeliveredAt
    owner,      \* owner[j]: Vehicle.customerId of job j's vehicle
    advance,    \* AdvancePayment; inv: what it was migrated to
    paper,      \* Expense and SupplierBill
    garage,     \* Garage: cogsEnabled, emirate
    work,       \* what is left of the workload
    ghosts,     \* history: invoices written to once void, or void before any row
    flipped     \* history: cogsEnabled has been changed

bookVars == <<now, ledger, inv, card, owner, advance, paper, garage, work, ghosts, flipped>>

-----------------------------------------------------------------------------
(* Accounts and postings.  EXPENSES is any of the eleven expense accounts.  *)

AccountType == [
    AR |-> "ASSET", CASH |-> "ASSET", INVENTORY |-> "ASSET", VAT_INPUT |-> "ASSET",
    AP |-> "LIABILITY", VAT_PAYABLE |-> "LIABILITY", DEPOSITS |-> "LIABILITY",
    SALES |-> "REVENUE", COGS |-> "EXPENSE", EXPENSES |-> "EXPENSE",
    OPENING_BALANCE_EQUITY |-> "EQUITY"]

Accounts == DOMAIN AccountType

Rows(f)  == [a \in Accounts |-> IF a \in DOMAIN f THEN f[a] ELSE 0]
Minus(f) == [a \in DOMAIN f |-> -f[a]]
Posting(type, id, f) == [type |-> type, id |-> id, at |-> now, rows |-> Rows(f)]
Of(type, id) == {e \in ledger : e.type = type /\ e.id = id}

Balance(a, es) == SumFunction([e \in es |-> e.rows[a]])

VatOn(sub) == (sub * 5) \div 100
Total(i)   == inv[i].sub + VatOn(inv[i].sub)
Paid(i)    == SumFunction([p \in inv[i].pays |-> p.amount])

invoiceLedger(sub) ==
    [AR |-> sub + VatOn(sub), SALES |-> -sub, VAT_PAYABLE |-> -VatOn(sub)]

\* Bug: the reversal is of the amount before VAT.
voidReversalNet(sub) == [AR |-> -sub, SALES |-> sub]

voidReversalLedger(sub)   == Minus(invoiceLedger(sub))
paymentLedger(n)          == [CASH |-> n, AR |-> -n]
advanceLedger(n)          == [CASH |-> n, DEPOSITS |-> -n]
advanceMigrationLedger(n) == [DEPOSITS |-> n, AR |-> -n]
cogsLedger(n)             == [COGS |-> n, INVENTORY |-> -n]

-----------------------------------------------------------------------------
(* Invoices and advances.                                                  *)

NoInv == [status |-> "NONE", job |-> None, created |-> 0, emirate |-> None, sub |-> 0,
          cost |-> 0, prev |-> {}, pays |-> {}]
Issued  == {i \in Invs : inv[i].status # "NONE"}
Made(j) == {i \in Issued : inv[i].job = j}
Free    == {i \in Invs : inv[i].status = "NONE"}
Do(w)   == work[w] > 0 /\ work' = [work EXCEPT ![w] = @ - 1]

CogsRows(i, cost) ==
    IF garage.cogs /\ cost \notin {0, None} THEN {Posting("INVOICE_COGS", i, cogsLedger(cost))}
                                            ELSE {}

Haunt(i, really) == ghosts' = IF really THEN ghosts \union {i} ELSE ghosts

\* generateInvoiceAction: the invoice and its rows, its cost if every part has one,
\* and the advances taken before it become payments.
Generate(j, i, cost) ==
    LET mine == {a \in Advs : advance[a].job = j /\ advance[a].inv = None}
        paid == SumFunction([a \in mine |-> advance[a].amount])
        due  == Quote[j] + VatOn(Quote[j])
    IN
    /\ Made(j) = {}
    /\ Do("generate")
    /\ inv' = [inv EXCEPT ![i] =
                 [NoInv EXCEPT !.status = IF paid >= due THEN "PAID" ELSE "SENT", !.job = j,
                    !.created = now, !.emirate = garage.emirate, !.sub = Quote[j], !.cost = cost,
                    !.pays = {[id |-> <<i, a>>, amount |-> advance[a].amount] : a \in mine}]]
    /\ ledger' = ledger \union {Posting("INVOICE", i, invoiceLedger(Quote[j]))}
                        \union CogsRows(i, cost)
                        \union {Posting("ADVANCE_MIGRATION", a,
                                        advanceMigrationLedger(advance[a].amount)) : a \in mine}
    /\ advance' = [a \in Advs |-> IF a \in mine THEN [advance[a] EXCEPT !.inv = i] ELSE advance[a]]
    /\ UNCHANGED <<now, card, owner, paper, garage, ghosts, flipped>>

\* An edit of the lines, or what an estimate approved later adds: the INVOICE rows
\* are deleted and written anew, dated now; the cost rows only with cogsEnabled.
\* Nothing looks at the status.  Lines of a correction, and new ones, carry no cost.
Rebook(i, sub, cost) ==
    /\ ~card[inv[i].job].delivered
    /\ inv[i].prev # {} => cost # PartsCost
    /\ Do("rebook")
    /\ inv' = [inv EXCEPT ![i].sub = sub, ![i].cost = cost]
    /\ ledger' = (ledger \ (Of("INVOICE", i) \union
                            IF garage.cogs THEN Of("INVOICE_COGS", i) ELSE {}))
                 \union {Posting("INVOICE", i, invoiceLedger(sub))} \union CogsRows(i, cost)
    /\ Haunt(i, inv[i].status = "VOID")
    /\ UNCHANGED <<now, card, owner, advance, paper, garage, flipped>>

\* sendInvoiceToCustomerAction: a correction gets its INVOICE rows here, and no cost.
Send(i) ==
    LET first == inv[i].prev # {} /\ Of("INVOICE", i) = {} IN
    /\ Do("send")
    /\ card' = [card EXCEPT ![inv[i].job].sent = TRUE]
    /\ ledger' = IF first THEN ledger \union {Posting("INVOICE", i, invoiceLedger(inv[i].sub))}
                          ELSE ledger
    /\ Haunt(i, first /\ inv[i].status = "VOID")
    /\ UNCHANGED <<now, inv, owner, advance, paper, garage, flipped>>

\* The delivery report that ownedEditableInvoice and voidInvoiceAction wait for.
Deliver(j) ==
    /\ card[j].sent /\ ~card[j].delivered
    /\ Do("deliver")
    /\ card' = [card EXCEPT ![j].delivered = TRUE]
    /\ UNCHANGED <<now, ledger, inv, owner, advance, paper, garage, ghosts, flipped>>

\* Bug: the rows of a payment name the invoice.
SourceIsInvoice(i, p) == i

Source(i, p) == p.id

\* recordPaymentAction; it does not look at the status either.
Pay(i, n) ==
    LET p == [id |-> <<i, Cardinality(inv[i].pays)>>, amount |-> n] IN
    /\ Paid(i) + n <= Total(i)
    /\ Do("pay")
    /\ inv' = [inv EXCEPT ![i].pays = @ \union {p},
                          ![i].status = IF Paid(i) + n >= Total(i) THEN "PAID" ELSE @]
    /\ ledger' = ledger \union {Posting("PAYMENT", Source(i, p), paymentLedger(n))}
    /\ Haunt(i, inv[i].status = "VOID")
    /\ UNCHANGED <<now, card, owner, advance, paper, garage, flipped>>

\* recordAdvancePaymentAction
Advance(a, j, n) ==
    LET others == {b \in Advs : advance[b].job = j} IN
    /\ advance[a].job = None /\ Made(j) = {}
    /\ SumFunction([b \in others |-> advance[b].amount]) + n <= Quote[j] + VatOn(Quote[j])
    /\ Do("advance")
    /\ advance' = [advance EXCEPT ![a] = [job |-> j, amount |-> n, inv |-> None]]
    /\ ledger' = ledger \union {Posting("ADVANCE", a, advanceLedger(n))}
    /\ UNCHANGED <<now, inv, card, owner, paper, garage, ghosts, flipped>>

\* voidInvoiceAction: reverses what the row says, and the cost rows it finds.
Void(i) ==
    /\ inv[i].status \in {"DRAFT", "SENT"} /\ card[inv[i].job].delivered
    /\ Do("void")
    /\ inv' = [inv EXCEPT ![i].status = "VOID"]
    /\ ledger' = ledger
           \union {Posting("INVOICE_VOID", i, voidReversalLedger(inv[i].sub))}
           \union {Posting("INVOICE_COGS_ADJUSTMENT", i, Minus(cogsLedger(e.rows.COGS))) :
                       e \in Of("INVOICE_COGS", i)}
    /\ Haunt(i, Of("INVOICE", i) = {})
    /\ UNCHANGED <<now, card, owner, advance, paper, garage, flipped>>

\* reissueInvoiceAction: a DRAFT with the amounts of the void, the emirate of today,
\* lines without their cost, and no rows.
Reissue(i, k) ==
    /\ inv[i].status = "VOID" /\ \A l \in Invs : i \notin inv[l].prev
    /\ Do("reissue")
    /\ inv' = [inv EXCEPT ![k] =
                 [NoInv EXCEPT !.status = "DRAFT", !.job = inv[i].job, !.created = now,
                    !.emirate = garage.emirate, !.sub = inv[i].sub, !.prev = {i},
                    !.cost = IF inv[i].cost = 0 THEN 0 ELSE None]]
    /\ card' = [card EXCEPT ![inv[i].job] = [sent |-> FALSE, delivered |-> FALSE]]
    /\ UNCHANGED <<now, ledger, owner, advance, paper, garage, ghosts, flipped>>

-----------------------------------------------------------------------------
(* Expenses, bills, settings, time.                                        *)

NoPaper == [kind |-> "NONE", sub |-> 0, status |-> "NONE"]
PaperRows(kind, sub) ==
    IF kind = "EXPENSE"
    THEN [EXPENSES |-> sub, VAT_INPUT |-> VatOn(sub), CASH |-> -(sub + VatOn(sub))]
    ELSE [INVENTORY |-> sub, VAT_INPUT |-> VatOn(sub), AP |-> -(sub + VatOn(sub))]

\* recordExpenseAction, createBillFromReceive: the rows are dated now, whatever
\* paidAt or billDate says.
Spending(d, kind, sub) ==
    /\ paper[d] = NoPaper
    /\ Do("spend")
    /\ paper' = [paper EXCEPT ![d] = [kind |-> kind, sub |-> sub, status |-> "ACTIVE"]]
    /\ ledger' = ledger \union {Posting(kind, d, PaperRows(kind, sub))}
    /\ UNCHANGED <<now, inv, card, owner, advance, garage, ghosts, flipped>>

\* voidExpenseAction, under the expense's own type, and voidSupplierBillAction.
Unspend(d) ==
    LET type == IF paper[d].kind = "EXPENSE" THEN "EXPENSE" ELSE "SUPPLIER_BILL_ADJUSTMENT" IN
    /\ paper[d].status = "ACTIVE"
    /\ Do("unspend")
    /\ paper' = [paper EXCEPT ![d].status = "VOID"]
    /\ ledger' = ledger \union {Posting(type, d, Minus(PaperRows(paper[d].kind, paper[d].sub)))}
    /\ UNCHANGED <<now, inv, card, owner, advance, garage, ghosts, flipped>>

\* No action sets cogsEnabled; it is set in the database.
FlipCogs ==
    /\ Do("flip")
    /\ garage' = [garage EXCEPT !.cogs = ~@] /\ flipped' = TRUE
    /\ UNCHANGED <<now, ledger, inv, card, owner, advance, paper, ghosts>>

\* updateGarageEmirateAction
SetEmirate(m) ==
    /\ Do("emirate")
    /\ garage' = [garage EXCEPT !.emirate = m]
    /\ UNCHANGED <<now, ledger, inv, card, owner, advance, paper, ghosts, flipped>>

\* The vehicle of a job changes hands (Intake).
Transfer(j, c) ==
    /\ owner[j] # c
    /\ Do("transfer")
    /\ owner' = [owner EXCEPT ![j] = c]
    /\ UNCHANGED <<now, ledger, inv, card, advance, paper, garage, ghosts, flipped>>

Tick ==
    /\ now < LastPeriod
    /\ now' = now + 1
    /\ UNCHANGED <<ledger, inv, card, owner, advance, paper, garage, work, ghosts, flipped>>

-----------------------------------------------------------------------------

BooksInit ==
    /\ Init
    /\ now = 0 /\ ledger = {} /\ ghosts = {} /\ flipped = FALSE
    /\ inv = [i \in Invs |-> NoInv]
    /\ card = [j \in Jobs |-> [sent |-> FALSE, delivered |-> FALSE]]
    /\ owner = Owners
    /\ advance = [a \in Advs |-> [job |-> None, amount |-> 0, inv |-> None]]
    /\ paper = [d \in Papers |-> NoPaper]
    /\ garage \in [cogs: BOOLEAN, emirate: {None}]
    /\ work \in Workloads

Amounts == {Total(i) - Paid(i) : i \in Issued} \union {1}

BookStep ==
    \/ \E j \in Jobs, i \in Free, cost \in Costs : Generate(j, i, cost)
    \/ \E i \in Issued, sub \in Subtotals, cost \in Costs : Rebook(i, sub, cost)
    \/ \E i \in Issued : Send(i) \/ Void(i) \/ \E k \in Free : Reissue(i, k)
    \/ \E i \in Issued, n \in Amounts \ {0} : n > 0 /\ Pay(i, n)
    \/ \E a \in Advs, j \in Jobs : \E n \in {1, Quote[j] + VatOn(Quote[j])} : Advance(a, j, n)
    \/ \E d \in Papers, kind \in {"EXPENSE", "SUPPLIER_BILL"}, sub \in Subtotals :
          Spending(d, kind, sub)
    \/ \E d \in Papers : Unspend(d)
    \/ \E j \in Jobs : Deliver(j) \/ \E c \in Live : Transfer(j, c)
    \/ FlipCogs \/ Tick \/ \E m \in Emirates : SetEmirate(m)

BooksNext == (BookStep /\ UNCHANGED vars) \/ (Next /\ UNCHANGED bookVars)

BooksSpec == BooksInit /\ [][BooksNext]_<<vars, bookVars>>

-----------------------------------------------------------------------------
(* The reports.                                                            *)

\* Opening balances are dated as the file says: before the first period ends.
Openings ==
    {[type |-> "OPENING_BALANCE", id |-> d, at |-> 0,
      rows |-> Rows([AR |-> Opening, OPENING_BALANCE_EQUITY |-> -Opening])] :
        d \in UNION {{c} \X balance[c] : c \in Customers}}

Posted      == ledger \union Openings
In(p)       == {e \in Posted : e.at = p}
Before(p)   == {e \in Posted : e.at < p}
OfType(t)   == {a \in Accounts : AccountType[a] = t}
BalanceOf(as, es) == SumFunction([a \in as |-> Balance(a, es)])

\* Bug: the emirate is the garage's, not the one the invoice was issued with.
EmirateOfGarage(i) == garage.emirate

EmirateOf(i) == inv[i].emirate

\* Bug: a void counts in the period its invoice was created in, or nowhere.
EarlierNone(p) == {}

\* Voids of invoices created in another period: adjustments.
Earlier(p) == {e \in In(p) : e.type = "INVOICE_VOID" /\ inv[e.id].created # p}

\* computeVatSummary, by emirate: VAT charged in the period, less what voids take
\* back of it; the adjustments; input VAT, and what is payable.
VatSummary(p) ==
    LET own         == {e \in In(p) : e.type = "INVOICE"}
                         \union {e \in In(p) : e.type = "INVOICE_VOID" /\ inv[e.id].created = p}
        standard(m) == -Balance("VAT_PAYABLE", {e \in own : EmirateOf(e.id) = m})
        adjusted(m) == Balance("VAT_PAYABLE", {e \in Earlier(p) : EmirateOf(e.id) = m})
        all         == Emirates \union {None}
    IN [standardVat   |-> [m \in all |-> standard(m)],
        adjustmentVat |-> [m \in all |-> adjusted(m)],
        inputVat      |-> Balance("VAT_INPUT", In(p)),
        netPayable    |-> SumFunction([m \in all |-> standard(m) - adjusted(m)])
                              - Balance("VAT_INPUT", In(p))]

\* computePnl
Pnl(p) ==
    LET revenue  == -BalanceOf(OfType("REVENUE"), In(p))
        cogs     == Balance("COGS", In(p))
        expenses == BalanceOf(OfType("EXPENSE") \ {"COGS"}, In(p))
    IN [revenue |-> revenue, cogs |-> cogs, expenses |-> expenses,
        netProfit |-> (revenue - cogs) - expenses]

\* computeStatements
Statements(asOf) ==
    LET net(t)  == BalanceOf(OfType(t), Before(asOf))
        profit  == -net("REVENUE") - net("EXPENSE")
    IN [assets |-> net("ASSET"), liabilities |-> -net("LIABILITY"), equity |-> -net("EQUITY"),
        accumulatedProfit |-> profit,
        outOfBalanceBy |-> net("ASSET") - (-net("LIABILITY") + (-net("EQUITY") + profit))]

\* loadCustomerStatement, over the vehicles the customer owns now.
CustomerStatement(c) ==
    LET mine == {i \in Issued : owner[inv[i].job] = c /\ inv[i].status # "VOID"}
        open == {a \in Advs : advance[a].job # None /\ advance[a].inv = None
                                /\ owner[advance[a].job] = c}
    IN [invoicesOutstanding |-> SumFunction([i \in mine |-> Total(i) - Paid(i)]),
        advancesCredit      |-> SumFunction([a \in open |-> advance[a].amount])]

\* unpaidInvoicesAging: the AR rows of each invoice, those of payments and migrated
\* advances found through the Payment they point at.
PerInvoice(i) ==
    Balance("AR", Of("INVOICE", i) \union Of("INVOICE_VOID", i)
                  \union (UNION {Of("PAYMENT", p.id) : p \in inv[i].pays})
                  \union (UNION {Of("ADVANCE_MIGRATION", a) : a \in {b \in Advs : advance[b].inv = i}}))

UnpaidAging(i) == IF PerInvoice(i) > 0 THEN PerInvoice(i) ELSE 0

\* whoOwes: every invoice that is not PAID and has something left.
WhoOwes(i) == IF inv[i].status # "PAID" /\ Total(i) > Paid(i) THEN Total(i) - Paid(i) ELSE 0

-----------------------------------------------------------------------------
(* Properties.                                                             *)

Standing == {i \in Issued \ ghosts : inv[i].status # "VOID"}
Unposted == {i \in Issued : Of("INVOICE", i) = {}}

\* What a customer's statement, the ageing of the dashboard and the list of who owes
\* say of an invoice is what the ledger says (owner-dashboard.ts: "If the
\* invoice-side sum disagrees, THAT is the bug"), through payments, advances, edits,
\* voids, corrections and changes of owner; but for corrections that are not posted
\* yet, invoices written to once void, and invoices edited upwards once PAID.  Void
\* invoices, which whoOwes lists as owed, are left out (Standing).
StatementMatches(c) ==
    LET mine == {i \in Issued : owner[inv[i].job] = c}  s == CustomerStatement(c) IN
    /\ mine \intersect ghosts = {} =>
          s.invoicesOutstanding = SumFunction([i \in mine \intersect Standing |-> PerInvoice(i)])
                                  + SumFunction([i \in mine \intersect Unposted |-> Total(i)])
    /\ s.advancesCredit = -Balance("DEPOSITS",
          {e \in ledger : e.type \in {"ADVANCE", "ADVANCE_MIGRATION"}
                            /\ owner[advance[e.id].job] = c})

StatementsMatchLedger ==
    /\ \A c \in Customers : StatementMatches(c)
    /\ \A i \in Standing \ Unposted :
          WhoOwes(i) = UnpaidAging(i) \/ (inv[i].status = "PAID" /\ Total(i) > Paid(i))

\* A period that is over keeps its VAT return and its profit and loss, but for an
\* edit of one of its invoices, which moves the invoice's rows, or those of its cost,
\* to the current period; the two part when cogsEnabled is off during one edit.
ClosedPeriodsStand ==
    [][\A p \in 0..(now - 1) :
          \/ Pnl(p)' = Pnl(p) /\ VatSummary(p)' = VatSummary(p)
          \/ \E i \in Issued : \E e \in Of("INVOICE", i) \union Of("INVOICE_COGS", i) :
                e.at = p /\ e \notin ledger'
      ]_<<vars, bookVars>>

\* The balance sheet of every date balances, its profit is that of the periods before,
\* the VAT returns sum up to the VAT accounts, and every AR row is an invoice's or an
\* opening balance.
ReportsAddUp ==
    LET periods == 0..LastPeriod IN
    /\ \A p \in periods :
          LET s == Statements(p + 1) IN
          /\ s.outOfBalanceBy = 0
          /\ s.accumulatedProfit = SumFunction([q \in 0..p |-> Pnl(q).netProfit])
    /\ SumFunction([p \in periods |-> VatSummary(p).netPayable])
          = -Balance("VAT_PAYABLE", Posted) - Balance("VAT_INPUT", Posted)
    /\ Balance("AR", Posted)
          = SumFunction([i \in Issued |-> PerInvoice(i)]) + Balance("AR", Openings)

\* A void leaves nothing of the sale on any account, its cost included, and while
\* cogsEnabled is not changed the cost booked is that of the lines.
VoidUndoesSale ==
    \A i \in Issued \ ghosts :
        LET its == UNION {Of(t, i) : t \in {"INVOICE", "INVOICE_VOID", "INVOICE_COGS",
                                            "INVOICE_COGS_ADJUSTMENT"}}
        IN IF inv[i].status = "VOID" THEN \A a \in Accounts : Balance(a, its) = 0
           ELSE flipped \/ Balance("COGS", its) =
                    IF garage.cogs /\ inv[i].cost # None THEN inv[i].cost ELSE 0

=============================================================================
