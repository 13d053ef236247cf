------------------------------ MODULE Payables ------------------------------
(***************************************************************************)
(* Supplier bills, the payments allocated to them, and expenses            *)
(* (src/app/actions/supplier-payments.ts, src/lib/supplier-bills.ts,       *)
(* src/app/actions/expenses.ts).                                           *)
(*                                                                         *)
(* A bill is opened inside the transaction of the receipt it is for        *)
(* (Purchasing takes OpenBill into its own commit).  Everything else here  *)
(* is a request that reads what it acts on, decides, and then commits one  *)
(* transaction; between the two other requests may commit theirs.          *)
(***************************************************************************)
EXTENDS Naturals, Integers, FiniteSets

CONSTANTS
    Bills, Expenses,   \* rows that may be created
    Desks,             \* requests of this component that may be under way at once
    MaxAmount          \* the largest total and allocation

ASSUME PayablesAssumption == MaxAmount \in Nat

VARIABLES
    bill,       \* SupplierBill with the sum of its allocations
    ap,         \* ap[b]: what the ledger's AP account owes for bill b
    expense,    \* Expense
    cash,       \* cash[x]: what the ledger's CASH account has paid for expense x
    desk,       \* desk[d]: a request's locals between its read and its transaction
    unwound     \* history: documents voided after they were no longer what was read

payVars == <<bill, ap, expense, cash, desk, unwound>>

Payable == {"OPEN", "PARTIALLY_PAID"}
BillStatuses == Payable \union {"NONE", "PAID", "VOID"}
ExpenseStatuses == {"NONE", "ACTIVE", "VOID"}

NoBill    == [status |-> "NONE", total |-> 0, paid |-> 0]
NoExpense == [status |-> "NONE", total |-> 0]
FreeDesk  == [pc |-> "idle", alloc |-> [b \in Bills |-> 0], doc |-> {}]

At(d, pc, alloc, doc) ==
    desk' = [desk EXCEPT ![d] = [pc |-> pc, alloc |-> alloc, doc |-> doc]]
Leave(d) == desk' = [desk EXCEPT ![d] = FreeDesk]

-----------------------------------------------------------------------------
(* Bills.                                                                  *)

\* createBillFromReceive: a bill with its DR INVENTORY, DR VAT_INPUT, CR AP rows.
\* The operator may override the subtotal; at zero there is no bill.
OpenBill(b, total) ==
    /\ bill[b].status = "NONE"
    /\ bill' = [bill EXCEPT ![b] = [status |-> "OPEN", total |-> total, paid |-> 0]]
    /\ ap' = [ap EXCEPT ![b] = @ + total]
    /\ UNCHANGED <<expense, cash, desk, unwound>>

\* recordSupplierPaymentAction: the bills chosen are looked up first; how much of
\* each is still owed is left to the transaction.
PayRead(d, alloc) ==
    LET chosen == {b \in Bills : alloc[b] > 0} IN
    /\ desk[d].pc = "idle"
    /\ chosen # {} /\ \A b \in chosen : bill[b].status \in Payable
    /\ At(d, "pay", alloc, {})
    /\ UNCHANGED <<bill, ap, expense, cash, unwound>>

\* The guard each UPDATE of the transaction re-tests on its locked row.
StillOwed(b, n) == bill[b].status \in Payable /\ bill[b].paid + n <= bill[b].total

Paid(b, n) ==
    [status |-> IF bill[b].paid + n >= bill[b].total THEN "PAID" ELSE "PARTIALLY_PAID",
     total  |-> bill[b].total,
     paid   |-> bill[b].paid + n]

\* Bug: the transaction trusts the prefetch.
PayWriteUnguarded(d) ==
    LET alloc == desk[d].alloc IN
    /\ desk[d].pc = "pay"
    /\ bill' = [b \in Bills |-> IF alloc[b] > 0 THEN Paid(b, alloc[b]) ELSE bill[b]]
    /\ ap' = [b \in Bills |-> ap[b] - alloc[b]]
    /\ Leave(d)
    /\ UNCHANGED <<expense, cash, unwound>>

\* Payment, guarded updates, allocations and DR AP, CR CASH for each: all or none.
PayWrite(d) ==
    LET alloc == desk[d].alloc IN
    /\ desk[d].pc = "pay"
    /\ IF \A b \in Bills : alloc[b] > 0 => StillOwed(b, alloc[b])
       THEN /\ bill' = [b \in Bills |-> IF alloc[b] > 0 THEN Paid(b, alloc[b]) ELSE bill[b]]
            /\ ap' = [b \in Bills |-> ap[b] - alloc[b]]
       ELSE UNCHANGED <<bill, ap>>
    /\ Leave(d)
    /\ UNCHANGED <<expense, cash, unwound>>

\* voidSupplierBillAction: refused once void or paid on ...
VoidBillRead(d, b) ==
    /\ desk[d].pc = "idle"
    /\ bill[b].status \notin {"NONE", "VOID"} /\ bill[b].paid = 0
    /\ At(d, "voidBill", FreeDesk.alloc, {b})
    /\ UNCHANGED <<bill, ap, expense, cash, unwound>>

\* Bug: the bill is marked and its rows stay booked.
VoidBillNoReversal(d) ==
    \E b \in desk[d].doc :
        /\ desk[d].pc = "voidBill"
        /\ bill' = [bill EXCEPT ![b].status = "VOID"]
        /\ Leave(d)
        /\ UNCHANGED <<ap, expense, cash, unwound>>

\* ... and then written by id, with rows that reverse the total.
VoidBillWrite(d) ==
    \E b \in desk[d].doc :
        /\ desk[d].pc = "voidBill"
        /\ bill' = [bill EXCEPT ![b].status = "VOID"]
        /\ ap' = [ap EXCEPT ![b] = @ - bill[b].total]
        /\ unwound' = IF bill[b].status = "OPEN" THEN unwound ELSE unwound \union {b}
        /\ Leave(d)
        /\ UNCHANGED <<expense, cash>>

-----------------------------------------------------------------------------
(* Expenses.                                                               *)

\* recordExpenseAction: the row and its balanced rows, in one transaction.
RecordExpense(x, total) ==
    /\ expense[x].status = "NONE"
    /\ expense' = [expense EXCEPT ![x] = [status |-> "ACTIVE", total |-> total]]
    /\ cash' = [cash EXCEPT ![x] = @ + total]
    /\ UNCHANGED <<bill, ap, desk, unwound>>

\* voidExpenseAction, likewise in two steps.
VoidExpenseRead(d, x) ==
    /\ desk[d].pc = "idle" /\ expense[x].status = "ACTIVE"
    /\ At(d, "voidExpense", FreeDesk.alloc, {x})
    /\ UNCHANGED <<bill, ap, expense, cash, unwound>>

VoidExpenseWrite(d) ==
    \E x \in desk[d].doc :
        /\ desk[d].pc = "voidExpense"
        /\ expense' = [expense EXCEPT ![x].status = "VOID"]
        /\ cash' = [cash EXCEPT ![x] = @ - expense[x].total]
        /\ unwound' = IF expense[x].status = "ACTIVE" THEN unwound ELSE unwound \union {x}
        /\ Leave(d)
        /\ UNCHANGED <<bill, ap>>

\* A function is killed before its transaction commits.
DeskKilled(d) ==
    /\ desk[d].pc # "idle"
    /\ Leave(d)
    /\ UNCHANGED <<bill, ap, expense, cash, unwound>>

-----------------------------------------------------------------------------
PayInit ==
    /\ bill = [b \in Bills |-> NoBill] /\ ap = [b \in Bills |-> 0]
    /\ expense = [x \in Expenses |-> NoExpense] /\ cash = [x \in Expenses |-> 0]
    /\ desk = [d \in Desks |-> FreeDesk] /\ unwound = {}

-----------------------------------------------------------------------------
(* Properties.                                                             *)

\* Types of this component, and of the documents a request under way is about.
PayTypeOK ==
    /\ bill \in [Bills -> [status: BillStatuses, total: Nat, paid: Nat]]
    /\ ap \in [Bills -> Int]
    /\ expense \in [Expenses -> [status: ExpenseStatuses, total: Nat]]
    /\ cash \in [Expenses -> Int]
    /\ desk \in [Desks -> [pc: {"idle", "pay", "voidBill", "voidExpense"},
                           alloc: [Bills -> Nat], doc: SUBSET (Bills \union Expenses)]]
    /\ \A d \in Desks : /\ desk[d].pc = "voidBill" => desk[d].doc \subseteq Bills
                        /\ desk[d].pc = "voidExpense" => desk[d].doc \subseteq Expenses
    /\ unwound \subseteq Bills \union Expenses

\* A bill is never paid above its total, its status says how much of it is paid,
\* and a void bill has no payment unless the void was overtaken
\* (supplier-payments.ts: "this action never unwinds a paid bill silently").
BillFitsPayments ==
    \A b \in Bills :
        /\ bill[b].paid <= bill[b].total
        /\ bill[b].status \in {"NONE", "OPEN"} => bill[b].paid = 0
        /\ bill[b].status = "PARTIALLY_PAID" => bill[b].paid \in 1..(bill[b].total - 1)
        /\ bill[b].status = "PAID" => bill[b].paid = bill[b].total
        /\ bill[b].status = "VOID" /\ b \notin unwound => bill[b].paid = 0

\* The ledger owes each supplier what the bill has left, and has paid each
\* expense that stands, once; only a void that was overtaken (by a payment, or by
\* another void) can part the books from the documents (expenses.ts: "the two
\* posts net to zero").
BooksMatchDocuments ==
    /\ \A b \in Bills \ unwound :
          ap[b] = IF bill[b].status = "VOID" THEN 0 ELSE bill[b].total - bill[b].paid
    /\ \A x \in Expenses \ unwound :
          cash[x] = IF expense[x].status = "ACTIVE" THEN expense[x].total ELSE 0
=============================================================================
