-------------------------- MODULE PurchasingProofs --------------------------
(* Safety of Purchasing and of the Payables it includes, proved for every  *)
(* value of their constants.                                               *)
EXTENDS Purchasing, SumLemmas

(***************************************************************************)
(* Bills, payments and expenses (Payables).                                *)
(***************************************************************************)

\* A row that was never created holds nothing.
Unborn ==
    /\ \A b \in Bills : bill[b].status = "NONE" => bill[b].total = 0 /\ bill[b].paid = 0
    /\ \A x \in Expenses : expense[x].status = "NONE" => expense[x].total = 0

PayInv == PayTypeOK /\ Unborn /\ BillFitsPayments /\ BooksMatchDocuments

\* What Purchasing lets this component do in one step.
PayStep ==
    \/ \E b \in Bills, n \in Nat : OpenBill(b, n)
    \/ \E x \in Expenses, n \in Nat : RecordExpense(x, n)
    \/ \E d \in Desks :
          \/ PayWrite(d) \/ VoidBillWrite(d) \/ VoidExpenseWrite(d) \/ DeskKilled(d)
          \/ \E alloc \in [Bills -> Nat] : PayRead(d, alloc)
          \/ \E b \in Bills : VoidBillRead(d, b)
          \/ \E x \in Expenses : VoidExpenseRead(d, x)

LEMMA PayInitInv == PayInit => PayInv
<1> SUFFICES ASSUME PayInit PROVE PayInv
  OBVIOUS
<1> USE DEF PayInit, NoBill, NoExpense, FreeDesk
<1>1. PayTypeOK
  BY DEF PayTypeOK, BillStatuses, ExpenseStatuses
<1>2. Unborn /\ BillFitsPayments /\ BooksMatchDocuments
  BY DEF Unborn, BillFitsPayments, BooksMatchDocuments
<1> QED BY <1>1, <1>2 DEF PayInv

\* Requests that only read.
LEMMA DeskOnlyInv ==
    ASSUME PayInv, UNCHANGED <<bill, ap, expense, cash, unwound>>,
           PayTypeOK'
    PROVE  PayInv'
BY DEF PayInv, Unborn, BillFitsPayments, BooksMatchDocuments

LEMMA LeaveType ==
    ASSUME PayTypeOK, NEW d \in Desks, Leave(d)
    PROVE  /\ desk' \in [Desks -> [pc: {"idle", "pay", "voidBill", "voidExpense"},
                                   alloc: [Bills -> Nat], doc: SUBSET (Bills \union Expenses)]]
           /\ \A e \in Desks : /\ desk'[e].pc = "voidBill" => desk'[e].doc \subseteq Bills
                               /\ desk'[e].pc = "voidExpense" => desk'[e].doc \subseteq Expenses
BY DEF PayTypeOK, Leave, FreeDesk

LEMMA ReadInv ==
    ASSUME PayInv, NEW d \in Desks,
           \/ DeskKilled(d)
           \/ \E alloc \in [Bills -> Nat] : PayRead(d, alloc)
           \/ \E b \in Bills : VoidBillRead(d, b)
           \/ \E x \in Expenses : VoidExpenseRead(d, x)
    PROVE  PayInv'
<1> USE DEF PayInv, FreeDesk, At
<1>1. CASE DeskKilled(d)
  BY <1>1, LeaveType, DeskOnlyInv DEF DeskKilled, PayTypeOK
<1>2. ASSUME NEW alloc \in [Bills -> Nat], PayRead(d, alloc) PROVE PayInv'
  <2>1. PayTypeOK'
    BY <1>2 DEF PayTypeOK, PayRead
  <2> QED BY <1>2, <2>1, DeskOnlyInv DEF PayRead
<1>3. ASSUME NEW b \in Bills, VoidBillRead(d, b) PROVE PayInv'
  <2>1. PayTypeOK'
    BY <1>3 DEF PayTypeOK, VoidBillRead
  <2> QED BY <1>3, <2>1, DeskOnlyInv DEF VoidBillRead
<1>4. ASSUME NEW x \in Expenses, VoidExpenseRead(d, x) PROVE PayInv'
  <2>1. PayTypeOK'
    BY <1>4 DEF PayTypeOK, VoidExpenseRead
  <2> QED BY <1>4, <2>1, DeskOnlyInv DEF VoidExpenseRead
<1> QED BY <1>1, <1>2, <1>3, <1>4

\* A receipt opens a bill that was not there.
LEMMA OpenBillInv ==
    ASSUME PayInv, NEW b \in Bills, NEW n \in Nat, OpenBill(b, n)
    PROVE  PayInv'
<1> USE DEF PayInv, OpenBill
<1>1. PayTypeOK'
  BY DEF PayTypeOK, BillStatuses, Payable
<1>2. Unborn' /\ BillFitsPayments'
  BY DEF Unborn, BillFitsPayments, PayTypeOK
<1>3. BooksMatchDocuments'
  BY DEF Unborn, BooksMatchDocuments, PayTypeOK
<1> QED BY <1>1, <1>2, <1>3

LEMMA RecordExpenseInv ==
    ASSUME PayInv, NEW x \in Expenses, NEW n \in Nat, RecordExpense(x, n)
    PROVE  PayInv'
<1> USE DEF PayInv, RecordExpense
<1>1. PayTypeOK'
  BY DEF PayTypeOK, ExpenseStatuses
<1>2. Unborn' /\ BillFitsPayments'
  BY DEF Unborn, BillFitsPayments, PayTypeOK
<1>3. BooksMatchDocuments'
  BY DEF Unborn, BooksMatchDocuments, PayTypeOK
<1> QED BY <1>1, <1>2, <1>3

LEMMA PaidFacts ==
    ASSUME NEW b \in Bills, NEW n \in Nat,
           bill[b] \in [status: BillStatuses, total: Nat, paid: Nat]
    PROVE  /\ Paid(b, n) \in [status: BillStatuses, total: Nat, paid: Nat]
           /\ Paid(b, n).paid = bill[b].paid + n /\ Paid(b, n).total = bill[b].total
           /\ Paid(b, n).status = IF bill[b].paid + n >= bill[b].total
                                  THEN "PAID" ELSE "PARTIALLY_PAID"
BY DEF Paid, BillStatuses, Payable

\* A payment that is not refused pays no bill above its total.
LEMMA PayWriteInv ==
    ASSUME PayInv, NEW d \in Desks, PayWrite(d)
    PROVE  PayInv'
<1> DEFINE alloc == desk[d].alloc
<1> USE DEF PayInv, PayWrite
<1>0. alloc \in [Bills -> Nat]
  BY DEF PayTypeOK
<1>1. CASE \A b \in Bills : alloc[b] > 0 => StillOwed(b, alloc[b])
  <2>0. bill' = [b \in Bills |-> IF alloc[b] > 0 THEN Paid(b, alloc[b]) ELSE bill[b]]
    BY <1>1
  <2>1. \A b \in Bills : alloc[b] > 0 =>
           /\ bill[b].status \in Payable /\ bill[b].paid + alloc[b] <= bill[b].total
           /\ bill'[b] \in [status: BillStatuses, total: Nat, paid: Nat]
           /\ bill'[b].paid = bill[b].paid + alloc[b] /\ bill'[b].total = bill[b].total
           /\ bill'[b].status = IF bill[b].paid + alloc[b] >= bill[b].total
                                THEN "PAID" ELSE "PARTIALLY_PAID"
    <3> TAKE b \in Bills
    <3> HAVE alloc[b] > 0
    <3>1. bill'[b] = Paid(b, alloc[b])
      BY <2>0
    <3>2. bill[b] \in [status: BillStatuses, total: Nat, paid: Nat] /\ alloc[b] \in Nat
      BY <1>0 DEF PayTypeOK
    <3>3. bill[b].status \in Payable /\ bill[b].paid + alloc[b] <= bill[b].total
      BY <1>1 DEF StillOwed
    <3> QED BY <3>1, <3>2, <3>3, PaidFacts
  <2>2. \A b \in Bills : ~(alloc[b] > 0) => bill'[b] = bill[b]
    BY <2>0
  <2>3. bill' \in [Bills -> [status: BillStatuses, total: Nat, paid: Nat]]
    <3>1. \A b \in Bills : bill'[b] \in [status: BillStatuses, total: Nat, paid: Nat]
      BY <2>1, <2>2 DEF PayTypeOK
    <3> QED BY <2>0, <3>1
  <2>4. ap' \in [Bills -> Int] /\ \A b \in Bills : ap'[b] = ap[b] - alloc[b]
    BY <1>0, <1>1 DEF PayTypeOK
  <2>5. PayTypeOK'
    BY <2>3, <2>4, LeaveType DEF PayTypeOK
  <2>6. Unborn'
    BY <2>1, <2>2 DEF Unborn, Payable
  <2>7. BillFitsPayments'
    <3> SUFFICES ASSUME NEW b \in Bills
                 PROVE  /\ bill'[b].paid <= bill'[b].total
                        /\ bill'[b].status \in {"NONE", "OPEN"} => bill'[b].paid = 0
                        /\ bill'[b].status = "PARTIALLY_PAID" => bill'[b].paid \in 1..(bill'[b].total - 1)
                        /\ bill'[b].status = "PAID" => bill'[b].paid = bill'[b].total
                        /\ bill'[b].status = "VOID" /\ b \notin unwound' => bill'[b].paid = 0
      BY DEF BillFitsPayments
    <3>1. bill[b] \in [status: BillStatuses, total: Nat, paid: Nat] /\ alloc[b] \in Nat
      BY <1>0 DEF PayTypeOK
    <3>2. CASE alloc[b] > 0
      BY <2>1, <3>1, <3>2
    <3>3. CASE ~(alloc[b] > 0)
      BY <2>2, <3>3 DEF BillFitsPayments
    <3> QED BY <3>2, <3>3
  <2>8. BooksMatchDocuments'
    <3> SUFFICES ASSUME NEW b \in Bills \ unwound
                 PROVE  ap'[b] = IF bill'[b].status = "VOID" THEN 0 ELSE bill'[b].total - bill'[b].paid
      BY DEF BooksMatchDocuments
    <3>1. bill[b] \in [status: BillStatuses, total: Nat, paid: Nat] /\ alloc[b] \in Nat /\ ap[b] \in Int
      BY <1>0 DEF PayTypeOK
    <3>2. ap[b] = IF bill[b].status = "VOID" THEN 0 ELSE bill[b].total - bill[b].paid
      BY DEF BooksMatchDocuments
    <3>3. CASE alloc[b] > 0
      BY <2>1, <2>4, <3>1, <3>2, <3>3 DEF Payable
    <3>4. CASE ~(alloc[b] > 0)
      BY <2>2, <2>4, <3>1, <3>2, <3>4
    <3> QED BY <3>3, <3>4
  <2> QED BY <2>5, <2>6, <2>7, <2>8
<1>2. CASE ~(\A b \in Bills : alloc[b] > 0 => StillOwed(b, alloc[b]))
  <2>1. PayTypeOK'
    BY <1>2, LeaveType DEF PayTypeOK
  <2> QED BY <1>2, <2>1, DeskOnlyInv
<1> QED BY <1>1, <1>2

\* A void takes the bill off the books, unless it was overtaken.
LEMMA VoidBillWriteInv ==
    ASSUME PayInv, NEW d \in Desks, VoidBillWrite(d)
    PROVE  PayInv'
<1> USE DEF PayInv
<1> PICK b \in desk[d].doc : VoidBillWrite(d)!(b)
  BY DEF VoidBillWrite
<1>1. b \in Bills
  BY DEF PayTypeOK
<1>2. PayTypeOK'
  BY <1>1, LeaveType DEF PayTypeOK, BillStatuses
<1>3. Unborn' /\ BillFitsPayments'
  BY <1>1 DEF Unborn, BillFitsPayments, PayTypeOK
<1>4. BooksMatchDocuments'
  BY <1>1 DEF BillFitsPayments, BooksMatchDocuments, PayTypeOK
<1> QED BY <1>2, <1>3, <1>4

LEMMA VoidExpenseWriteInv ==
    ASSUME PayInv, NEW d \in Desks, VoidExpenseWrite(d)
    PROVE  PayInv'
<1> USE DEF PayInv
<1> PICK x \in desk[d].doc : VoidExpenseWrite(d)!(x)
  BY DEF VoidExpenseWrite
<1>1. x \in Expenses
  BY DEF PayTypeOK
<1>2. PayTypeOK'
  BY <1>1, LeaveType DEF PayTypeOK, ExpenseStatuses
<1>3. Unborn' /\ BillFitsPayments'
  BY <1>1 DEF Unborn, BillFitsPayments, PayTypeOK
<1>4. BooksMatchDocuments'
  BY <1>1 DEF BooksMatchDocuments, PayTypeOK
<1> QED BY <1>2, <1>3, <1>4

\* Nothing this component does breaks its invariant.
LEMMA PayStepInv ==
    ASSUME PayInv, PayStep
    PROVE  PayInv'
BY ReadInv, OpenBillInv, RecordExpenseInv, PayWriteInv, VoidBillWriteInv, VoidExpenseWriteInv
   DEF PayStep

(***************************************************************************)
(* Orders and stock: the rows as the proofs know them.                     *)
(***************************************************************************)

Pcs == {"idle", "add", "edit", "remove", "status", "claim", "count", "commit", "return", "adjust"}

ReqRows == [pc: Pcs, order: SUBSET Orders, line: SUBSET Lines, part: SUBSET Parts,
            take: [Lines -> Nat], lines: [Lines -> LineRows], status: OrderStatuses,
            parts: {<<>>} \union [Parts -> PartRows], put: LineRows, next: OrderStatuses,
            full: BOOLEAN]

OrderRows == [status: OrderStatuses, intent: Intents]
MoveRows == [opening: Nat, orders: Int, other: Int]

\* The type invariant with the request's records closed under update.
Typed ==
    /\ po \in [Orders -> OrderRows] /\ line \in [Lines -> LineRows] /\ fitted \in [Lines -> Nat]
    /\ part \in [Parts -> PartRows] /\ moved \in [Parts -> MoveRows]
    /\ budget \in [Sorts -> Nat]
    /\ req \in [Requests -> ReqRows]
    /\ \A r \in Requests :
          req[r].pc \in {"count", "commit", "adjust"} => req[r].parts \in [Parts -> PartRows]

LEMMA TypedImpliesTypeOK == PayInv /\ Typed => TypeOK
BY DEF PayInv, Typed, TypeOK, ReqRows, OrderRows, MoveRows

(***************************************************************************)
(* Facts about the operators.                                              *)
(***************************************************************************)

LEMMA NewLinesType == NewLines \subseteq LineRows /\ NoLine \in LineRows
<1>1. MaxQty \in Nat
  BY PurchasingAssumption
<1>2. NoLine \in LineRows
  BY DEF LineRows, NoLine
<1>3. ASSUME NEW put \in NewLines PROVE put \in LineRows
  <2>1. put.qty \in 1..MaxQty /\ put.priced \in BOOLEAN
    BY DEF NewLines
  <2>2. put = [live |-> TRUE, qty |-> put.qty, priced |-> put.priced, recd |-> 0, retd |-> 0,
               ver |-> 0]
    BY DEF NewLines
  <2>3. put.qty \in Nat /\ put.priced \in BOOLEAN
    BY <1>1, <2>1
  <2>4. \A q \in Nat, b \in BOOLEAN :
           [live |-> TRUE, qty |-> q, priced |-> b, recd |-> 0, retd |-> 0, ver |-> 0] \in LineRows
    BY DEF LineRows
  <2> QED BY <2>2, <2>3, <2>4, Zenon
<1> QED BY <1>2, <1>3

LEMMA IdleType == Idle \in ReqRows
<1>1. Zero \in [Lines -> Nat] /\ [l \in Lines |-> NoLine] \in [Lines -> LineRows]
  BY NewLinesType DEF Zero
<1>2. "idle" \in Pcs /\ "DRAFT" \in OrderStatuses /\ NoLine \in LineRows
  BY NewLinesType DEF Pcs, OrderStatuses
<1>3. <<>> \in {<<>>} \union [Parts -> PartRows]
  OBVIOUS
<1> QED BY <1>1, <1>2, <1>3 DEF Idle, ReqRows

LEMMA SpendType ==
    ASSUME budget \in [Sorts -> Nat], NEW k \in Sorts, Spend(k)
    PROVE  budget' \in [Sorts -> Nat]
BY DEF Spend

LEMMA FinishType ==
    ASSUME req \in [Requests -> ReqRows], NEW r \in Requests, Finish(r)
    PROVE  /\ req' \in [Requests -> ReqRows] /\ req'[r] = Idle
           /\ \A q \in Requests \ {r} : req'[q] = req[q]
BY IdleType DEF Finish

\* What a form brings to a part is what one of its lines does.
LEMMA GainFacts ==
    ASSUME NEW take \in [Lines -> Nat], NEW p \in Parts
    PROVE  /\ Gain(take, p) \in Nat
           /\ Gain(take, p) > 0 => \E l \in LinesFor(take, p) : Gain(take, p) = take[l]
<1>1. CASE LinesFor(take, p) = {}
  BY <1>1 DEF Gain
<1>2. CASE LinesFor(take, p) # {}
  <2> DEFINE m == CHOOSE l \in LinesFor(take, p) : TRUE
  <2>1. m \in LinesFor(take, p)
    BY <1>2
  <2>2. m \in Lines /\ Gain(take, p) = take[m]
    BY <1>2, <2>1 DEF Gain, LinesFor, Taken
  <2> QED BY <2>1, <2>2
<1> QED BY <1>1, <1>2

LEMMA FormsType ==
    ASSUME NEW o \in Orders, NEW take \in Forms(o)
    PROVE  take \in [Lines -> Nat] /\ Taken(take) \subseteq LinesOf(o)
BY PurchasingAssumption DEF Forms

(***************************************************************************)
(* Types.                                                                  *)
(***************************************************************************)

LEMMA InitTyped == Init => Typed
<1> SUFFICES ASSUME Init PROVE Typed
  OBVIOUS
<1>1. PICK s \in Scenarios :
         /\ po = [o \in Orders |-> [status |-> "DRAFT", intent |-> s.intent[o]]]
         /\ line = s.lines
         /\ part = [p \in Parts |-> [qty |-> s.stock[p], cost |-> {}]]
         /\ moved = [p \in Parts |-> [opening |-> s.stock[p], orders |-> 0, other |-> 0]]
         /\ budget = s.budget
  BY DEF Init
<1>2. /\ s.intent \in [Orders -> Intents] /\ s.lines \in [Lines -> {NoLine} \union NewLines]
      /\ s.stock \in [Parts -> Nat] /\ s.budget \in [Sorts -> Nat]
  BY PurchasingAssumption
<1>3. po \in [Orders -> OrderRows] /\ line \in [Lines -> LineRows]
  BY <1>1, <1>2, NewLinesType DEF OrderRows, OrderStatuses
<1>4. part \in [Parts -> PartRows] /\ moved \in [Parts -> MoveRows] /\ budget \in [Sorts -> Nat]
  BY <1>1, <1>2 DEF PartRows, MoveRows
<1>5. req = [r \in Requests |-> Idle] /\ fitted \in [Lines -> Nat]
  BY DEF Init, Zero
<1> QED BY <1>3, <1>4, <1>5, IdleType DEF Typed, Idle

\* A request takes note of what it has read.
LEMMA NoteTyped ==
    ASSUME Typed, NEW r \in Requests, NEW note \in ReqRows,
           note.pc \in {"count", "commit", "adjust"} => note.parts \in [Parts -> PartRows],
           req' = [req EXCEPT ![r] = note], NEW k \in Sorts, Spend(k),
           UNCHANGED <<orderVars, stockVars>>
    PROVE  Typed'
<1>1. budget' \in [Sorts -> Nat]
  BY SpendType DEF Typed
<1> QED BY <1>1 DEF Typed, orderVars, stockVars

LEMMA ReadTyped ==
    ASSUME Typed, NEW r \in Requests,
           \/ \E l \in Lines, what \in {"add", "edit", "remove"}, put \in NewLines :
                 EditRead(r, l, what, put)
           \/ \E o \in Orders, next \in {"ORDERED", "CANCELLED"} : StatusRead(r, o, next)
           \/ \E o \in Orders : \E take \in Forms(o) :
                 ReceiveRead(r, o, take) \/ ReturnRead(r, o, take)
           \/ \E p \in Parts, qty \in 0..MaxQty : AdjustRead(r, p, qty)
    PROVE  Typed'
<1> USE DEF Pcs
<1>0. line \in [Lines -> LineRows] /\ part \in [Parts -> PartRows] /\ po \in [Orders -> OrderRows]
  BY DEF Typed
<1>1. ASSUME NEW l \in Lines, NEW what \in {"add", "edit", "remove"}, NEW put \in NewLines,
             EditRead(r, l, what, put)
      PROVE  Typed'
  <2> DEFINE note == [Idle EXCEPT !.pc = what, !.line = {l}, !.lines = line, !.put = put]
  <2>1. note \in ReqRows /\ note.pc = what
    BY <1>0, IdleType, NewLinesType DEF ReqRows
  <2> QED BY <1>1, <2>1, NoteTyped DEF EditRead, Sorts
<1>2. ASSUME NEW o \in Orders, NEW next \in {"ORDERED", "CANCELLED"}, StatusRead(r, o, next)
      PROVE  Typed'
  <2> DEFINE note == [Idle EXCEPT !.pc = "status", !.order = {o}, !.next = next,
                                  !.status = po[o].status]
  <2>1. note \in ReqRows /\ note.pc = "status"
    BY <1>0, IdleType DEF ReqRows, OrderRows, OrderStatuses
  <2> QED BY <1>2, <2>1, NoteTyped DEF StatusRead, Sorts
<1>3. ASSUME NEW o \in Orders, NEW take \in Forms(o),
             ReceiveRead(r, o, take) \/ ReturnRead(r, o, take)
      PROVE  Typed'
  <2> DEFINE note(pc) == [Idle EXCEPT !.pc = pc, !.order = {o}, !.take = take, !.lines = line]
  <2>1. \A pc \in {"claim", "return"} : note(pc) \in ReqRows /\ note(pc).pc = pc
    BY <1>0, IdleType, FormsType DEF ReqRows
  <2>2. CASE ReceiveRead(r, o, take)
    BY <2>1, <2>2, NoteTyped DEF ReceiveRead, Sorts
  <2>3. CASE ReturnRead(r, o, take)
    BY <2>1, <2>3, NoteTyped DEF ReturnRead, Sorts
  <2> QED BY <1>3, <2>2, <2>3
<1>4. ASSUME NEW p \in Parts, NEW qty \in 0..MaxQty, AdjustRead(r, p, qty)
      PROVE  Typed'
  <2> DEFINE note == [Idle EXCEPT !.pc = "adjust", !.part = {p}, !.parts = part, !.put.qty = qty]
  <2>1. qty \in Nat
    BY PurchasingAssumption
  <2>2. note \in ReqRows /\ note.parts = part
    BY <1>0, <2>1, IdleType DEF ReqRows, Idle, LineRows, NoLine
  <2> QED BY <1>0, <1>4, <2>2, NoteTyped DEF AdjustRead, Sorts
<1> QED BY <1>1, <1>2, <1>3, <1>4

\* A line after an edit, an addition or a removal.
LEMMA EditedFacts ==
    ASSUME NEW r \in Requests, NEW l \in Lines, line[l] \in LineRows, req[r].put \in LineRows
    PROVE  /\ Edited(r, l) \in LineRows
           /\ req[r].pc = "remove" => /\ ~Edited(r, l).live /\ Edited(r, l).ver > 0
                                      /\ Edited(r, l).recd = 0 /\ Edited(r, l).retd = 0
           /\ req[r].pc # "remove" => /\ Edited(r, l).live
                                      /\ Edited(r, l).recd = line[l].recd
                                      /\ Edited(r, l).retd = line[l].retd
<1> DEFINE row == line[l]
<1> DEFINE put == req[r].put
<1>1. /\ row.qty \in Nat /\ row.recd \in Nat /\ row.retd \in Nat /\ row.ver \in Nat
      /\ row.ver + 1 \in Nat /\ row.ver + 1 > 0 /\ put.qty \in Nat /\ put.priced \in BOOLEAN
  BY DEF LineRows
<1>2. CASE req[r].pc = "remove"
  <2>1. Edited(r, l) = [live |-> FALSE, qty |-> 0, priced |-> FALSE, recd |-> 0, retd |-> 0,
                        ver |-> row.ver + 1]
    BY <1>2 DEF Edited, NoLine
  <2> QED BY <1>1, <1>2, <2>1 DEF LineRows
<1>3. CASE req[r].pc # "remove"
  <2>1. Edited(r, l) = [live |-> TRUE, qty |-> put.qty, priced |-> put.priced,
                        recd |-> row.recd, retd |-> row.retd, ver |-> row.ver + 1]
    BY <1>3 DEF Edited, LineRows
  <2> QED BY <1>1, <1>3, <2>1 DEF LineRows
<1> QED BY <1>2, <1>3

LEMMA EditWriteTyped ==
    ASSUME Typed, NEW r \in Requests, EditWrite(r)
    PROVE  Typed'
<1> PICK l \in req[r].line : EditWrite(r)!(l)
  BY DEF EditWrite
<1>1. /\ l \in Lines /\ line[l] \in LineRows /\ req[r].put \in LineRows
      /\ line \in [Lines -> LineRows] /\ fitted \in [Lines -> Nat]
  BY DEF Typed, ReqRows
<1>2. Edited(r, l) \in LineRows
  BY <1>1, EditedFacts
<1>3. line' \in [Lines -> LineRows] /\ fitted' \in [Lines -> Nat]
  BY <1>1, <1>2
<1>4. req' \in [Requests -> ReqRows] /\ \A q \in Requests : req'[q] = Idle \/ req'[q] = req[q]
  BY FinishType DEF Typed
<1> QED BY <1>3, <1>4 DEF Typed, stockVars, Idle

LEMMA StatusWriteTyped ==
    ASSUME Typed, NEW r \in Requests, StatusWrite(r)
    PROVE  Typed'
<1> PICK o \in req[r].order : StatusWrite(r)!(o)
  BY DEF StatusWrite
<1>1. o \in Orders /\ req[r].next \in OrderStatuses
  BY DEF Typed, ReqRows
<1>2. po' \in [Orders -> OrderRows]
  BY <1>1 DEF Typed, OrderRows
<1>3. req' \in [Requests -> ReqRows] /\ \A q \in Requests : req'[q] = Idle \/ req'[q] = req[q]
  BY FinishType DEF Typed
<1> QED BY <1>2, <1>3 DEF Typed, stockVars, Idle

\* Steps of one request that touch nothing but the request itself.
LEMMA StepTyped ==
    ASSUME Typed, NEW r \in Requests, req' \in [Requests -> ReqRows],
           req'[r].pc \in {"count", "commit", "adjust"} => req'[r].parts \in [Parts -> PartRows],
           \A q \in Requests \ {r} : req'[q] = req[q],
           UNCHANGED <<orderVars, stockVars>>, budget' \in [Sorts -> Nat]
    PROVE  Typed'
BY DEF Typed, orderVars, stockVars

LEMMA ClaimTyped ==
    ASSUME Typed, NEW r \in Requests, Claim(r) \/ Count(r) \/ Kill(r)
    PROVE  Typed'
<1>0. /\ req \in [Requests -> ReqRows] /\ req[r] \in ReqRows /\ part \in [Parts -> PartRows]
      /\ budget \in [Sorts -> Nat]
  BY DEF Typed
<1>1. ASSUME Finish(r), UNCHANGED <<orderVars, stockVars>>, budget' \in [Sorts -> Nat]
      PROVE  Typed'
  BY <1>0, <1>1, FinishType, StepTyped DEF Idle
<1>2. CASE Kill(r)
  BY <1>0, <1>1, <1>2, SpendType DEF Kill, Sorts
<1>3. CASE Claim(r) /\ \A l \in Taken(req[r].take) : FitsUnderCap(r, l)
  <2> DEFINE note == [req[r] EXCEPT !.pc = "count", !.parts = part]
  <2>1. req' = [req EXCEPT ![r] = note] /\ UNCHANGED <<orderVars, stockVars, budget>>
    BY <1>3 DEF Claim
  <2>2. note \in ReqRows /\ note.parts \in [Parts -> PartRows]
    BY <1>0 DEF ReqRows, Pcs
  <2>3. req' \in [Requests -> ReqRows] /\ req'[r] = note /\ \A q \in Requests \ {r} : req'[q] = req[q]
    BY <1>0, <2>1, <2>2
  <2> HIDE DEF note
  <2> QED BY <1>0, <2>1, <2>2, <2>3, StepTyped
<1>4. CASE Claim(r) /\ ~(\A l \in Taken(req[r].take) : FitsUnderCap(r, l))
  BY <1>0, <1>1, <1>4 DEF Claim
<1>5. CASE Count(r)
  <2>1. PICK o \in req[r].order : req' = [req EXCEPT ![r].pc = "commit", ![r].full = AllFull(r, o)]
    BY <1>5 DEF Count
  <2> DEFINE note == [req[r] EXCEPT !.pc = "commit", !.full = AllFull(r, o)]
  <2>2. req' = [req EXCEPT ![r] = note] /\ UNCHANGED <<orderVars, stockVars, budget>>
    BY <1>5, <2>1 DEF Count
  <2>3. AllFull(r, o) \in BOOLEAN
    BY DEF AllFull
  <2>4. note \in ReqRows /\ note.parts = req[r].parts
    BY <1>0, <2>3 DEF ReqRows, Pcs
  <2>5. req[r].parts \in [Parts -> PartRows]
    BY <1>5 DEF Count, Typed
  <2>6. req' \in [Requests -> ReqRows] /\ req'[r] = note /\ \A q \in Requests \ {r} : req'[q] = req[q]
    BY <1>0, <2>2, <2>4
  <2> HIDE DEF note
  <2> QED BY <1>0, <2>2, <2>4, <2>5, <2>6, StepTyped
<1> QED BY <1>2, <1>3, <1>4, <1>5

\* What a receipt does to the lines, and to the shelf.
LEMMA LinesReceivedFacts ==
    ASSUME line \in [Lines -> LineRows], NEW take \in [Lines -> Nat]
    PROVE  /\ LinesReceived(take) \in [Lines -> LineRows]
           /\ \A l \in Lines :
                 /\ LinesReceived(take)[l].live = line[l].live
                 /\ LinesReceived(take)[l].qty = line[l].qty
                 /\ LinesReceived(take)[l].recd = line[l].recd + take[l]
                 /\ LinesReceived(take)[l].retd = line[l].retd
                 /\ LinesReceived(take)[l].ver >= line[l].ver
<1>1. ASSUME NEW l \in Lines
      PROVE  /\ LinesReceived(take)[l] \in LineRows
             /\ LinesReceived(take)[l].live = line[l].live
             /\ LinesReceived(take)[l].qty = line[l].qty
             /\ LinesReceived(take)[l].recd = line[l].recd + take[l]
             /\ LinesReceived(take)[l].retd = line[l].retd
             /\ LinesReceived(take)[l].ver >= line[l].ver
  <2>0. line[l] \in LineRows /\ take[l] \in Nat
    OBVIOUS
  <2>1. CASE take[l] = 0
    <3>1. LinesReceived(take)[l] = line[l]
      BY <2>1 DEF LinesReceived
    <3> QED BY <2>0, <2>1, <3>1 DEF LineRows
  <2>2. CASE take[l] # 0
    <3>1. LinesReceived(take)[l] =
             [live |-> line[l].live, qty |-> line[l].qty, priced |-> line[l].priced,
              recd |-> line[l].recd + take[l], retd |-> line[l].retd, ver |-> line[l].ver + 1]
      BY <2>0, <2>2 DEF LinesReceived, LineRows
    <3> QED BY <2>0, <3>1 DEF LineRows
  <2> QED BY <2>1, <2>2
<1>2. LinesReceived(take) = [l \in Lines |-> LinesReceived(take)[l]]
  BY DEF LinesReceived
<1> QED BY <1>1, <1>2

LEMMA ReceivedFacts ==
    ASSUME Typed, NEW r \in Requests, req[r].parts \in [Parts -> PartRows], NEW p \in Parts
    PROVE  /\ Received(r, p) \in PartRows
           /\ Received(r, p).qty = part[p].qty + Gain(req[r].take, p)
<1>0. part[p] \in PartRows /\ req[r].take \in [Lines -> Nat] /\ req[r].parts[p] \in PartRows
  BY DEF Typed, ReqRows
<1>1. Gain(req[r].take, p) \in Nat
  BY <1>0, GainFacts
<1>2. Blended(r, p) \subseteq Lines
  <2>1. req[r].parts[p].cost \subseteq Lines /\ LinesFor(req[r].take, p) \subseteq Lines
    BY <1>0 DEF PartRows, LinesFor, Taken
  <2> QED BY <2>1 DEF Blended
<1>3. CASE Gain(req[r].take, p) = 0
  BY <1>0, <1>3 DEF Received, PartRows
<1>4. CASE Gain(req[r].take, p) # 0
  <2>1. Received(r, p) = [qty |-> part[p].qty + Gain(req[r].take, p), cost |-> Blended(r, p)]
    BY <1>4 DEF Received
  <2> QED BY <1>0, <1>1, <1>2, <2>1 DEF PartRows
<1> QED BY <1>3, <1>4

\* A movement of an order, or of anything else.
LEMMA MovedFacts ==
    ASSUME NEW row \in MoveRows, NEW n \in Int
    PROVE  /\ [row EXCEPT !.orders = @ + n] \in MoveRows
           /\ [row EXCEPT !.orders = @ + n].orders = row.orders + n
           /\ [row EXCEPT !.orders = @ + n].opening = row.opening
           /\ [row EXCEPT !.orders = @ + n].other = row.other
           /\ [row EXCEPT !.other = @ + n] \in MoveRows
           /\ [row EXCEPT !.other = @ + n].other = row.other + n
           /\ [row EXCEPT !.other = @ + n].opening = row.opening
           /\ [row EXCEPT !.other = @ + n].orders = row.orders
BY DEF MoveRows

\* The shelf as the movements have it, unless an adjustment was overtaken.
Accounted(p) == part[p].qty = moved[p].opening + moved[p].orders + moved[p].other

LEMMA CommitShelf ==
    ASSUME Typed, NEW r \in Requests, NEW o \in req[r].order, Commit(r)!(o)
    PROVE  /\ part' \in [Parts -> PartRows] /\ moved' \in [Parts -> MoveRows]
           /\ \A p \in Parts : Accounted(p) => Accounted(p)'
<1>0. /\ part \in [Parts -> PartRows] /\ moved \in [Parts -> MoveRows]
      /\ req[r].take \in [Lines -> Nat] /\ req[r].parts \in [Parts -> PartRows]
  BY DEF Typed, ReqRows
<1>1. /\ part' = [p \in Parts |-> Received(r, p)]
      /\ moved' = [p \in Parts |-> [moved[p] EXCEPT !.orders = @ + Gain(req[r].take, p)]]
  BY DEF ReceivedMoves
<1>2. ASSUME NEW p \in Parts
      PROVE  /\ Received(r, p) \in PartRows /\ moved'[p] \in MoveRows
             /\ Accounted(p) => Accounted(p)'
  <2>1. Gain(req[r].take, p) \in Int
    BY <1>0, GainFacts
  <2>2. /\ moved'[p] \in MoveRows /\ moved'[p].orders = moved[p].orders + Gain(req[r].take, p)
        /\ moved'[p].opening = moved[p].opening /\ moved'[p].other = moved[p].other
    <3> DEFINE n == Gain(req[r].take, p)
    <3>1. moved'[p] = [moved[p] EXCEPT !.orders = @ + n]
      BY <1>1
    <3>2. moved[p] \in MoveRows /\ n \in Int
      BY <1>0, <2>1
    <3> HIDE DEF n
    <3>3. /\ moved'[p] \in MoveRows /\ moved'[p].orders = moved[p].orders + n
          /\ moved'[p].opening = moved[p].opening /\ moved'[p].other = moved[p].other
      BY <3>1, <3>2 DEF MoveRows
    <3> QED BY <3>3 DEF n
  <2>3. Received(r, p) \in PartRows /\ part'[p].qty = part[p].qty + Gain(req[r].take, p)
    BY <1>0, <1>1, ReceivedFacts
  <2>4. part[p].qty \in Int /\ moved[p].opening \in Int /\ moved[p].orders \in Int /\ moved[p].other \in Int
    BY <1>0 DEF PartRows, MoveRows
  <2> QED BY <2>1, <2>2, <2>3, <2>4 DEF Accounted
<1> QED BY <1>1, <1>2

LEMMA CommitTyped ==
    ASSUME Typed, NEW r \in Requests, Commit(r)
    PROVE  Typed'
<1> PICK o \in req[r].order : Commit(r)!(o)
  BY DEF Commit
<1>0. /\ line \in [Lines -> LineRows] /\ req[r].take \in [Lines -> Nat] /\ o \in Orders
      /\ fitted \in [Lines -> Nat] /\ po \in [Orders -> OrderRows]
  BY DEF Typed, ReqRows
<1>1. line' \in [Lines -> LineRows] /\ fitted' \in [Lines -> Nat]
  BY <1>0, LinesReceivedFacts
<1>2. part' \in [Parts -> PartRows] /\ moved' \in [Parts -> MoveRows]
  BY CommitShelf
<1>3. po' \in [Orders -> OrderRows]
  BY <1>0 DEF OrderRows, StatusAfter, OrderStatuses
<1>4. req' \in [Requests -> ReqRows] /\ \A q \in Requests : req'[q] = Idle \/ req'[q] = req[q]
  BY FinishType DEF Typed
<1>5. budget' \in [Sorts -> Nat]
  BY DEF Typed
<1> QED BY <1>1, <1>2, <1>3, <1>4, <1>5 DEF Typed, Idle

\* What a return does to the lines and to the shelf.
LEMMA LinesReturnedFacts ==
    ASSUME line \in [Lines -> LineRows], NEW take \in [Lines -> Nat]
    PROVE  /\ LinesReturned(take) \in [Lines -> LineRows]
           /\ \A l \in Lines :
                 /\ LinesReturned(take)[l].live = line[l].live
                 /\ LinesReturned(take)[l].qty = line[l].qty
                 /\ LinesReturned(take)[l].recd = line[l].recd
                 /\ LinesReturned(take)[l].retd = line[l].retd + take[l]
                 /\ LinesReturned(take)[l].ver >= line[l].ver
<1>1. ASSUME NEW l \in Lines
      PROVE  /\ LinesReturned(take)[l] \in LineRows
             /\ LinesReturned(take)[l].live = line[l].live
             /\ LinesReturned(take)[l].qty = line[l].qty
             /\ LinesReturned(take)[l].recd = line[l].recd
             /\ LinesReturned(take)[l].retd = line[l].retd + take[l]
             /\ LinesReturned(take)[l].ver >= line[l].ver
  <2>0. line[l] \in LineRows /\ take[l] \in Nat
    OBVIOUS
  <2>1. CASE take[l] = 0
    <3>1. LinesReturned(take)[l] = line[l]
      BY <2>1 DEF LinesReturned
    <3> QED BY <2>0, <2>1, <3>1 DEF LineRows
  <2>2. CASE take[l] # 0
    <3>1. LinesReturned(take)[l] =
             [live |-> line[l].live, qty |-> line[l].qty, priced |-> line[l].priced,
              recd |-> line[l].recd, retd |-> line[l].retd + take[l], ver |-> line[l].ver + 1]
      BY <2>0, <2>2 DEF LinesReturned, LineRows
    <3> QED BY <2>0, <3>1 DEF LineRows
  <2> QED BY <2>1, <2>2
<1>2. LinesReturned(take) = [l \in Lines |-> LinesReturned(take)[l]]
  BY DEF LinesReturned
<1> QED BY <1>1, <1>2

\* A quantity of the shelf is replaced.
LEMMA QtyFacts ==
    ASSUME NEW row \in PartRows, NEW n \in Nat
    PROVE  [row EXCEPT !.qty = n] \in PartRows /\ [row EXCEPT !.qty = n].qty = n
BY DEF PartRows

LEMMA ReturnShelf ==
    ASSUME Typed, NEW r \in Requests, NEW take \in [Lines -> Nat],
           \A l \in Taken(take) :
              \A p \in Parts : p = DestinationOf[l] => part[p].qty >= take[l],
           part' = [p \in Parts |-> [part[p] EXCEPT !.qty = @ - Gain(take, p)]],
           moved' = [p \in Parts |-> [moved[p] EXCEPT !.orders = @ - Gain(take, p)]]
    PROVE  /\ part' \in [Parts -> PartRows] /\ moved' \in [Parts -> MoveRows]
           /\ \A p \in Parts : Accounted(p) => Accounted(p)'
<1>1. ASSUME NEW p \in Parts
      PROVE  part'[p] \in PartRows /\ moved'[p] \in MoveRows /\ (Accounted(p) => Accounted(p)')
  <2> DEFINE n == Gain(take, p)
  <2>1. part[p] \in PartRows /\ moved[p] \in MoveRows /\ part[p].qty \in Nat
    BY DEF Typed, PartRows
  <2>2. n \in Nat /\ n <= part[p].qty
    <3>1. n \in Nat /\ (n > 0 => \E l \in LinesFor(take, p) : n = take[l])
      BY GainFacts
    <3>2. CASE n > 0
      <4>1. PICK l \in LinesFor(take, p) : n = take[l]
        BY <3>1, <3>2
      <4>2. l \in Taken(take) /\ p = DestinationOf[l]
        BY DEF LinesFor
      <4>3. part[p].qty >= take[l]
        BY <4>2
      <4> QED BY <2>1, <3>1, <4>1, <4>3
    <3> QED BY <2>1, <3>1, <3>2
  <2> HIDE DEF n
  <2>3. part[p].qty - n \in Nat /\ -n \in Int
    BY <2>1, <2>2
  <2>4. part'[p] = [part[p] EXCEPT !.qty = part[p].qty - n]
    BY DEF n
  <2>5. moved'[p] = [moved[p] EXCEPT !.orders = @ - n]
    BY DEF n
  <2>6. /\ moved'[p] \in MoveRows /\ moved'[p].orders = moved[p].orders - n
        /\ moved'[p].opening = moved[p].opening /\ moved'[p].other = moved[p].other
    BY <2>1, <2>2, <2>5 DEF MoveRows
  <2>7. part'[p] \in PartRows /\ part'[p].qty = part[p].qty - n
    BY <2>1, <2>3, <2>4, QtyFacts
  <2>8. moved[p].opening \in Int /\ moved[p].orders \in Int /\ moved[p].other \in Int
    BY <2>1 DEF MoveRows
  <2> QED BY <2>1, <2>2, <2>6, <2>7, <2>8 DEF Accounted
<1> QED BY <1>1

LEMMA ReturnWriteTyped ==
    ASSUME Typed, NEW r \in Requests, ReturnWrite(r)
    PROVE  Typed'
<1> DEFINE take == req[r].take
<1>0. line \in [Lines -> LineRows] /\ take \in [Lines -> Nat]
  BY DEF Typed, ReqRows
<1>1. req' \in [Requests -> ReqRows] /\ \A q \in Requests : req'[q] = Idle \/ req'[q] = req[q]
  BY FinishType DEF Typed, ReturnWrite
<1>2. CASE \A l \in Taken(take) : Returnable(r, l)
  <2>1. line' \in [Lines -> LineRows]
    BY <1>0, <1>2, LinesReturnedFacts DEF ReturnWrite
  <2>2. \A l \in Taken(take) :
           \A p \in Parts : p = DestinationOf[l] => part[p].qty >= take[l]
    BY <1>2 DEF Returnable
  <2>3. part' \in [Parts -> PartRows] /\ moved' \in [Parts -> MoveRows]
    BY <1>0, <1>2, <2>2, ReturnShelf DEF ReturnWrite
  <2>4. UNCHANGED <<po, fitted, budget>>
    BY DEF ReturnWrite
  <2> QED BY <1>1, <2>1, <2>3, <2>4 DEF Typed, Idle
<1>3. CASE ~(\A l \in Taken(take) : Returnable(r, l))
  BY <1>1, <1>3 DEF Typed, ReturnWrite, Idle
<1> QED BY <1>2, <1>3

\* An adjustment, and a part used or put back.
MovesOther(p, n) == moved' = [moved EXCEPT ![p].other = @ + n]

LEMMA ShelfStep ==
    ASSUME Typed, NEW p \in Parts, NEW row \in PartRows, part' = [part EXCEPT ![p] = row],
           NEW n \in Int, MovesOther(p, n)
    PROVE  /\ part' \in [Parts -> PartRows] /\ moved' \in [Parts -> MoveRows]
           /\ \A q \in Parts \ {p} : Accounted(q) => Accounted(q)'
           /\ row.qty = part[p].qty + n => (Accounted(p) => Accounted(p)')
<1>1. part[p] \in PartRows /\ moved[p] \in MoveRows /\ moved \in [Parts -> MoveRows]
      /\ part \in [Parts -> PartRows]
  BY DEF Typed
<1>2. /\ moved' \in [Parts -> MoveRows] /\ \A q \in Parts \ {p} : moved'[q] = moved[q]
      /\ moved'[p].other = moved[p].other + n
      /\ moved'[p].orders = moved[p].orders /\ moved'[p].opening = moved[p].opening
  <2> DEFINE m == [moved[p] EXCEPT !.other = @ + n]
  <2>1. moved' = [moved EXCEPT ![p] = m]
    BY DEF MovesOther
  <2>2. m \in MoveRows /\ m.other = moved[p].other + n /\ m.orders = moved[p].orders
        /\ m.opening = moved[p].opening
    BY <1>1, MovedFacts
  <2> HIDE DEF m
  <2> QED BY <1>1, <2>1, <2>2
<1>3. part' \in [Parts -> PartRows] /\ part'[p] = row /\ \A q \in Parts \ {p} : part'[q] = part[q]
  BY <1>1
<1>4. \A q \in Parts \ {p} : Accounted(q) => Accounted(q)'
  BY <1>2, <1>3 DEF Accounted
<1>5. row.qty = part[p].qty + n => (Accounted(p) => Accounted(p)')
  <2>1. /\ part[p].qty \in Int /\ moved[p].opening \in Int /\ moved[p].orders \in Int
        /\ moved[p].other \in Int
    BY <1>1 DEF PartRows, MoveRows
  <2> QED BY <1>2, <1>3, <2>1 DEF Accounted
<1> QED BY <1>2, <1>3, <1>4, <1>5

LEMMA AdjustWriteShelf ==
    ASSUME Typed, StockAccountedFor, NEW r \in Requests, AdjustWrite(r)
    PROVE  Typed' /\ StockAccountedFor'
<1> PICK p \in req[r].part : AdjustWrite(r)!(p)
  BY DEF AdjustWrite
<1> DEFINE n == req[r].put.qty - req[r].parts[p].qty
<1> DEFINE row == [part[p] EXCEPT !.qty = req[r].put.qty]
<1>0. /\ p \in Parts /\ req[r].put \in LineRows /\ req[r].parts \in [Parts -> PartRows]
      /\ part[p] \in PartRows
  BY DEF Typed, ReqRows
<1>1. req[r].put.qty \in Nat /\ req[r].parts[p].qty \in Nat /\ part[p].qty \in Nat /\ n \in Int
  BY <1>0 DEF LineRows, PartRows
<1>2. row \in PartRows /\ row.qty = req[r].put.qty
  BY <1>0, <1>1, QtyFacts
<1>3. part' = [part EXCEPT ![p] = row]
  OBVIOUS
<1>4. MovesOther(p, n)
  <2>1. moved[p].other \in Int /\ moved \in [Parts -> MoveRows]
    BY <1>0 DEF Typed, MoveRows
  <2>2. moved[p].other + req[r].put.qty - req[r].parts[p].qty = moved[p].other + n
    BY <1>1, <2>1
  <2> QED BY <2>1, <2>2 DEF MovesOther
<1> HIDE DEF n, row
<1>5. /\ part' \in [Parts -> PartRows] /\ moved' \in [Parts -> MoveRows]
      /\ \A q \in Parts \ {p} : Accounted(q) => Accounted(q)'
      /\ row.qty = part[p].qty + n => (Accounted(p) => Accounted(p)')
  BY <1>0, <1>1, <1>2, <1>3, <1>4, ShelfStep
<1>6. part[p].qty = req[r].parts[p].qty => row.qty = part[p].qty + n
  BY <1>1, <1>2 DEF n
<1>7. <<"adjust", p>> \notin overtaken' => part[p].qty = req[r].parts[p].qty
  OBVIOUS
<1>8. \A q \in Parts : <<"adjust", q>> \notin overtaken' => <<"adjust", q>> \notin overtaken
  OBVIOUS
<1>9. req' \in [Requests -> ReqRows] /\ \A q \in Requests : req'[q] = Idle \/ req'[q] = req[q]
  BY FinishType DEF Typed
<1>10. Typed'
  BY <1>5, <1>9 DEF Typed, Idle
<1>11. StockAccountedFor'
  BY <1>5, <1>6, <1>7, <1>8 DEF StockAccountedFor, Accounted
<1> QED BY <1>10, <1>11

LEMMA StockStepShelf ==
    ASSUME Typed, StockAccountedFor, NEW p \in Parts, StockStep(p)
    PROVE  Typed' /\ StockAccountedFor'
<1>0. part[p] \in PartRows /\ part[p].qty \in Nat /\ budget \in [Sorts -> Nat]
  BY DEF Typed, PartRows
<1>1. ASSUME part' \in [Parts -> PartRows], moved' \in [Parts -> MoveRows],
             \A q \in Parts : Accounted(q) => Accounted(q)',
             UNCHANGED <<orderVars, req>>, budget' \in [Sorts -> Nat]
      PROVE  Typed' /\ StockAccountedFor'
  BY <1>1 DEF Typed, orderVars, StockAccountedFor, Accounted
<1>2. CASE Reprice(p)
  <2> DEFINE row == [part[p] EXCEPT !.cost = {}]
  <2>1. row \in PartRows /\ row.qty = part[p].qty
    BY <1>0 DEF PartRows
  <2>2. part' = [part EXCEPT ![p] = row] /\ UNCHANGED moved
    BY <1>2 DEF Reprice
  <2> HIDE DEF row
  <2>3. /\ part' \in [Parts -> PartRows] /\ moved' \in [Parts -> MoveRows]
        /\ \A q \in Parts : Accounted(q) => Accounted(q)'
    BY <2>1, <2>2 DEF Typed, Accounted
  <2> QED BY <1>0, <1>1, <1>2, <2>3, SpendType DEF Reprice, Sorts
<1>3. ASSUME NEW n \in {1, -1}, Use(p, n) PROVE Typed' /\ StockAccountedFor'
  <2> DEFINE row == [part[p] EXCEPT !.qty = part[p].qty + n]
  <2>1. part[p].qty + n \in Nat /\ n \in Int
    BY <1>0, <1>3 DEF Use
  <2>2. row \in PartRows /\ row.qty = part[p].qty + n
    BY <1>0, <2>1, QtyFacts
  <2>3. part' = [part EXCEPT ![p] = row] /\ MovesOther(p, n)
    BY <1>3 DEF Use, MovesOther
  <2> HIDE DEF row
  <2>4. /\ part' \in [Parts -> PartRows] /\ moved' \in [Parts -> MoveRows]
        /\ \A q \in Parts : Accounted(q) => Accounted(q)'
    BY <2>1, <2>2, <2>3, ShelfStep
  <2> QED BY <1>0, <1>1, <1>3, <2>4, SpendType DEF Use, Sorts
<1> QED BY <1>2, <1>3 DEF StockStep

(***************************************************************************)
(* Lines within their bounds.                                              *)
(***************************************************************************)

\* A draft has received nothing.
DraftsUntouched ==
    \A l \in Lines : po[OrderOf[l]].status = "DRAFT" => line[l].recd = 0 /\ line[l].retd = 0

\* What a receipt or a return has read of its lines still holds of them in part.
Fits(n) ==
    \A l \in Lines : n.take[l] > 0 =>
        /\ n.pc \in {"claim", "count", "commit"} =>
              /\ po[OrderOf[l]].status # "DRAFT"
              /\ \/ <<"lines", OrderOf[l]>> \in overtaken
                 \/ line[l].live /\ line[l].qty = n.lines[l].qty
        /\ n.pc \in {"count", "commit"} => line[l].recd + n.take[l] <= n.lines[l].qty
        /\ n.pc = "return" => /\ po[OrderOf[l]].status # "DRAFT"
                              /\ line[l].live \/ line[l].ver > 0
                              /\ line[l].live => n.lines[l].recd <= line[l].recd

RequestsFit ==
    /\ \A r \in Requests : Fits(req[r]) /\ (req[r].pc = "status" => req[r].next # "DRAFT")
    /\ \A q, r \in Requests, l \in Lines :
          q # r /\ InReceipt(q) /\ InReceipt(r) => ~(req[q].take[l] > 0 /\ req[r].take[l] > 0)

Inv == Typed /\ StockAccountedFor /\ LinesWithinBounds /\ DraftsUntouched /\ RequestsFit

LEMMA InitInv == Init => Inv
<1> SUFFICES ASSUME Init PROVE Inv
  OBVIOUS
<1>1. Typed
  BY InitTyped
<1>2. PICK s \in Scenarios :
         /\ line = s.lines
         /\ part = [p \in Parts |-> [qty |-> s.stock[p], cost |-> {}]]
         /\ moved = [p \in Parts |-> [opening |-> s.stock[p], orders |-> 0, other |-> 0]]
  BY DEF Init
<1>3. s.lines \in [Lines -> {NoLine} \union NewLines] /\ s.stock \in [Parts -> Nat]
  BY PurchasingAssumption
<1>4. ASSUME NEW l \in Lines PROVE line[l].recd = 0 /\ line[l].retd = 0 /\ line[l].qty \in Nat
  <2>1. line[l] \in {NoLine} \union NewLines
    BY <1>2, <1>3
  <2>2. line[l] \in LineRows
    BY <1>1 DEF Typed
  <2>3. line[l].qty \in Nat
    BY <2>2 DEF LineRows
  <2>4. CASE line[l] = NoLine
    BY <2>3, <2>4 DEF NoLine
  <2>5. CASE line[l] \in NewLines
    BY <2>3, <2>5 DEF NewLines
  <2> QED BY <2>1, <2>4, <2>5
<1>5. StockAccountedFor
  BY <1>2, <1>3 DEF StockAccountedFor
<1>6. LinesWithinBounds /\ DraftsUntouched
  BY <1>4 DEF LinesWithinBounds, DraftsUntouched
<1>7. RequestsFit
  BY DEF Init, RequestsFit, Fits, Idle, Zero, InReceipt
<1> QED BY <1>1, <1>5, <1>6, <1>7 DEF Inv

\* A request that ends leaves the others to be looked at.
LEMMA LeavesFit ==
    ASSUME Typed, RequestsFit, NEW r \in Requests, Finish(r),
           \A q \in Requests \ {r} : Fits(req[q])'
    PROVE  RequestsFit'
<1>1. req'[r] = Idle /\ \A q \in Requests \ {r} : req'[q] = req[q]
  BY FinishType DEF Typed
<1>2. Fits(req[r])'
  BY <1>1 DEF Fits, Idle, Zero
<1> QED BY <1>1, <1>2 DEF RequestsFit, InReceipt, Idle, Zero

\* A request takes note of what it has read, and nothing else moves.
LEMMA NoteFits ==
    ASSUME Inv, NEW r \in Requests, NEW note \in ReqRows, req' = [req EXCEPT ![r] = note],
           UNCHANGED orderVars, Fits(note), note.pc = "status" => note.next # "DRAFT",
           note.pc \in {"count", "commit"} =>
              \A q \in Requests \ {r}, l \in Lines :
                 InReceipt(q) => ~(req[q].take[l] > 0 /\ note.take[l] > 0),
           Typed', StockAccountedFor'
    PROVE  Inv'
<1>1. req'[r] = note /\ \A q \in Requests \ {r} : req'[q] = req[q]
  BY DEF Inv, Typed
<1>3. \A q \in Requests : Fits(req[q])'
  <2> TAKE q \in Requests
  <2>1. CASE q = r
    BY <1>1, <2>1 DEF Fits, orderVars
  <2>2. CASE q # r
    BY <1>1, <2>2 DEF Inv, RequestsFit, Fits, orderVars
  <2> QED BY <2>1, <2>2
<1>4. RequestsFit'
  <2>1. \A q \in Requests : req'[q].pc = "status" => req'[q].next # "DRAFT"
    BY <1>1 DEF Inv, RequestsFit
  <2>2. ASSUME NEW p \in Requests, NEW q \in Requests, NEW l \in Lines, p # q,
               InReceipt(p)', InReceipt(q)', req'[p].take[l] > 0, req'[q].take[l] > 0
        PROVE  FALSE
    <3>1. CASE p # r /\ q # r
      BY <1>1, <2>2, <3>1 DEF Inv, RequestsFit, InReceipt
    <3>2. CASE p = r
      BY <1>1, <2>2, <3>2 DEF InReceipt
    <3>3. CASE q = r
      BY <1>1, <2>2, <3>3 DEF InReceipt
    <3> QED BY <3>1, <3>2, <3>3
  <2> QED BY <1>3, <2>1, <2>2 DEF RequestsFit
<1>5. LinesWithinBounds' /\ DraftsUntouched'
  BY DEF Inv, LinesWithinBounds, DraftsUntouched, orderVars
<1> QED BY <1>4, <1>5 DEF Inv

LEMMA RequestReadInv ==
    ASSUME Inv, NEW r \in Requests,
           \/ \E l \in Lines, what \in {"add", "edit", "remove"}, put \in NewLines :
                 EditRead(r, l, what, put)
           \/ \E o \in Orders, next \in {"ORDERED", "CANCELLED"} : StatusRead(r, o, next)
           \/ \E o \in Orders : \E take \in Forms(o) :
                 ReceiveRead(r, o, take) \/ ReturnRead(r, o, take)
           \/ \E p \in Parts, qty \in 0..MaxQty : AdjustRead(r, p, qty)
    PROVE  Inv'
<1>0. /\ Typed /\ Typed' /\ line \in [Lines -> LineRows] /\ part \in [Parts -> PartRows]
      /\ po \in [Orders -> OrderRows]
  BY ReadTyped DEF Inv, Typed
<1>1. ASSUME UNCHANGED stockVars, UNCHANGED orderVars PROVE StockAccountedFor'
  BY <1>1 DEF Inv, StockAccountedFor, stockVars, orderVars
<1>2. ASSUME NEW l \in Lines, NEW what \in {"add", "edit", "remove"}, NEW put \in NewLines,
             EditRead(r, l, what, put)
      PROVE  Inv'
  <2> DEFINE note == [Idle EXCEPT !.pc = what, !.line = {l}, !.lines = line, !.put = put]
  <2>1. note \in ReqRows /\ note.pc = what
    BY <1>0, IdleType, NewLinesType DEF ReqRows, Pcs
  <2>2. Fits(note)
    BY <2>1 DEF Fits
  <2>3. req' = [req EXCEPT ![r] = note] /\ UNCHANGED orderVars /\ StockAccountedFor'
    BY <1>1, <1>2 DEF EditRead
  <2> HIDE DEF note
  <2> QED BY <1>0, <2>1, <2>2, <2>3, NoteFits
<1>3. ASSUME NEW o \in Orders, NEW next \in {"ORDERED", "CANCELLED"}, StatusRead(r, o, next)
      PROVE  Inv'
  <2> DEFINE note == [Idle EXCEPT !.pc = "status", !.order = {o}, !.next = next,
                                  !.status = po[o].status]
  <2>1. note \in ReqRows /\ note.pc = "status" /\ note.next = next
    BY <1>0, IdleType DEF ReqRows, OrderRows, OrderStatuses, Pcs
  <2>2. Fits(note)
    BY <2>1 DEF Fits
  <2>3. req' = [req EXCEPT ![r] = note] /\ UNCHANGED orderVars /\ StockAccountedFor'
    BY <1>1, <1>3 DEF StatusRead
  <2> HIDE DEF note
  <2> QED BY <1>0, <2>1, <2>2, <2>3, NoteFits
<1>4. ASSUME NEW o \in Orders, NEW take \in Forms(o),
             ReceiveRead(r, o, take) \/ ReturnRead(r, o, take)
      PROVE  Inv'
  <2> DEFINE note(pc) == [Idle EXCEPT !.pc = pc, !.order = {o}, !.take = take, !.lines = line]
  <2>1. \A pc \in {"claim", "return"} : /\ note(pc) \in ReqRows /\ note(pc).pc = pc
                                        /\ note(pc).take = take /\ note(pc).lines = line
    BY <1>0, IdleType, FormsType DEF ReqRows, Pcs
  <2>2. \A l \in Lines : take[l] > 0 => OrderOf[l] = o /\ line[l].live
    BY FormsType DEF Taken, LinesOf
  <2>3. \A l \in Lines : line[l].recd <= line[l].recd
    <3>1. \A l \in Lines : line[l].recd \in Nat
      BY <1>0 DEF LineRows
    <3> QED BY <3>1
  <2> HIDE DEF note
  <2>4. CASE ReceiveRead(r, o, take)
    <3>1. Fits(note("claim"))
      BY <2>1, <2>2, <2>4 DEF Fits, ReceiveRead
    <3>2. req' = [req EXCEPT ![r] = note("claim")] /\ UNCHANGED orderVars /\ StockAccountedFor'
      BY <1>1, <2>4 DEF ReceiveRead, note
    <3> QED BY <1>0, <2>1, <3>1, <3>2, NoteFits
  <2>5. CASE ReturnRead(r, o, take)
    <3>1. Fits(note("return"))
      BY <2>1, <2>2, <2>3, <2>5 DEF Fits, ReturnRead
    <3>2. req' = [req EXCEPT ![r] = note("return")] /\ UNCHANGED orderVars /\ StockAccountedFor'
      BY <1>1, <2>5 DEF ReturnRead, note
    <3> QED BY <1>0, <2>1, <3>1, <3>2, NoteFits
  <2> QED BY <1>4, <2>4, <2>5
<1>5. ASSUME NEW p \in Parts, NEW qty \in 0..MaxQty, AdjustRead(r, p, qty)
      PROVE  Inv'
  <2> DEFINE note == [Idle EXCEPT !.pc = "adjust", !.part = {p}, !.parts = part, !.put.qty = qty]
  <2>1. qty \in Nat
    BY PurchasingAssumption
  <2>2. note \in ReqRows /\ note.pc = "adjust"
    BY <1>0, <2>1, IdleType DEF ReqRows, Idle, LineRows, NoLine, Pcs
  <2>3. Fits(note)
    BY <2>2 DEF Fits
  <2>4. req' = [req EXCEPT ![r] = note] /\ UNCHANGED orderVars /\ StockAccountedFor'
    BY <1>1, <1>5 DEF AdjustRead
  <2> HIDE DEF note
  <2> QED BY <1>0, <2>2, <2>3, <2>4, NoteFits
<1> QED BY <1>2, <1>3, <1>4, <1>5

\* The numbers of a request's lines are numbers.
LEMMA LineNumbers ==
    ASSUME line \in [Lines -> LineRows], NEW n \in ReqRows, NEW l \in Lines
    PROVE  line[l].recd \in Int /\ n.lines[l].qty \in Int /\ n.take[l] \in Int
<1>1. line[l] \in LineRows /\ n.lines[l] \in LineRows /\ n.take[l] \in Nat
  BY DEF ReqRows
<1> QED BY <1>1 DEF LineRows

LEMMA ClaimInv ==
    ASSUME Inv, NEW r \in Requests, Claim(r) \/ Count(r) \/ Kill(r)
    PROVE  Inv'
<1>0. /\ Typed /\ Typed' /\ req[r] \in ReqRows /\ UNCHANGED <<orderVars, stockVars>>
      /\ part \in [Parts -> PartRows] /\ line \in [Lines -> LineRows]
  BY ClaimTyped DEF Inv, Typed, Claim, Count, Kill
<1>1. StockAccountedFor'
  BY <1>0 DEF Inv, StockAccountedFor, stockVars, orderVars
<1>2. CASE Finish(r)
  <2>1. Fits(Idle) /\ Idle.pc = "idle"
    BY DEF Fits, Idle, Zero
  <2> QED BY <1>0, <1>1, <1>2, <2>1, IdleType, NoteFits DEF Finish
<1>3. CASE Claim(r) /\ \A l \in Taken(req[r].take) : FitsUnderCap(r, l)
  <2> DEFINE note == [req[r] EXCEPT !.pc = "count", !.parts = part]
  <2>1. req' = [req EXCEPT ![r] = note]
    BY <1>3 DEF Claim
  <2>2. note \in ReqRows /\ note.pc = "count" /\ note.take = req[r].take /\ note.lines = req[r].lines
    BY <1>0 DEF ReqRows, Pcs
  <2> HIDE DEF note
  <2>3. \A l \in Lines : note.take[l] > 0 =>
           line[l].recd + note.take[l] <= note.lines[l].qty /\ ~LineLocked(l)
    <3> TAKE l \in Lines
    <3> HAVE note.take[l] > 0
    <3>1. FitsUnderCap(r, l) /\ ~LineLocked(l)
      BY <1>3, <2>2 DEF Claim, Taken
    <3>2. line[l].recd \in Int /\ note.lines[l].qty \in Int /\ note.take[l] \in Int
      <4>1. note \in ReqRows /\ line \in [Lines -> LineRows]
        BY <1>0, <2>2
      <4> QED BY ONLY <4>1, l \in Lines, LineNumbers
    <3> QED BY <2>2, <3>1, <3>2 DEF FitsUnderCap
  <2>4. Fits(note)
    BY <1>3, <2>2, <2>3 DEF Fits, Inv, RequestsFit, Claim
  <2>5. \A q \in Requests \ {r}, l \in Lines :
           InReceipt(q) => ~(req[q].take[l] > 0 /\ note.take[l] > 0)
    BY <2>3 DEF LineLocked
  <2> QED BY <1>0, <1>1, <2>1, <2>2, <2>4, <2>5, NoteFits
<1>4. CASE Count(r)
  <2>1. PICK o \in req[r].order : req' = [req EXCEPT ![r].pc = "commit", ![r].full = AllFull(r, o)]
    BY <1>4 DEF Count
  <2> DEFINE note == [req[r] EXCEPT !.pc = "commit", !.full = AllFull(r, o)]
  <2>2. req' = [req EXCEPT ![r] = note] /\ req[r].pc = "count"
    BY <1>4, <2>1 DEF Count
  <2>3. AllFull(r, o) \in BOOLEAN
    BY DEF AllFull
  <2>4. note \in ReqRows /\ note.pc = "commit" /\ note.take = req[r].take /\ note.lines = req[r].lines
    BY <1>0, <2>3 DEF ReqRows, Pcs
  <2> HIDE DEF note
  <2>5. Fits(note)
    BY <2>2, <2>4 DEF Fits, Inv, RequestsFit
  <2>6. \A q \in Requests \ {r}, l \in Lines :
           InReceipt(q) => ~(req[q].take[l] > 0 /\ note.take[l] > 0)
    BY <2>2, <2>4 DEF Inv, RequestsFit, InReceipt
  <2> QED BY <1>0, <1>1, <2>2, <2>4, <2>5, <2>6, NoteFits
<1> QED BY <1>2, <1>3, <1>4 DEF Claim, Kill

LEMMA EditWriteInv ==
    ASSUME Inv, NEW r \in Requests, EditWrite(r)
    PROVE  Inv'
<1> PICK l \in req[r].line : EditWrite(r)!(l)
  BY DEF EditWrite
<1>0. /\ Typed /\ Typed' /\ l \in Lines /\ line \in [Lines -> LineRows] /\ line[l] \in LineRows
      /\ req[r].put \in LineRows /\ \A q \in Requests : req[q] \in ReqRows
  BY EditWriteTyped DEF Inv, Typed, ReqRows
<1>1. StockAccountedFor'
  <2>1. \A p \in Parts : <<"adjust", p>> \in overtaken => <<"adjust", p>> \in overtaken'
    OBVIOUS
  <2> QED BY <2>1 DEF Inv, StockAccountedFor, stockVars
<1>2. CASE ~Lands(r, l)
  <2>1. UNCHANGED orderVars
    BY <1>2 DEF orderVars
  <2>2. Fits(Idle) /\ Idle.pc = "idle"
    BY DEF Fits, Idle, Zero
  <2> QED BY <1>0, <1>1, <2>1, <2>2, IdleType, NoteFits DEF Finish
<1>3. CASE Lands(r, l)
  <2>1. line' = [line EXCEPT ![l] = Edited(r, l)] /\ ~LineLocked(l)
    BY <1>3
  <2>2. /\ \A m \in Lines \ {l} : line'[m] = line[m]
        /\ line'[l] = Edited(r, l)
    BY <1>0, <2>1
  <2>3. /\ \A o : <<"lines", o>> \in overtaken => <<"lines", o>> \in overtaken'
        /\ po[OrderOf[l]].status # "DRAFT" => <<"lines", OrderOf[l]>> \in overtaken'
    BY <1>3
  <2>4. line[l].recd \in Nat /\ line[l].retd \in Nat /\ Edited(r, l).qty \in Nat
    BY <1>0, EditedFacts DEF LineRows
  <2>5. \/ ~Edited(r, l).live /\ Edited(r, l).ver > 0 /\ Edited(r, l).recd = 0 /\ Edited(r, l).retd = 0
        \/ Edited(r, l).live /\ Edited(r, l).recd = line[l].recd /\ Edited(r, l).retd = line[l].retd
    BY <1>0, EditedFacts
  <2>6. line[l].live \/ line[l] = NoLine
    BY <1>3 DEF Lands
  <2>7. LinesWithinBounds'
    <3> SUFFICES ASSUME NEW m \in Lines
                 PROVE  /\ line'[m].recd <= line'[m].qty \/ <<"lines", OrderOf[m]>> \in overtaken'
                        /\ line'[m].retd <= line'[m].recd
      BY DEF LinesWithinBounds
    <3>1. CASE m # l
      BY <2>2, <2>3, <3>1 DEF Inv, LinesWithinBounds
    <3>2. CASE m = l
      <4>1. po[OrderOf[l]].status = "DRAFT" => line[l].recd = 0 /\ line[l].retd = 0
        BY <1>0 DEF Inv, DraftsUntouched
      <4>2. line[l].retd <= line[l].recd
        BY <1>0 DEF Inv, LinesWithinBounds
      <4> QED BY <2>2, <2>3, <2>4, <2>5, <3>2, <4>1, <4>2
    <3> QED BY <3>1, <3>2
  <2>8. DraftsUntouched'
    BY <2>2, <2>5 DEF Inv, DraftsUntouched
  <2>9. ASSUME NEW q \in Requests \ {r} PROVE Fits(req[q])'
    <3> SUFFICES ASSUME NEW m \in Lines, req[q].take[m] > 0
                 PROVE  /\ req[q].pc \in {"claim", "count", "commit"} =>
                              /\ po[OrderOf[m]].status # "DRAFT"
                              /\ \/ <<"lines", OrderOf[m]>> \in overtaken'
                                 \/ line'[m].live /\ line'[m].qty = req[q].lines[m].qty
                        /\ req[q].pc \in {"count", "commit"} =>
                              line'[m].recd + req[q].take[m] <= req[q].lines[m].qty
                        /\ req[q].pc = "return" =>
                              /\ po[OrderOf[m]].status # "DRAFT"
                              /\ line'[m].live \/ line'[m].ver > 0
                              /\ line'[m].live => req[q].lines[m].recd <= line'[m].recd
      <4>1. req'[q] = req[q] /\ po' = po
        BY <1>0, FinishType DEF Typed
      <4> QED BY <4>1 DEF Fits
    <3>1. Fits(req[q])
      BY DEF Inv, RequestsFit
    <3>2. CASE m # l
      BY <2>2, <2>3, <3>1, <3>2 DEF Fits
    <3>3. CASE m = l
      <4>1. req[q].pc \notin {"count", "commit"}
        BY <2>1, <3>3 DEF LineLocked, InReceipt
      <4>2. line[l] = NoLine => ~line[l].live /\ line[l].ver = 0
        BY DEF NoLine
      <4>3. CASE req[q].pc = "claim"
        BY <2>3, <3>1, <3>3, <4>3 DEF Fits
      <4>4. CASE req[q].pc = "return"
        <5>1. /\ po[OrderOf[l]].status # "DRAFT" /\ (line[l].live \/ line[l].ver > 0)
              /\ line[l].live => req[q].lines[l].recd <= line[l].recd
          BY <3>1, <3>3, <4>4 DEF Fits
        <5>2. line[l].live
          BY <2>6, <4>2, <5>1
        <5> QED BY <2>2, <2>5, <3>3, <4>4, <5>1, <5>2
      <4> QED BY <4>1, <4>3, <4>4
    <3> QED BY <3>2, <3>3
  <2>10. RequestsFit'
    BY <1>0, <2>9, LeavesFit DEF Inv
  <2> QED BY <1>0, <1>1, <2>7, <2>8, <2>10 DEF Inv
<1> QED BY <1>2, <1>3

LEMMA StatusWriteInv ==
    ASSUME Inv, NEW r \in Requests, StatusWrite(r)
    PROVE  Inv'
<1> PICK o \in req[r].order : StatusWrite(r)!(o)
  BY DEF StatusWrite
<1>0. Typed /\ Typed' /\ o \in Orders /\ po \in [Orders -> OrderRows] /\ req[r].next # "DRAFT"
  BY StatusWriteTyped DEF Inv, Typed, ReqRows, RequestsFit
<1>1. \A l \in Lines : po'[OrderOf[l]].status = "DRAFT" => po[OrderOf[l]].status = "DRAFT"
  <2> TAKE l \in Lines
  <2>1. OrderOf[l] \in Orders
    BY PurchasingAssumption
  <2> QED BY <1>0, <2>1 DEF OrderRows
<1>2. /\ \A x \in Orders : <<"lines", x>> \in overtaken => <<"lines", x>> \in overtaken'
      /\ \A p \in Parts : <<"adjust", p>> \in overtaken => <<"adjust", p>> \in overtaken'
      /\ \A l \in Lines : OrderOf[l] \in Orders
  BY PurchasingAssumption
<1>3. StockAccountedFor' /\ LinesWithinBounds' /\ DraftsUntouched'
  BY <1>1, <1>2 DEF Inv, StockAccountedFor, LinesWithinBounds, DraftsUntouched, stockVars
<1>4. \A q \in Requests \ {r} : Fits(req[q])'
  <2> TAKE q \in Requests \ {r}
  <2>1. req'[q] = req[q] /\ Fits(req[q])
    BY <1>0, FinishType DEF Typed, Inv, RequestsFit
  <2> QED BY <1>1, <1>2, <2>1 DEF Fits
<1>5. RequestsFit'
  BY <1>0, <1>4, LeavesFit DEF Inv
<1> QED BY <1>0, <1>3, <1>5 DEF Inv

LEMMA CommitInv ==
    ASSUME Inv, NEW r \in Requests, Commit(r)
    PROVE  Inv'
<1> PICK o \in req[r].order : Commit(r)!(o)
  BY DEF Commit
<1> DEFINE take == req[r].take
<1>0. /\ Typed /\ Typed' /\ o \in Orders /\ po \in [Orders -> OrderRows]
      /\ line \in [Lines -> LineRows] /\ take \in [Lines -> Nat] /\ req[r].pc = "commit"
      /\ \A l \in Lines : OrderOf[l] \in Orders
  BY CommitTyped, PurchasingAssumption DEF Inv, Typed, ReqRows
<1>1. /\ \A l \in Lines : po'[OrderOf[l]].status = "DRAFT" => po[OrderOf[l]].status = "DRAFT"
      /\ \A x \in Orders : <<"lines", x>> \in overtaken => <<"lines", x>> \in overtaken'
      /\ \A p \in Parts : <<"adjust", p>> \in overtaken => <<"adjust", p>> \in overtaken'
  <2>1. ASSUME NEW x \in Orders, po'[x].status = "DRAFT" PROVE po[x].status = "DRAFT"
    BY <1>0, <2>1 DEF OrderRows, StatusAfter
  <2> QED BY <1>0, <2>1
<1>2. /\ \A l \in Lines :
            /\ line'[l].live = line[l].live /\ line'[l].qty = line[l].qty
            /\ line'[l].recd = line[l].recd + take[l]
            /\ line'[l].retd = line[l].retd /\ line'[l].ver >= line[l].ver
      /\ \A l \in Lines : /\ take[l] \in Nat /\ line[l].recd \in Nat /\ line[l].retd \in Nat
                          /\ line[l].ver \in Nat /\ line'[l].ver \in Nat /\ line[l].qty \in Nat
  <2>1. line' = LinesReceived(take)
    OBVIOUS
  <2>2. line' \in [Lines -> LineRows]
    BY <1>0 DEF Typed
  <2>3. \A l \in Lines : line[l] \in LineRows /\ line'[l] \in LineRows
    BY <1>0, <2>2
  <2> QED BY <1>0, <2>1, <2>3, LinesReceivedFacts DEF LineRows
<1>3. Fits(req[r])
  BY DEF Inv, RequestsFit
<1>4. StockAccountedFor'
  BY <1>0, <1>1, CommitShelf DEF Inv, StockAccountedFor, Accounted
<1>5. LinesWithinBounds'
  <2> SUFFICES ASSUME NEW l \in Lines
               PROVE  /\ line'[l].recd <= line'[l].qty \/ <<"lines", OrderOf[l]>> \in overtaken'
                      /\ line'[l].retd <= line'[l].recd
    BY DEF LinesWithinBounds
  <2>1. /\ line[l].recd <= line[l].qty \/ <<"lines", OrderOf[l]>> \in overtaken
        /\ line[l].retd <= line[l].recd
    BY DEF Inv, LinesWithinBounds
  <2>2. CASE take[l] = 0
    BY <1>0, <1>1, <1>2, <2>1, <2>2
  <2>3. CASE take[l] > 0
    <3>1. /\ <<"lines", OrderOf[l]>> \in overtaken \/ line[l].qty = req[r].lines[l].qty
          /\ line[l].recd + take[l] <= req[r].lines[l].qty
      BY <1>0, <1>3, <2>3 DEF Fits
    <3> QED BY <1>0, <1>1, <1>2, <2>1, <3>1
  <2> QED BY <1>2, <2>2, <2>3
<1>6. DraftsUntouched'
  <2> SUFFICES ASSUME NEW l \in Lines, po'[OrderOf[l]].status = "DRAFT"
               PROVE  line'[l].recd = 0 /\ line'[l].retd = 0
    BY DEF DraftsUntouched
  <2>1. line[l].recd = 0 /\ line[l].retd = 0 /\ po[OrderOf[l]].status = "DRAFT"
    BY <1>1 DEF Inv, DraftsUntouched
  <2>2. ~(take[l] > 0)
    BY <1>0, <1>3, <2>1 DEF Fits
  <2> QED BY <1>2, <2>1, <2>2
<1>7. ASSUME NEW q \in Requests \ {r} PROVE Fits(req[q])'
  <2> SUFFICES ASSUME NEW l \in Lines, req[q].take[l] > 0
               PROVE  /\ req[q].pc \in {"claim", "count", "commit"} =>
                            /\ po'[OrderOf[l]].status # "DRAFT"
                            /\ \/ <<"lines", OrderOf[l]>> \in overtaken'
                               \/ line'[l].live /\ line'[l].qty = req[q].lines[l].qty
                      /\ req[q].pc \in {"count", "commit"} =>
                            line'[l].recd + req[q].take[l] <= req[q].lines[l].qty
                      /\ req[q].pc = "return" =>
                            /\ po'[OrderOf[l]].status # "DRAFT"
                            /\ line'[l].live \/ line'[l].ver > 0
                            /\ line'[l].live => req[q].lines[l].recd <= line'[l].recd
    <3>1. req'[q] = req[q]
      BY <1>0, FinishType DEF Typed
    <3> QED BY <3>1 DEF Fits
  <2>1. Fits(req[q])
    BY DEF Inv, RequestsFit
  <2>2. CASE req[q].pc = "claim"
    BY <1>0, <1>1, <1>2, <2>1, <2>2 DEF Fits
  <2>3. CASE req[q].pc \in {"count", "commit"}
    <3>1. ~(take[l] > 0)
      BY <1>0, <2>3 DEF Inv, RequestsFit, InReceipt
    <3>2. line'[l].recd = line[l].recd
      BY <1>2, <3>1
    <3> QED BY <1>0, <1>1, <1>2, <2>1, <2>3, <3>2 DEF Fits
  <2>4. CASE req[q].pc = "return"
    <3>1. req[q].lines[l].recd \in Nat
      <4>1. req[q].lines \in [Lines -> LineRows]
        BY <1>0 DEF Typed, ReqRows
      <4>2. req[q].lines[l] \in LineRows
        BY <4>1
      <4> QED BY <4>2 DEF LineRows
    <3>2. /\ po[OrderOf[l]].status # "DRAFT" /\ (line[l].live \/ line[l].ver > 0)
          /\ line[l].live => req[q].lines[l].recd <= line[l].recd
      BY <2>1, <2>4 DEF Fits
    <3> HIDE DEF take
    <3> QED BY <1>1, <1>2, <2>4, <3>1, <3>2
  <2> QED BY <2>2, <2>3, <2>4
<1>8. RequestsFit'
  BY <1>0, <1>7, LeavesFit DEF Inv
<1> QED BY <1>0, <1>4, <1>5, <1>6, <1>8 DEF Inv

LEMMA ReturnWriteInv ==
    ASSUME Inv, NEW r \in Requests, ReturnWrite(r)
    PROVE  Inv'
<1> DEFINE take == req[r].take
<1>0. /\ Typed /\ Typed' /\ line \in [Lines -> LineRows] /\ take \in [Lines -> Nat]
      /\ req[r].pc = "return" /\ Finish(r) /\ UNCHANGED <<po, overtaken>>
  BY ReturnWriteTyped DEF Inv, Typed, ReqRows, ReturnWrite
<1>1. CASE ~(\A l \in Taken(take) : Returnable(r, l))
  <2>1. UNCHANGED <<orderVars, stockVars>>
    BY <1>1 DEF ReturnWrite, orderVars, stockVars
  <2>2. Fits(Idle) /\ Idle.pc = "idle"
    BY DEF Fits, Idle, Zero
  <2>3. StockAccountedFor'
    BY <2>1 DEF Inv, StockAccountedFor, stockVars, orderVars
  <2> QED BY <1>0, <2>1, <2>2, <2>3, IdleType, NoteFits DEF Finish
<1>2. CASE \A l \in Taken(take) : Returnable(r, l)
  <2>1. /\ line' = LinesReturned(take)
        /\ part' = [p \in Parts |-> [part[p] EXCEPT !.qty = @ - Gain(take, p)]]
        /\ moved' = [p \in Parts |-> [moved[p] EXCEPT !.orders = @ - Gain(take, p)]]
    BY <1>2 DEF ReturnWrite
  <2>2. \A l \in Taken(take) :
           /\ \A p \in Parts : p = DestinationOf[l] => part[p].qty >= take[l]
           /\ line[l].live /\ line[l].retd <= req[r].lines[l].recd - take[l]
    BY <1>2 DEF Returnable
  <2>3. StockAccountedFor'
    <3>1. \A p \in Parts : Accounted(p) => Accounted(p)'
      BY <1>0, <2>1, <2>2, ReturnShelf
    <3> QED BY <1>0, <3>1 DEF Inv, StockAccountedFor, Accounted
  <2>4. /\ \A l \in Lines :
              /\ line'[l].live = line[l].live /\ line'[l].qty = line[l].qty
              /\ line'[l].recd = line[l].recd /\ line'[l].retd = line[l].retd + take[l]
              /\ line'[l].ver >= line[l].ver
        /\ \A l \in Lines : /\ take[l] \in Nat /\ line[l].recd \in Nat /\ line[l].retd \in Nat
                            /\ line[l].ver \in Nat /\ line'[l].ver \in Nat
                            /\ req[r].lines[l].recd \in Nat
    <3>1. line' \in [Lines -> LineRows] /\ req[r].lines \in [Lines -> LineRows]
      BY <1>0 DEF Typed, ReqRows
    <3>2. \A l \in Lines : /\ line[l] \in LineRows /\ line'[l] \in LineRows
                           /\ req[r].lines[l] \in LineRows
      BY <1>0, <3>1
    <3> QED BY <1>0, <2>1, <3>2, LinesReturnedFacts DEF LineRows
  <2>5. Fits(req[r])
    BY DEF Inv, RequestsFit
  <2>6. LinesWithinBounds'
    <3> SUFFICES ASSUME NEW l \in Lines
                 PROVE  /\ line'[l].recd <= line'[l].qty \/ <<"lines", OrderOf[l]>> \in overtaken'
                        /\ line'[l].retd <= line'[l].recd
      BY DEF LinesWithinBounds
    <3>1. /\ line[l].recd <= line[l].qty \/ <<"lines", OrderOf[l]>> \in overtaken
          /\ line[l].retd <= line[l].recd
      BY DEF Inv, LinesWithinBounds
    <3>2. CASE take[l] > 0
      <4>1. line[l].live /\ line[l].retd <= req[r].lines[l].recd - take[l]
        BY <2>2, <3>2 DEF Taken
      <4>2. req[r].lines[l].recd <= line[l].recd
        BY <1>0, <2>5, <3>2, <4>1 DEF Fits
      <4> HIDE DEF take
      <4> QED BY <1>0, <2>4, <3>1, <4>1, <4>2
    <3>3. CASE take[l] = 0
      BY <1>0, <2>4, <3>1, <3>3
    <3> QED BY <2>4, <3>2, <3>3
  <2>7. DraftsUntouched'
    <3> SUFFICES ASSUME NEW l \in Lines, po[OrderOf[l]].status = "DRAFT"
                 PROVE  line'[l].recd = 0 /\ line'[l].retd = 0
      BY <1>0 DEF DraftsUntouched
    <3>1. line[l].recd = 0 /\ line[l].retd = 0
      BY DEF Inv, DraftsUntouched
    <3>2. ~(take[l] > 0)
      BY <1>0, <2>5 DEF Fits
    <3> QED BY <2>4, <3>1, <3>2
  <2>8. \A q \in Requests \ {r} : Fits(req[q])'
    <3> TAKE q \in Requests \ {r}
    <3>1. req'[q] = req[q] /\ Fits(req[q])
      BY <1>0, FinishType DEF Typed, Inv, RequestsFit
    <3>2. \A l \in Lines : line[l].live \/ line[l].ver > 0 => line'[l].live \/ line'[l].ver > 0
      BY <2>4
    <3> HIDE DEF take
    <3> QED BY <1>0, <2>4, <3>1, <3>2 DEF Fits
  <2>9. RequestsFit'
    BY <1>0, <2>8, LeavesFit DEF Inv
  <2> QED BY <1>0, <2>3, <2>6, <2>7, <2>9 DEF Inv
<1> QED BY <1>1, <1>2

\* The steps that touch stock only, or nothing of this component.
LEMMA OtherStepInv ==
    ASSUME Inv, \/ \E r \in Requests : AdjustWrite(r)
                \/ \E p \in Parts : StockStep(p)
                \/ UNCHANGED <<orderVars, stockVars, req>> /\ budget' \in [Sorts -> Nat]
    PROVE  Inv'
<1>1. ASSUME NEW r \in Requests, AdjustWrite(r) PROVE Inv'
  <2>0. Typed' /\ StockAccountedFor' /\ Finish(r) /\ UNCHANGED <<po, line>>
    BY <1>1, AdjustWriteShelf DEF Inv, AdjustWrite
  <2>1. \A x \in Orders : <<"lines", x>> \in overtaken => <<"lines", x>> \in overtaken'
    BY <1>1 DEF AdjustWrite
  <2>2. \A l \in Lines : OrderOf[l] \in Orders
    BY PurchasingAssumption
  <2>3. LinesWithinBounds' /\ DraftsUntouched'
    BY <2>0, <2>1, <2>2 DEF Inv, LinesWithinBounds, DraftsUntouched
  <2>4. \A q \in Requests \ {r} : Fits(req[q])'
    <3> TAKE q \in Requests \ {r}
    <3>1. req'[q] = req[q] /\ Fits(req[q])
      BY <2>0, FinishType DEF Typed, Inv, RequestsFit
    <3> QED BY <2>0, <2>1, <2>2, <3>1 DEF Fits
  <2> QED BY <2>0, <2>3, <2>4, LeavesFit DEF Inv
<1>2. ASSUME Typed', StockAccountedFor', UNCHANGED <<orderVars, req>> PROVE Inv'
  <2>1. RequestsFit'
    BY <1>2 DEF Inv, RequestsFit, Fits, InReceipt, orderVars
  <2> QED BY <1>2, <2>1 DEF Inv, LinesWithinBounds, DraftsUntouched, orderVars
<1>3. ASSUME NEW p \in Parts, StockStep(p) PROVE Inv'
  <2>1. UNCHANGED <<orderVars, req>>
    BY <1>3 DEF StockStep, Reprice, Use
  <2> QED BY <1>2, <1>3, <2>1, StockStepShelf DEF Inv
<1>4. CASE UNCHANGED <<orderVars, stockVars, req>> /\ budget' \in [Sorts -> Nat]
  <2>1. Typed'
    BY <1>4 DEF Inv, Typed, orderVars, stockVars
  <2>2. StockAccountedFor'
    BY <1>4 DEF Inv, StockAccountedFor, orderVars, stockVars
  <2> QED BY <1>2, <1>4, <2>1, <2>2
<1> QED BY <1>1, <1>3, <1>4

\* The payables take a step of their own, with a receipt, or none.
LEMMA PayablesStep ==
    ASSUME [Next]_vars
    PROVE  PayStep \/ UNCHANGED payVars
<1>0. MaxAmount \in Nat
  BY PayablesAssumption
<1>1. ASSUME NEW r \in Requests, OrderStep(r) PROVE PayStep \/ UNCHANGED payVars
  <2>1. CASE Commit(r)
    <3>1. BillTheReceipt
      BY <2>1 DEF Commit
    <3> QED BY <1>0, <3>1 DEF BillTheReceipt, PayStep
  <2>2. CASE \/ \E l \in Lines, what \in {"add", "edit", "remove"}, put \in NewLines :
                   EditRead(r, l, what, put)
             \/ \E o \in Orders, next \in {"ORDERED", "CANCELLED"} : StatusRead(r, o, next)
             \/ \E o \in Orders : \E take \in Forms(o) :
                   ReceiveRead(r, o, take) \/ ReturnRead(r, o, take)
             \/ \E p \in Parts, qty \in 0..MaxQty : AdjustRead(r, p, qty)
    BY <2>2 DEF EditRead, StatusRead, ReceiveRead, ReturnRead, AdjustRead
  <2>3. CASE EditWrite(r) \/ StatusWrite(r) \/ AdjustWrite(r)
    BY <2>3 DEF EditWrite, StatusWrite, AdjustWrite
  <2>4. CASE Claim(r) \/ Count(r) \/ ReturnWrite(r) \/ Kill(r)
    BY <2>4 DEF Claim, Count, ReturnWrite, Kill
  <2> QED BY <1>1, <2>1, <2>2, <2>3, <2>4 DEF OrderStep
<1>2. ASSUME NEW p \in Parts, StockStep(p) PROVE UNCHANGED payVars
  BY <1>2 DEF StockStep, Reprice, Use
<1>3. ASSUME NEW d \in Desks, DeskStep(d) PROVE PayStep
  <2>1. ASSUME NEW alloc \in [Bills -> 0..MaxAmount], PayRead(d, alloc) PROVE PayStep
    <3>1. alloc \in [Bills -> Nat]
      BY <1>0
    <3> QED BY <2>1, <3>1 DEF PayStep
  <2> QED BY <1>3, <2>1 DEF DeskStep, PayStep
<1>4. ASSUME NEW x \in Expenses, RecordExpense(x, MaxAmount) PROVE PayStep
  BY <1>0, <1>4 DEF PayStep
<1>5. CASE UNCHANGED vars
  BY <1>5 DEF vars
<1> QED BY <1>1, <1>2, <1>3, <1>4, <1>5 DEF Next

LEMMA StepInv ==
    ASSUME Inv, [Next]_vars
    PROVE  Inv'
<1>0. budget \in [Sorts -> Nat]
  BY DEF Inv, Typed
<1>1. ASSUME NEW r \in Requests, OrderStep(r) PROVE Inv'
  BY <1>1, EditWriteInv, StatusWriteInv, ClaimInv, CommitInv, ReturnWriteInv, OtherStepInv,
     RequestReadInv DEF OrderStep
<1>2. ASSUME NEW p \in Parts, StockStep(p) PROVE Inv'
  BY <1>2, OtherStepInv
<1>3. ASSUME NEW d \in Desks, DeskStep(d), UNCHANGED <<orderVars, stockVars, req>> PROVE Inv'
  <2>1. budget' \in [Sorts -> Nat]
    BY <1>0, <1>3, SpendType DEF DeskStep, Sorts
  <2> QED BY <1>3, <2>1, OtherStepInv
<1>4. ASSUME NEW x \in Expenses, Spend("expense"), UNCHANGED <<orderVars, stockVars, req>>
      PROVE  Inv'
  <2>1. budget' \in [Sorts -> Nat]
    BY <1>0, <1>4, SpendType DEF Sorts
  <2> QED BY <1>4, <2>1, OtherStepInv
<1>5. CASE UNCHANGED vars
  BY <1>0, <1>5, OtherStepInv DEF vars, orderVars, stockVars
<1> QED BY <1>1, <1>2, <1>3, <1>4, <1>5 DEF Next

(***************************************************************************)
(* An order tells what came of it.                                         *)
(***************************************************************************)

\* What a form says of itself: one line of a part, lines of one order, and a
\* status that follows the one that was read.
FormsFit ==
    \A r \in Requests :
        /\ \A p \in Parts : \A l, m \in LinesFor(req[r].take, p) : l = m
        /\ req[r].pc \in {"claim", "count", "commit"} =>
              \A o \in req[r].order, l \in Lines : req[r].take[l] > 0 => OrderOf[l] = o
        /\ req[r].pc = "status" =>
              \/ req[r].next = "ORDERED" /\ req[r].status = "DRAFT"
              \/ req[r].next = "CANCELLED" /\ req[r].status \in {"DRAFT", "ORDERED"}

OrderInv == ReceiptsLand /\ StatusFitsLines /\ FormsFit

\* What lines have brought, and the lines that bring to a part.
Kept    == [l \in Lines |-> line[l].recd - line[l].retd]
Into(p) == {l \in Lines : DestinationOf[l] = p}

LEMMA KeptFacts ==
    ASSUME line \in [Lines -> LineRows]
    PROVE  \A l \in Lines : Kept[l] = line[l].recd - line[l].retd /\ Kept[l] \in Int
<1>1. \A l \in Lines : line[l].recd \in Nat /\ line[l].retd \in Nat
  BY DEF LineRows
<1> QED BY <1>1 DEF Kept

LEMMA IntoFinite == \A p : IsFiniteSet(Into(p))
BY PurchasingAssumption, FS_Subset DEF Into

\* With one line of each part, what a form brings to a part is what it adds up to.
LEMMA GainIsTheSum ==
    ASSUME NEW take \in [Lines -> Nat], NEW p \in Parts,
           \A l, m \in LinesFor(take, p) : l = m,
           NEW f, NEW g, \A l \in Lines : f[l] \in Int /\ g[l] = f[l] + take[l]
    PROVE  SumFunctionOnSet(g, Into(p)) = SumFunctionOnSet(f, Into(p)) + Gain(take, p)
<1>1. IsFiniteSet(Into(p)) /\ Into(p) \subseteq Lines
  BY IntoFinite DEF Into
<1>2. SumFunctionOnSet(f, Into(p)) \in Int
  BY <1>1, SumIsInt
<1>3. CASE LinesFor(take, p) = {}
  <2>1. \A l \in Into(p) : g[l] = f[l]
    <3> TAKE l \in Into(p)
    <3>1. l \in Lines /\ DestinationOf[l] = p /\ take[l] \in Nat
      BY DEF Into
    <3>2. ~(take[l] > 0)
      BY <1>3, <3>1 DEF LinesFor, Taken
    <3> QED BY <3>1, <3>2
  <2>2. SumFunctionOnSet(g, Into(p)) = SumFunctionOnSet(f, Into(p))
    BY <1>1, <2>1, SumsAgree
  <2>3. Gain(take, p) = 0
    BY <1>3 DEF Gain
  <2> QED BY <1>2, <2>2, <2>3
<1>4. ASSUME NEW a \in LinesFor(take, p)
      PROVE  SumFunctionOnSet(g, Into(p)) = SumFunctionOnSet(f, Into(p)) + Gain(take, p)
  <2>1. a \in Into(p) /\ a \in Lines
    BY DEF LinesFor, Taken, Into
  <2>2. \A l \in Into(p) \ {a} : f[l] = g[l]
    <3> TAKE l \in Into(p) \ {a}
    <3>1. l \in Lines /\ DestinationOf[l] = p /\ take[l] \in Nat
      BY DEF Into
    <3>2. ~(take[l] > 0)
      BY <3>1 DEF LinesFor, Taken
    <3> QED BY <3>1, <3>2
  <2>3. \A l \in Into(p) : f[l] \in Int /\ g[l] \in Int
    BY <1>1
  <2>4. SumFunctionOnSet(g, Into(p)) = SumFunctionOnSet(f, Into(p)) + g[a] - f[a]
    BY <1>1, <2>1, <2>2, <2>3, SumChanges
  <2>5. Gain(take, p) = take[a]
    <3>1. (CHOOSE l \in LinesFor(take, p) : TRUE) = a
      OBVIOUS
    <3> QED BY <3>1 DEF Gain
  <2>6. g[a] = f[a] + take[a] /\ f[a] \in Int /\ take[a] \in Int
    BY <2>1
  <2> QED BY <1>2, <2>4, <2>5, <2>6
<1> QED BY <1>3, <1>4

\* Receipts land, in the words of this section.
LEMMA LandedFacts ==
    ReceiptsLand <=>
        ((\A o \in Orders : <<"lines", o>> \notin overtaken) =>
            /\ \A p \in Parts : moved[p].orders = SumFunctionOnSet(Kept, Into(p))
            /\ \A l \in Lines : DestinationOf[l] = Direct => fitted[l] = line[l].recd)
BY DEF ReceiptsLand, Kept, Into

LEMMA InitOrderInv == Init => OrderInv
<1> SUFFICES ASSUME Init PROVE OrderInv
  OBVIOUS
<1>1. PICK s \in Scenarios :
         /\ po = [o \in Orders |-> [status |-> "DRAFT", intent |-> s.intent[o]]]
         /\ line = s.lines
         /\ moved = [p \in Parts |-> [opening |-> s.stock[p], orders |-> 0, other |-> 0]]
  BY DEF Init
<1>2. Typed /\ DraftsUntouched
  BY InitInv DEF Inv
<1>3. \A l \in Lines : OrderOf[l] \in Orders
  BY PurchasingAssumption
<1>4. \A l \in Lines : line[l].recd = 0 /\ line[l].retd = 0
  BY <1>1, <1>2, <1>3 DEF DraftsUntouched
<1>5. ReceiptsLand
  <2>1. ASSUME NEW p \in Parts PROVE moved[p].orders = SumFunctionOnSet(Kept, Into(p))
    <3>1. \A l \in Into(p) : Kept[l] = 0
      BY <1>4 DEF Into, Kept
    <3>2. SumFunctionOnSet(Kept, Into(p)) = 0
      BY <3>1, IntoFinite, SumOfZeros
    <3> QED BY <1>1, <3>2
  <2>2. \A l \in Lines : fitted[l] = line[l].recd
    BY <1>4 DEF Init, Zero
  <2> QED BY <2>1, <2>2, LandedFacts
<1>6. StatusFitsLines
  BY <1>1, <1>4 DEF StatusFitsLines, LinesOf
<1>7. FormsFit
  BY DEF Init, FormsFit, Idle, Zero, LinesFor, Taken
<1> QED BY <1>5, <1>6, <1>7 DEF OrderInv

\* What leaves what the lines received and returned as it is.
LEMMA LandKept ==
    ASSUME ReceiptsLand, Typed,
           \A o \in Orders : <<"lines", o>> \in overtaken => <<"lines", o>> \in overtaken',
           (\A o \in Orders : <<"lines", o>> \notin overtaken') =>
               /\ \A l \in Lines : /\ line'[l].recd = line[l].recd /\ line'[l].retd = line[l].retd
                                   /\ DestinationOf[l] = Direct => fitted'[l] = fitted[l]
               /\ \A p \in Parts : moved'[p].orders = moved[p].orders
    PROVE  ReceiptsLand'
<1> SUFFICES ASSUME \A o \in Orders : <<"lines", o>> \notin overtaken'
             PROVE  /\ \A p \in Parts : moved'[p].orders = SumFunctionOnSet(Kept', Into(p))
                    /\ \A l \in Lines : DestinationOf[l] = Direct => fitted'[l] = line'[l].recd
  BY LandedFacts DEF ReceiptsLand, Kept, Into
<1>1. /\ \A p \in Parts : moved[p].orders = SumFunctionOnSet(Kept, Into(p))
      /\ \A l \in Lines : DestinationOf[l] = Direct => fitted[l] = line[l].recd
  BY LandedFacts
<1>2. Kept' = Kept
  BY DEF Kept
<1> QED BY <1>1, <1>2

\* A request that ends, or takes note, with a form that is in order.
LEMMA FormsKept ==
    ASSUME Typed, FormsFit, NEW r \in Requests, NEW note, req' = [req EXCEPT ![r] = note],
           \A p \in Parts : \A l, m \in LinesFor(note.take, p) : l = m,
           note.pc \in {"claim", "count", "commit"} =>
              \A o \in note.order, l \in Lines : note.take[l] > 0 => OrderOf[l] = o,
           note.pc = "status" =>
              \/ note.next = "ORDERED" /\ note.status = "DRAFT"
              \/ note.next = "CANCELLED" /\ note.status \in {"DRAFT", "ORDERED"}
    PROVE  FormsFit'
<1>1. req'[r] = note /\ \A q \in Requests \ {r} : req'[q] = req[q]
  BY DEF Typed
<1> QED BY <1>1 DEF FormsFit, LinesFor, Taken

LEMMA FinishForms ==
    ASSUME Typed, FormsFit, NEW r \in Requests, Finish(r)
    PROVE  FormsFit'
<1>1. \A p \in Parts : LinesFor(Idle.take, p) = {}
  BY DEF LinesFor, Taken, Idle, Zero
<1>2. Idle.pc = "idle"
  BY DEF Idle
<1> QED BY <1>1, <1>2, FormsKept DEF Finish

\* The reads: nothing of the orders or the stock moves.
LEMMA ReadForms ==
    ASSUME Typed, FormsFit, NEW r \in Requests,
           \/ \E l \in Lines, what \in {"add", "edit", "remove"}, put \in NewLines :
                 EditRead(r, l, what, put)
           \/ \E o \in Orders, next \in {"ORDERED", "CANCELLED"} : StatusRead(r, o, next)
           \/ \E o \in Orders : \E take \in Forms(o) :
                 ReceiveRead(r, o, take) \/ ReturnRead(r, o, take)
           \/ \E p \in Parts, qty \in 0..MaxQty : AdjustRead(r, p, qty)
    PROVE  FormsFit' /\ UNCHANGED <<orderVars, stockVars>>
<1>0. /\ Idle.take = Zero /\ \A p \in Parts : LinesFor(Zero, p) = {}
      /\ \A l \in Lines : ~(Zero[l] > 0)
  BY DEF LinesFor, Taken, Idle, Zero
<1>1. ASSUME NEW l \in Lines, NEW what \in {"add", "edit", "remove"}, NEW put \in NewLines,
             EditRead(r, l, what, put)
      PROVE  FormsFit' /\ UNCHANGED <<orderVars, stockVars>>
  <2> DEFINE note == [Idle EXCEPT !.pc = what, !.line = {l}, !.lines = line, !.put = put]
  <2>1. note.take = Zero /\ note.pc = what
    BY <1>0 DEF Idle
  <2>2. req' = [req EXCEPT ![r] = note] /\ UNCHANGED <<orderVars, stockVars>>
    BY <1>1 DEF EditRead
  <2> HIDE DEF note
  <2> QED BY <1>0, <2>1, <2>2, FormsKept
<1>2. ASSUME NEW o \in Orders, NEW next \in {"ORDERED", "CANCELLED"}, StatusRead(r, o, next)
      PROVE  FormsFit' /\ UNCHANGED <<orderVars, stockVars>>
  <2> DEFINE note == [Idle EXCEPT !.pc = "status", !.order = {o}, !.next = next,
                                  !.status = po[o].status]
  <2>1. /\ note.take = Zero /\ note.pc = "status" /\ note.next = next
        /\ note.status = po[o].status
    BY <1>0 DEF Idle
  <2>2. req' = [req EXCEPT ![r] = note] /\ UNCHANGED <<orderVars, stockVars>>
    BY <1>2 DEF StatusRead
  <2>3. \/ next = "ORDERED" /\ po[o].status = "DRAFT"
        \/ next = "CANCELLED" /\ po[o].status \in {"DRAFT", "ORDERED"}
    BY <1>2 DEF StatusRead
  <2> HIDE DEF note
  <2> QED BY <1>0, <2>1, <2>2, <2>3, FormsKept
<1>3. ASSUME NEW o \in Orders, NEW take \in Forms(o),
             ReceiveRead(r, o, take) \/ ReturnRead(r, o, take)
      PROVE  FormsFit' /\ UNCHANGED <<orderVars, stockVars>>
  <2> DEFINE note(pc) == [Idle EXCEPT !.pc = pc, !.order = {o}, !.take = take, !.lines = line]
  <2>1. \A pc \in {"claim", "return"} :
           note(pc).take = take /\ note(pc).pc = pc /\ note(pc).order = {o}
    BY DEF Idle
  <2>2. /\ \E pc \in {"claim", "return"} : req' = [req EXCEPT ![r] = note(pc)]
        /\ UNCHANGED <<orderVars, stockVars>>
    BY <1>3 DEF ReceiveRead, ReturnRead
  <2>3. /\ \A p \in Parts : \A l, m \in LinesFor(take, p) : l = m
        /\ \A l \in Lines : take[l] > 0 => OrderOf[l] = o
    BY DEF Forms, LinesOf, Taken
  <2> HIDE DEF note
  <2>4. PICK pc \in {"claim", "return"} : req' = [req EXCEPT ![r] = note(pc)]
    BY <2>2
  <2>5. note(pc).take = take /\ note(pc).pc = pc /\ note(pc).order = {o}
    BY <2>1
  <2> QED BY <2>2, <2>3, <2>4, <2>5, FormsKept
<1>4. ASSUME NEW p \in Parts, NEW qty \in 0..MaxQty, AdjustRead(r, p, qty)
      PROVE  FormsFit' /\ UNCHANGED <<orderVars, stockVars>>
  <2> DEFINE note == [Idle EXCEPT !.pc = "adjust", !.part = {p}, !.parts = part, !.put.qty = qty]
  <2>1. note.take = Zero /\ note.pc = "adjust"
    BY <1>0 DEF Idle
  <2>2. req' = [req EXCEPT ![r] = note] /\ UNCHANGED <<orderVars, stockVars>>
    BY <1>4 DEF AdjustRead
  <2> HIDE DEF note
  <2> QED BY <1>0, <2>1, <2>2, FormsKept
<1> QED BY <1>1, <1>2, <1>3, <1>4

LEMMA ClaimForms ==
    ASSUME Typed, FormsFit, NEW r \in Requests, Claim(r) \/ Count(r) \/ Kill(r)
    PROVE  FormsFit' /\ UNCHANGED <<orderVars, stockVars>>
<1>0. req[r] \in ReqRows /\ UNCHANGED <<orderVars, stockVars>>
  BY DEF Typed, Claim, Count, Kill
<1>1. CASE Finish(r)
  BY <1>0, <1>1, FinishForms
<1>2. ASSUME req[r].pc \in {"claim", "count"}, NEW note, req' = [req EXCEPT ![r] = note],
             note.take = req[r].take, note.order = req[r].order, note.pc \in {"count", "commit"}
      PROVE  FormsFit'
  <2>1. /\ \A p \in Parts : \A l, m \in LinesFor(note.take, p) : l = m
        /\ \A o \in note.order, l \in Lines : note.take[l] > 0 => OrderOf[l] = o
    BY <1>2 DEF FormsFit
  <2> QED BY <1>2, <2>1, FormsKept
<1>3. CASE Claim(r) /\ ~Finish(r)
  <2> DEFINE note == [req[r] EXCEPT !.pc = "count", !.parts = part]
  <2>1. req' = [req EXCEPT ![r] = note] /\ req[r].pc = "claim"
    BY <1>3 DEF Claim
  <2>2. note.take = req[r].take /\ note.order = req[r].order /\ note.pc = "count"
    BY <1>0 DEF ReqRows
  <2> HIDE DEF note
  <2> QED BY <1>0, <1>2, <2>1, <2>2
<1>4. CASE Count(r)
  <2>1. PICK o \in req[r].order : req' = [req EXCEPT ![r].pc = "commit", ![r].full = AllFull(r, o)]
    BY <1>4 DEF Count
  <2> DEFINE note == [req[r] EXCEPT !.pc = "commit", !.full = AllFull(r, o)]
  <2>2. req' = [req EXCEPT ![r] = note] /\ req[r].pc = "count"
    BY <1>4, <2>1 DEF Count
  <2>3. note.take = req[r].take /\ note.order = req[r].order /\ note.pc = "commit"
    BY <1>0 DEF ReqRows
  <2> HIDE DEF note
  <2> QED BY <1>0, <1>2, <2>2, <2>3
<1> QED BY <1>0, <1>1, <1>3, <1>4 DEF Claim, Kill

\* Steps that leave the orders, and what they brought to stock, alone.
LEMMA QuietOrders ==
    ASSUME Typed, ReceiptsLand, StatusFitsLines, UNCHANGED <<po, line, fitted>>,
           \A p \in Parts : moved'[p].orders = moved[p].orders,
           \A o \in Orders : \A what \in {"status", "lines", "receipts"} :
              <<what, o>> \in overtaken => <<what, o>> \in overtaken'
    PROVE  ReceiptsLand' /\ StatusFitsLines'
<1>1. \A o \in Orders : LinesOf(o)' = LinesOf(o) /\ Orderable(o)' = Orderable(o)
  BY DEF LinesOf, Orderable
<1>2. StatusFitsLines'
  BY <1>1 DEF StatusFitsLines
<1> QED BY <1>2, LandKept

LEMMA StatusWriteOrder ==
    ASSUME Inv, OrderInv, NEW r \in Requests, StatusWrite(r)
    PROVE  OrderInv'
<1> PICK o \in req[r].order : StatusWrite(r)!(o)
  BY DEF StatusWrite
<1>0. /\ Typed /\ o \in Orders /\ po \in [Orders -> OrderRows] /\ FormsFit /\ StatusFitsLines
      /\ UNCHANGED <<line, fitted, moved>>
  BY DEF Inv, Typed, ReqRows, OrderInv, stockVars
<1>1. FormsFit'
  BY <1>0, FinishForms
<1>2. ReceiptsLand'
  BY <1>0, LandKept DEF OrderInv
<1>3. \A x \in Orders : LinesOf(x)' = LinesOf(x) /\ Orderable(x)' = Orderable(x)
  BY <1>0 DEF LinesOf, Orderable
<1>4. StatusFitsLines'
  <2> SUFFICES ASSUME NEW x \in Orders,
                      \A what \in {"status", "lines", "receipts"} : <<what, x>> \notin overtaken'
               PROVE  /\ po'[x].status \in {"DRAFT", "ORDERED", "CANCELLED"}
                            => \A l \in LinesOf(x) : line[l].recd = 0
                      /\ po'[x].status \in {"ORDERED", "PARTIALLY_RECEIVED", "RECEIVED"}
                            => Orderable(x)
                      /\ po'[x].status = "RECEIVED"
                            => \A l \in LinesOf(x) : line[l].recd = line[l].qty
                      /\ po'[x].status = "PARTIALLY_RECEIVED"
                            => \E l \in LinesOf(x) : line[l].recd < line[l].qty
    BY <1>0, <1>3 DEF StatusFitsLines
  <2>1. \A what \in {"status", "lines", "receipts"} : <<what, x>> \notin overtaken
    OBVIOUS
  <2>2. CASE x # o
    <3>1. po'[x] = po[x]
      BY <1>0, <2>2
    <3> QED BY <1>0, <2>1, <3>1 DEF StatusFitsLines
  <2>3. CASE x = o
    <3>1. po[o].status = req[r].status /\ (req[r].next = "ORDERED" => Orderable(o))
      BY <2>3
    <3>2. po'[o].status = req[r].next
      BY <1>0 DEF OrderRows
    <3>3. \/ req[r].next = "ORDERED" /\ req[r].status = "DRAFT"
          \/ req[r].next = "CANCELLED" /\ req[r].status \in {"DRAFT", "ORDERED"}
      BY <1>0 DEF FormsFit
    <3>4. \A l \in LinesOf(x) : line[l].recd = 0
      BY <1>0, <2>1, <2>3, <3>1, <3>3 DEF StatusFitsLines
    <3> QED BY <2>3, <3>1, <3>2, <3>3, <3>4
  <2> QED BY <2>2, <2>3
<1> QED BY <1>1, <1>2, <1>4 DEF OrderInv

LEMMA EditWriteOrder ==
    ASSUME Inv, OrderInv, NEW r \in Requests, EditWrite(r), Inv'
    PROVE  OrderInv'
<1> PICK l \in req[r].line : EditWrite(r)!(l)
  BY DEF EditWrite
<1>0. /\ Typed /\ l \in Lines /\ line \in [Lines -> LineRows] /\ line[l] \in LineRows
      /\ fitted \in [Lines -> Nat] /\ req[r].put \in LineRows /\ ReceiptsLand /\ StatusFitsLines
      /\ FormsFit /\ UNCHANGED <<po, moved>> /\ OrderOf[l] \in Orders
  BY PurchasingAssumption DEF Inv, Typed, ReqRows, OrderInv, stockVars
<1>1. FormsFit'
  BY <1>0, FinishForms
<1>2. CASE ~Lands(r, l)
  BY <1>0, <1>1, <1>2, QuietOrders DEF OrderInv
<1>3. CASE Lands(r, l)
  <2>1. /\ line' = [line EXCEPT ![l] = Edited(r, l)]
        /\ fitted' = IF req[r].pc = "remove" THEN [fitted EXCEPT ![l] = 0] ELSE fitted
        /\ \A x : <<"lines", x>> \in overtaken => <<"lines", x>> \in overtaken'
        /\ \A what \in {"status", "receipts"}, x \in Orders :
              <<what, x>> \in overtaken => <<what, x>> \in overtaken'
        /\ <<"lines", OrderOf[l]>> \notin overtaken' => po[OrderOf[l]].status = "DRAFT"
    BY <1>3
  <2>2. line'[l] = Edited(r, l) /\ \A m \in Lines \ {l} : line'[m] = line[m]
    BY <1>0, <2>1
  <2>3. po[OrderOf[l]].status = "DRAFT" => line[l].recd = 0 /\ line[l].retd = 0
    BY <1>0 DEF Inv, DraftsUntouched
  <2>4. ReceiptsLand'
    <3> SUFFICES ASSUME \A x \in Orders : <<"lines", x>> \notin overtaken'
                 PROVE  /\ \A m \in Lines :
                              /\ line'[m].recd = line[m].recd /\ line'[m].retd = line[m].retd
                              /\ DestinationOf[m] = Direct => fitted'[m] = fitted[m]
                        /\ \A p \in Parts : moved'[p].orders = moved[p].orders
      BY <1>0, <2>1, LandKept
    <3>1. po[OrderOf[l]].status = "DRAFT"
      BY <1>0, <2>1
    <3>2. line'[l].recd = line[l].recd /\ line'[l].retd = line[l].retd
      BY <1>0, <2>2, <2>3, <3>1, EditedFacts
    <3>3. DestinationOf[l] = Direct => fitted[l] = 0
      <4>1. \A x \in Orders : <<"lines", x>> \notin overtaken
        BY <2>1
      <4> QED BY <1>0, <2>3, <3>1, <4>1 DEF ReceiptsLand
    <3>4. \A m \in Lines : DestinationOf[m] = Direct => fitted'[m] = fitted[m]
      BY <1>0, <2>1, <3>3
    <3> QED BY <1>0, <2>2, <3>2, <3>4
  <2>5. StatusFitsLines'
    <3>1. ASSUME NEW x \in Orders,
                 \A what \in {"status", "lines", "receipts"} : <<what, x>> \notin overtaken',
                 x = OrderOf[l]
          PROVE  po'[x].status = "DRAFT" /\ \A m \in LinesOf(x)' : line'[m].recd = 0
      <4>1. po'[x].status = "DRAFT"
        BY <1>0, <2>1, <3>1
      <4>2. \A m \in Lines : OrderOf[m] = x => line'[m].recd = 0
        BY <4>1 DEF Inv, DraftsUntouched
      <4> QED BY <4>1, <4>2 DEF LinesOf
    <3>2. ASSUME NEW x \in Orders, x # OrderOf[l]
          PROVE  /\ LinesOf(x)' = LinesOf(x) /\ Orderable(x)' = Orderable(x)
                 /\ \A m \in LinesOf(x) : line'[m] = line[m]
      <4>1. \A m \in Lines : OrderOf[m] = x => line'[m] = line[m]
        BY <2>2, <3>2
      <4>2. LinesOf(x)' = LinesOf(x)
        BY <4>1 DEF LinesOf
      <4> QED BY <4>1, <4>2 DEF LinesOf, Orderable
    <3> SUFFICES ASSUME NEW x \in Orders,
                        \A what \in {"status", "lines", "receipts"} : <<what, x>> \notin overtaken'
                 PROVE  /\ po'[x].status \in {"DRAFT", "ORDERED", "CANCELLED"}
                              => \A m \in LinesOf(x)' : line'[m].recd = 0
                        /\ po'[x].status \in {"ORDERED", "PARTIALLY_RECEIVED", "RECEIVED"}
                              => Orderable(x)'
                        /\ po'[x].status = "RECEIVED"
                              => \A m \in LinesOf(x)' : line'[m].recd = line'[m].qty
                        /\ po'[x].status = "PARTIALLY_RECEIVED"
                              => \E m \in LinesOf(x)' : line'[m].recd < line'[m].qty
      BY DEF StatusFitsLines
    <3>3. CASE x = OrderOf[l]
      BY <3>1, <3>3
    <3>4. CASE x # OrderOf[l]
      <4>1. \A what \in {"status", "lines", "receipts"} : <<what, x>> \notin overtaken
        BY <2>1
      <4>2. po' = po
        BY <1>0
      <4> QED BY <1>0, <3>2, <3>4, <4>1, <4>2 DEF StatusFitsLines
    <3> QED BY <3>3, <3>4
  <2> QED BY <1>1, <2>4, <2>5 DEF OrderInv
<1> QED BY <1>2, <1>3

LEMMA CommitOrder ==
    ASSUME Inv, OrderInv, NEW r \in Requests, Commit(r), Inv'
    PROVE  OrderInv'
<1> PICK o \in req[r].order : Commit(r)!(o)
  BY DEF Commit
<1> DEFINE take == req[r].take
<1>0. /\ Typed /\ o \in Orders /\ po \in [Orders -> OrderRows] /\ line \in [Lines -> LineRows]
      /\ take \in [Lines -> Nat] /\ fitted \in [Lines -> Nat] /\ moved \in [Parts -> MoveRows]
      /\ ReceiptsLand /\ StatusFitsLines /\ FormsFit /\ LinesWithinBounds'
      /\ \A l \in Lines : OrderOf[l] \in Orders
  BY PurchasingAssumption DEF Inv, Typed, ReqRows, OrderInv
<1>1. FormsFit'
  BY <1>0, FinishForms
<1>2. /\ \A l \in Lines :
            /\ line'[l].live = line[l].live /\ line'[l].qty = line[l].qty
            /\ line'[l].priced = line[l].priced
            /\ line'[l].recd = line[l].recd + take[l] /\ line'[l].retd = line[l].retd
      /\ \A l \in Lines : /\ take[l] \in Nat /\ line[l].recd \in Nat /\ line[l].retd \in Nat
                          /\ line[l].qty \in Nat
  <2>1. line' = LinesReceived(take)
    OBVIOUS
  <2>2. \A l \in Lines : line[l] \in LineRows
    BY <1>0
  <2>3. \A l \in Lines : line'[l].priced = line[l].priced
    BY <2>1, <2>2 DEF LinesReceived, LineRows
  <2> QED BY <1>0, <2>1, <2>2, <2>3, LinesReceivedFacts DEF LineRows
<1>3. \A l \in Lines : take[l] > 0 => OrderOf[l] = o
  BY <1>0 DEF FormsFit
<1>4. \A what \in {"status", "lines", "receipts"}, x \in Orders :
         <<what, x>> \in overtaken => <<what, x>> \in overtaken'
  OBVIOUS
<1>5. ReceiptsLand'
  <2> SUFFICES ASSUME \A x \in Orders : <<"lines", x>> \notin overtaken'
               PROVE  /\ \A p \in Parts : moved'[p].orders = SumFunctionOnSet(Kept', Into(p))
                      /\ \A l \in Lines : DestinationOf[l] = Direct => fitted'[l] = line'[l].recd
    BY DEF ReceiptsLand, Kept, Into
  <2>1. /\ \A p \in Parts : moved[p].orders = SumFunctionOnSet(Kept, Into(p))
        /\ \A l \in Lines : DestinationOf[l] = Direct => fitted[l] = line[l].recd
    BY <1>0, <1>4, LandedFacts
  <2>2. \A l \in Lines : Kept[l] \in Int /\ Kept'[l] = Kept[l] + take[l]
    BY <1>2 DEF Kept
  <2>3. ASSUME NEW p \in Parts PROVE moved'[p].orders = SumFunctionOnSet(Kept', Into(p))
    <3>1. \A l, m \in LinesFor(take, p) : l = m
      BY <1>0 DEF FormsFit
    <3> DEFINE f == Kept
    <3> DEFINE g == Kept'
    <3>2. SumFunctionOnSet(g, Into(p)) = SumFunctionOnSet(f, Into(p)) + Gain(take, p)
      <4>1. \A l \in Lines : f[l] \in Int /\ g[l] = f[l] + take[l]
        BY <2>2
      <4> HIDE DEF f, g, take
      <4> QED BY <1>0, <3>1, <4>1, GainIsTheSum
    <3>3. moved'[p].orders = moved[p].orders + Gain(take, p)
      <4>1. moved' = ReceivedMoves(take)
        OBVIOUS
      <4>2. moved[p] \in MoveRows
        BY <1>0
      <4> QED BY <4>1, <4>2 DEF ReceivedMoves, MoveRows
    <3> QED BY <2>1, <3>2, <3>3
  <2>4. \A l \in Lines : DestinationOf[l] = Direct => fitted'[l] = line'[l].recd
    BY <1>0, <1>2, <2>1
  <2> QED BY <2>3, <2>4
<1>6. ASSUME NEW x \in Orders
      PROVE  LinesOf(x)' = LinesOf(x) /\ Orderable(x)' = Orderable(x)
  <2>1. LinesOf(x)' = LinesOf(x)
    BY <1>2 DEF LinesOf
  <2> QED BY <1>2, <2>1 DEF LinesOf, Orderable
<1>7. StatusFitsLines'
  <2> SUFFICES ASSUME NEW x \in Orders,
                      \A what \in {"status", "lines", "receipts"} : <<what, x>> \notin overtaken'
               PROVE  /\ po'[x].status \in {"DRAFT", "ORDERED", "CANCELLED"}
                            => \A m \in LinesOf(x) : line'[m].recd = 0
                      /\ po'[x].status \in {"ORDERED", "PARTIALLY_RECEIVED", "RECEIVED"}
                            => Orderable(x)
                      /\ po'[x].status = "RECEIVED"
                            => \A m \in LinesOf(x) : line'[m].recd = line'[m].qty
                      /\ po'[x].status = "PARTIALLY_RECEIVED"
                            => \E m \in LinesOf(x) : line'[m].recd < line'[m].qty
    BY <1>6 DEF StatusFitsLines
  <2>1. \A what \in {"status", "lines", "receipts"} : <<what, x>> \notin overtaken
    BY <1>4
  <2>2. CASE x # o
    <3>1. po'[x] = po[x]
      BY <1>0, <2>2
    <3>2. \A m \in LinesOf(x) : line'[m].recd = line[m].recd /\ line'[m].qty = line[m].qty
      <4> TAKE m \in LinesOf(x)
      <4>1. m \in Lines /\ OrderOf[m] = x
        BY DEF LinesOf
      <4>2. ~(take[m] > 0)
        BY <1>3, <2>2, <4>1
      <4> QED BY <1>2, <4>1, <4>2
    <3> QED BY <1>0, <2>1, <3>1, <3>2 DEF StatusFitsLines
  <2>3. CASE x = o
    <3>1. po[o].status \in {"ORDERED", "PARTIALLY_RECEIVED"}
      BY <2>3 DEF ReceivedBlindly
    <3>2. req[r].full = AllFull(r, o)
      BY <2>3 DEF ReceivedBlindly
    <3>3. po'[o].status = IF AllFull(r, o) THEN "RECEIVED" ELSE "PARTIALLY_RECEIVED"
      BY <1>0, <3>2 DEF OrderRows, StatusAfter
    <3>4. Orderable(o)
      BY <1>0, <2>1, <2>3, <3>1 DEF StatusFitsLines
    <3>5. AllFull(r, o) = \A m \in LinesOf(o) : line'[m].recd >= line'[m].qty
      <4>1. LinesOf(o) \subseteq Lines
        BY DEF LinesOf
      <4> QED BY <1>2, <4>1 DEF AllFull
    <3>6. \A m \in LinesOf(o) : /\ line'[m].recd <= line'[m].qty
                                /\ line'[m].recd \in Nat /\ line'[m].qty \in Nat
      BY <1>0, <1>2, <2>3 DEF LinesWithinBounds, LinesOf
    <3> QED BY <2>3, <3>3, <3>4, <3>5, <3>6
  <2> QED BY <2>2, <2>3
<1> QED BY <1>1, <1>5, <1>7 DEF OrderInv

LEMMA ReturnWriteOrder ==
    ASSUME Inv, OrderInv, NEW r \in Requests, ReturnWrite(r)
    PROVE  OrderInv'
<1> DEFINE take == req[r].take
<1>0. /\ Typed /\ line \in [Lines -> LineRows] /\ take \in [Lines -> Nat]
      /\ moved \in [Parts -> MoveRows] /\ Finish(r) /\ UNCHANGED <<po, fitted, overtaken>>
      /\ ReceiptsLand /\ StatusFitsLines /\ FormsFit
  BY DEF Inv, Typed, ReqRows, ReturnWrite, OrderInv
<1>1. FormsFit'
  BY <1>0, FinishForms
<1>2. CASE ~(\A l \in Taken(take) : Returnable(r, l))
  <2>1. UNCHANGED <<line, moved>>
    BY <1>2 DEF ReturnWrite
  <2> QED BY <1>0, <1>1, <2>1, QuietOrders DEF OrderInv
<1>3. CASE \A l \in Taken(take) : Returnable(r, l)
  <2>1. /\ line' = LinesReturned(take)
        /\ moved' = [p \in Parts |-> [moved[p] EXCEPT !.orders = @ - Gain(take, p)]]
    BY <1>3 DEF ReturnWrite
  <2>2. /\ \A l \in Lines :
              /\ line'[l].live = line[l].live /\ line'[l].qty = line[l].qty
              /\ line'[l].priced = line[l].priced
              /\ line'[l].recd = line[l].recd /\ line'[l].retd = line[l].retd + take[l]
        /\ \A l \in Lines : take[l] \in Nat /\ line[l].recd \in Nat /\ line[l].retd \in Nat
    <3>1. \A l \in Lines : line[l] \in LineRows
      BY <1>0
    <3>2. \A l \in Lines : line'[l].priced = line[l].priced
      BY <2>1, <3>1 DEF LinesReturned, LineRows
    <3> QED BY <1>0, <2>1, <3>1, <3>2, LinesReturnedFacts DEF LineRows
  <2>3. ReceiptsLand'
    <3> SUFFICES ASSUME \A x \in Orders : <<"lines", x>> \notin overtaken'
                 PROVE  /\ \A p \in Parts : moved'[p].orders = SumFunctionOnSet(Kept', Into(p))
                        /\ \A l \in Lines : DestinationOf[l] = Direct => fitted'[l] = line'[l].recd
      BY DEF ReceiptsLand, Kept, Into
    <3>1. /\ \A p \in Parts : moved[p].orders = SumFunctionOnSet(Kept, Into(p))
          /\ \A l \in Lines : DestinationOf[l] = Direct => fitted[l] = line[l].recd
      BY <1>0, LandedFacts
    <3>2. \A l \in Lines : Kept'[l] \in Int /\ Kept[l] = Kept'[l] + take[l] /\ Kept[l] \in Int
      BY <2>2 DEF Kept
    <3>3. ASSUME NEW p \in Parts PROVE moved'[p].orders = SumFunctionOnSet(Kept', Into(p))
      <4>1. \A l, m \in LinesFor(take, p) : l = m
        BY <1>0 DEF FormsFit
      <4> DEFINE f == Kept'
      <4> DEFINE g == Kept
      <4>2. /\ SumFunctionOnSet(g, Into(p)) = SumFunctionOnSet(f, Into(p)) + Gain(take, p)
            /\ SumFunctionOnSet(f, Into(p)) \in Int
        <5>1. \A l \in Lines : f[l] \in Int /\ g[l] = f[l] + take[l]
          BY <3>2
        <5>2. IsFiniteSet(Into(p)) /\ \A l \in Into(p) : f[l] \in Int
          BY <3>2, IntoFinite DEF Into
        <5> HIDE DEF f, g, take
        <5> QED BY <1>0, <4>1, <5>1, <5>2, GainIsTheSum, SumIsInt
      <4>3. moved'[p].orders = moved[p].orders - Gain(take, p)
        <5>1. moved[p] \in MoveRows
          BY <1>0
        <5> QED BY <2>1, <5>1 DEF MoveRows
      <4>4. Gain(take, p) \in Nat
        BY <1>0, GainFacts
      <4> QED BY <3>1, <4>2, <4>3, <4>4
    <3>4. \A l \in Lines : DestinationOf[l] = Direct => fitted'[l] = line'[l].recd
      BY <1>0, <2>2, <3>1
    <3> QED BY <3>3, <3>4
  <2>4. ASSUME NEW x \in Orders
        PROVE  /\ LinesOf(x)' = LinesOf(x) /\ Orderable(x)' = Orderable(x)
               /\ \A m \in LinesOf(x) : line'[m].recd = line[m].recd /\ line'[m].qty = line[m].qty
    <3>1. LinesOf(x)' = LinesOf(x)
      BY <2>2 DEF LinesOf
    <3> QED BY <2>2, <3>1 DEF LinesOf, Orderable
  <2>5. StatusFitsLines'
    <3>1. po' = po /\ overtaken' = overtaken
      BY <1>0
    <3> QED BY <1>0, <2>4, <3>1 DEF StatusFitsLines
  <2> QED BY <1>1, <2>3, <2>5 DEF OrderInv
<1> QED BY <1>2, <1>3

\* Stock that moves otherwise.
LEMMA StockOrder ==
    ASSUME Inv, OrderInv, \/ \E r \in Requests : AdjustWrite(r)
                          \/ \E p \in Parts : StockStep(p)
    PROVE  OrderInv'
<1>0. /\ Typed /\ moved \in [Parts -> MoveRows] /\ ReceiptsLand /\ StatusFitsLines /\ FormsFit
  BY DEF Inv, Typed, OrderInv
<1>1. ASSUME NEW p \in Parts, NEW n, moved' = [moved EXCEPT ![p].other = n]
      PROVE  \A q \in Parts : moved'[q].orders = moved[q].orders
  BY <1>0, <1>1 DEF MoveRows
<1>2. ASSUME NEW r \in Requests, AdjustWrite(r) PROVE OrderInv'
  <2>1. PICK p \in req[r].part : AdjustWrite(r)!(p)
    BY <1>2 DEF AdjustWrite
  <2>2. p \in Parts
    BY <1>0 DEF Typed, ReqRows
  <2>3. \A q \in Parts : moved'[q].orders = moved[q].orders
    BY <1>1, <2>1, <2>2
  <2>4. ReceiptsLand' /\ StatusFitsLines'
    BY <1>0, <2>1, <2>3, QuietOrders
  <2>5. FormsFit'
    BY <1>0, <2>1, FinishForms
  <2> QED BY <2>4, <2>5 DEF OrderInv
<1>3. ASSUME NEW p \in Parts, StockStep(p) PROVE OrderInv'
  <2>1. UNCHANGED <<orderVars, req>>
    BY <1>3 DEF StockStep, Reprice, Use
  <2>2. \A q \in Parts : moved'[q].orders = moved[q].orders
    BY <1>1, <1>3 DEF StockStep, Reprice, Use
  <2>3. ReceiptsLand' /\ StatusFitsLines'
    BY <1>0, <2>1, <2>2, QuietOrders DEF orderVars
  <2>4. FormsFit'
    BY <1>0, <2>1 DEF FormsFit
  <2> QED BY <2>3, <2>4 DEF OrderInv
<1> QED BY <1>2, <1>3

LEMMA StepOrderInv ==
    ASSUME Inv, OrderInv, [Next]_vars, Inv'
    PROVE  OrderInv'
<1>1. ASSUME UNCHANGED <<orderVars, stockVars>>, FormsFit' PROVE OrderInv'
  BY <1>1, QuietOrders DEF OrderInv, Inv, orderVars, stockVars
<1>2. ASSUME UNCHANGED <<orderVars, stockVars, req>> PROVE OrderInv'
  BY <1>1, <1>2 DEF OrderInv, FormsFit
<1>3. ASSUME NEW r \in Requests, OrderStep(r) PROVE OrderInv'
  <2>1. CASE Claim(r) \/ Count(r) \/ Kill(r)
    BY <1>1, <2>1, ClaimForms DEF Inv, OrderInv
  <2>2. CASE EditWrite(r) \/ StatusWrite(r) \/ Commit(r) \/ ReturnWrite(r) \/ AdjustWrite(r)
    BY <2>2, EditWriteOrder, StatusWriteOrder, CommitOrder, ReturnWriteOrder, StockOrder
  <2>3. CASE \/ \E l \in Lines, what \in {"add", "edit", "remove"}, put \in NewLines :
                   EditRead(r, l, what, put)
             \/ \E o \in Orders, next \in {"ORDERED", "CANCELLED"} : StatusRead(r, o, next)
             \/ \E o \in Orders : \E take \in Forms(o) :
                   ReceiveRead(r, o, take) \/ ReturnRead(r, o, take)
             \/ \E p \in Parts, qty \in 0..MaxQty : AdjustRead(r, p, qty)
    BY <1>1, <2>3, ReadForms DEF Inv, OrderInv
  <2> QED BY <1>3, <2>1, <2>2, <2>3 DEF OrderStep
<1>4. ASSUME NEW p \in Parts, StockStep(p) PROVE OrderInv'
  BY <1>4, StockOrder
<1>5. CASE UNCHANGED vars
  BY <1>2, <1>5 DEF vars, orderVars, stockVars
<1> QED BY <1>2, <1>3, <1>4, <1>5 DEF Next

(***************************************************************************)
(* The cost of a part.                                                     *)
(***************************************************************************)

\* A receipt that saw the part as it is blends, and replaces only what was empty.
LEMMA CommitCost ==
    ASSUME NEW r \in Requests, Commit(r), NEW p \in Parts, Gain(req[r].take, p) \in Nat
    PROVE  \/ part[p].qty <= 0 \/ part[p].cost \subseteq part'[p].cost
           \/ <<"blend", p>> \in overtaken'
<1> PICK o \in req[r].order : Commit(r)!(o)
  BY DEF Commit
<1>1. part'[p] = Received(r, p) /\ overtaken' = overtaken \union ReceivedBlindly(r, o)
  OBVIOUS
<1>2. CASE Gain(req[r].take, p) = 0
  BY <1>1, <1>2 DEF Received
<1>3. CASE Gain(req[r].take, p) # 0 /\ req[r].parts[p] = part[p]
  <2>1. part'[p].cost = Blended(r, p)
    BY <1>1, <1>3 DEF Received
  <2> QED BY <1>3, <2>1 DEF Blended
<1>4. CASE Gain(req[r].take, p) > 0 /\ req[r].parts[p] # part[p]
  BY <1>1, <1>4 DEF ReceivedBlindly
<1> QED BY <1>2, <1>3, <1>4

LEMMA CostKept ==
    ASSUME Inv, [Next]_vars, NEW p \in Parts
    PROVE  \/ part[p].qty <= 0 \/ part'[p].cost = {} \/ part[p].cost \subseteq part'[p].cost
           \/ <<"blend", p>> \in overtaken'
<1> DEFINE Goal == \/ part[p].qty <= 0 \/ part'[p].cost = {}
                   \/ part[p].cost \subseteq part'[p].cost \/ <<"blend", p>> \in overtaken'
<1>0. part \in [Parts -> PartRows] /\ part[p] \in PartRows
  BY DEF Inv, Typed
<1>1. ASSUME UNCHANGED part PROVE Goal
  BY <1>1
<1>2. ASSUME NEW n, NEW q \in Parts, part' = [part EXCEPT ![q].qty = n] PROVE Goal
  <2>1. part'[p].cost = part[p].cost
    BY <1>0, <1>2 DEF PartRows
  <2> QED BY <2>1
<1>3. ASSUME NEW r \in Requests, OrderStep(r) PROVE Goal
  <2>1. CASE Claim(r) \/ Count(r) \/ Kill(r) \/ EditWrite(r) \/ StatusWrite(r)
    BY <1>1, <2>1 DEF Claim, Count, Kill, EditWrite, StatusWrite, stockVars
  <2>2. CASE Commit(r)
    <3>1. Gain(req[r].take, p) \in Nat
      BY GainFacts DEF Inv, Typed, ReqRows
    <3> QED BY <2>2, <3>1, CommitCost
  <2>3. CASE ReturnWrite(r)
    <3>1. CASE part' = [q \in Parts |-> [part[q] EXCEPT !.qty = @ - Gain(req[r].take, q)]]
      <4>1. part'[p].cost = part[p].cost
        BY <1>0, <3>1 DEF PartRows
      <4> QED BY <4>1
    <3> QED BY <1>1, <2>3, <3>1 DEF ReturnWrite
  <2>4. CASE AdjustWrite(r)
    <3>1. PICK q \in req[r].part : AdjustWrite(r)!(q)
      BY <2>4 DEF AdjustWrite
    <3>2. q \in Parts
      BY DEF Inv, Typed, ReqRows
    <3> QED BY <1>2, <3>1, <3>2
  <2>5. CASE \/ \E l \in Lines, what \in {"add", "edit", "remove"}, put \in NewLines :
                   EditRead(r, l, what, put)
             \/ \E o \in Orders, next \in {"ORDERED", "CANCELLED"} : StatusRead(r, o, next)
             \/ \E o \in Orders : \E take \in Forms(o) :
                   ReceiveRead(r, o, take) \/ ReturnRead(r, o, take)
             \/ \E q \in Parts, qty \in 0..MaxQty : AdjustRead(r, q, qty)
    BY <1>1, <2>5 DEF EditRead, StatusRead, ReceiveRead, ReturnRead, AdjustRead, stockVars
  <2> QED BY <1>3, <2>1, <2>2, <2>3, <2>4, <2>5 DEF OrderStep
<1>4. ASSUME NEW q \in Parts, StockStep(q) PROVE Goal
  <2>1. CASE Reprice(q)
    <3>1. part' = [part EXCEPT ![q].cost = {}]
      BY <2>1 DEF Reprice
    <3>2. part'[p].cost = {} \/ part'[p].cost = part[p].cost
      BY <1>0, <3>1 DEF PartRows
    <3> QED BY <3>2
  <2>2. ASSUME NEW n \in {1, -1}, Use(q, n) PROVE Goal
    <3>1. part' = [part EXCEPT ![q].qty = part[q].qty + n]
      BY <2>2 DEF Use
    <3> QED BY <1>2, <3>1
  <2> QED BY <1>4, <2>1, <2>2 DEF StockStep
<1>5. CASE UNCHANGED vars
  BY <1>1, <1>5 DEF vars
<1>6. CASE UNCHANGED <<orderVars, stockVars, req>>
  BY <1>1, <1>6 DEF stockVars
<1> QED BY <1>3, <1>4, <1>5, <1>6 DEF Next

(***************************************************************************)
(* Theorems.                                                               *)
(***************************************************************************)

\* Orders, stock and payables keep their invariants together, for any number of
\* orders, parts and requests.
THEOREM Invariance == Spec => [](Inv /\ PayInv)
<1>1. Init => Inv /\ PayInv
  BY InitInv, PayInitInv DEF Init
<1>2. Inv /\ PayInv /\ [Next]_vars => (Inv /\ PayInv)'
  <2> SUFFICES ASSUME Inv, PayInv, [Next]_vars PROVE Inv' /\ PayInv'
    OBVIOUS
  <2>1. ASSUME UNCHANGED payVars PROVE PayInv'
    BY <2>1 DEF PayInv, payVars, PayTypeOK, Unborn, BillFitsPayments, BooksMatchDocuments
  <2> QED BY <2>1, StepInv, PayablesStep, PayStepInv
<1> QED BY <1>1, <1>2, PTL DEF Spec

\* Types, and with them "qtyOnHand can never go below zero" (parts.ts).
THEOREM TypeCorrect == Spec => []TypeOK
BY Invariance, TypedImpliesTypeOK, PTL DEF Inv

\* Every unit of stock has a movement behind it (inventory.ts).
THEOREM StockIsAccountedFor == Spec => []StockAccountedFor
BY Invariance, PTL DEF Inv

\* "Never receive more than outstanding" (purchasing.ts), nor return more than came.
THEOREM LinesStayWithinBounds == Spec => []LinesWithinBounds
BY Invariance, PTL DEF Inv

\* What an order's status says is what its lines received, and every unit received is
\* on a shelf's movements or on a job, once (purchasing.ts), unless a write was
\* overtaken.
THEOREM OrdersTellReceipts == Spec => []OrderTellsReceipts
<1>1. Init => Inv /\ OrderInv
  BY InitInv, InitOrderInv
<1>2. Inv /\ OrderInv /\ [Next]_vars => Inv' /\ OrderInv'
  BY StepInv, StepOrderInv
<1>3. Inv /\ OrderInv => OrderTellsReceipts
  BY DEF Inv, OrderInv, OrderTellsReceipts
<1> QED BY <1>1, <1>2, <1>3, PTL DEF Spec

\* A receipt drops out of a part's cost only if the part ran out, the owner set the
\* cost, or two receipts did not see each other.
THEOREM CostsKeepTheirReceipts == Spec => CostKeepsItsReceipts
<1>1. Inv /\ [Next]_vars
         => [\A p \in Parts :
               \/ part[p].qty <= 0 \/ part'[p].cost = {} \/ part[p].cost \subseteq part'[p].cost
               \/ <<"blend", p>> \in overtaken']_vars
  BY CostKept
<1> QED BY <1>1, Invariance, PTL DEF Spec, CostKeepsItsReceipts

\* No bill is paid above its total, and its status says what is paid.
THEOREM BillsFitTheirPayments == Spec => []BillFitsPayments
BY Invariance, PTL DEF PayInv

\* The ledger owes what the bills have left and has paid the expenses that stand.
THEOREM BooksMatch == Spec => []BooksMatchDocuments
BY Invariance, PTL DEF PayInv
=============================================================================
