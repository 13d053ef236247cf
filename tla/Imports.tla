------------------------------- MODULE Imports ------------------------------
(***************************************************************************)
(* Import of customers, suppliers, parts and opening balances from files   *)
(* (src/app/actions/import.ts): a preview stores the parsed rows as a DRAFT*)
(* batch, which the owner commits or discards.                             *)
(*                                                                         *)
(* A commit reads the batch, loads the tables it matches rows against,     *)
(* writes row by row, each in a transaction of its own, then sets the      *)
(* status and last writes the list of refused rows; it may be killed       *)
(* between any two.  Parsing and the counts of the preview are left out: a *)
(* row is the values it is matched by.                                     *)
(***************************************************************************)
EXTENDS Naturals, Sequences, FiniteSets

CONSTANTS
    Batches,
    Customers,      \* rows of Customer
    Names,          \* names, and the SKUs of items, trimmed and in lower case
    Phones,         \* phones as written
    Dialled,        \* Dialled[n]: what normalizeUaePhone makes of phone n
    Runs,           \* commits and discards under way at once
    None,
    Scenarios       \* files, customers on file, and how many requests of each sort

Kinds == {"CUSTOMER", "VENDOR", "ITEM", "OPENING_BALANCE"}
Sorts == {"preview", "commit", "discard", "kill", "edit"}
CustomerRows == [name: Names, phone: Phones] \union {None}

ASSUME ImportsAssumption ==
    /\ None \notin Batches \union [name: Names, phone: Phones]
    /\ Phones = DOMAIN Dialled /\ IsFiniteSet(Customers)
    /\ Scenarios \subseteq [file: [Batches -> [kind: Kinds, rows: Seq([name: Names, phone: Phones])]],
                            customer: [Customers -> CustomerRows], budget: [Sorts -> Nat]]
    /\ \A s \in Scenarios, c, d \in Customers :
          s.customer[c] = None \/ c = d \/ s.customer[d] = None
              \/ s.customer[c].phone # s.customer[d].phone

VARIABLES
    batch,      \* LedgerImportBatch: kind, rows, status and, in errors, the rows of
                \* its LedgerImportError rows
    customer,   \* Customer, unique in its phone as written
    suppliers,  \* suppliers[n]: Supplier rows named n; nothing makes names unique
    parts,      \* SKUs of Part, unique
    balance,    \* balance[c]: <<batch, row>> of its OPENING_BALANCE entries
    run,        \* a request's locals
    budget,
    slips       \* "overlap": two commits that load the same table at once;
                \* "killed": a commit killed before its refusals; "edited": a customer

tables == <<customer, suppliers, parts, balance>>
vars == <<batch, tables, run, budget, slips>>

-----------------------------------------------------------------------------

Idle == [pc |-> "idle"]
Live == {c \in Customers : customer[c] # None}
Spend(s) == budget[s] > 0 /\ budget' = [budget EXCEPT ![s] = @ - 1]

Init ==
    /\ \E s \in Scenarios :
          /\ batch = [b \in Batches |-> [kind |-> s.file[b].kind, rows |-> s.file[b].rows,
                                         status |-> "none", errors |-> {}]]
          /\ customer = s.customer /\ budget = s.budget
    /\ suppliers = [n \in Names |-> 0]
    /\ parts = {}
    /\ balance = [c \in Customers |-> {}]
    /\ run = [r \in Runs |-> Idle]
    /\ slips = {}

\* preview...ImportAction: the parsed rows are stored, nothing else is written.
Preview(b) ==
    /\ batch[b].status = "none"
    /\ Spend("preview")
    /\ batch' = [batch EXCEPT ![b].status = "DRAFT"]
    /\ UNCHANGED <<tables, run, slips>>

\* commitLedgerImportBatchAction: the status is looked at once, here.
CommitRead(r, b) ==
    /\ run[r].pc = "idle" /\ batch[b].status = "DRAFT"
    /\ Spend("commit")
    /\ run' = [run EXCEPT ![r] = [pc |-> "load", batch |-> b]]
    /\ UNCHANGED <<batch, tables, slips>>

\* The tables are read once, before the first row: customers by normalised phone (of
\* two with the same one, either) or by name, supplier names, SKUs, and the
\* customers that have an opening balance.
KindOf(r) == batch[run[r].batch].kind

ByPhone(known) ==
    {f \in [{Dialled[c.phone] : c \in known} -> Names] :
        \A n \in DOMAIN f : \E c \in known : Dialled[c.phone] = n /\ c.name = f[n]}

Load(r) ==
    LET b == run[r].batch
        start(known) == [pc |-> "row", batch |-> b, i |-> 1, errs |-> {}, known |-> known,
                         named |-> [n \in Names |-> {c \in Live : customer[c].name = n}]]
        others == {q \in Runs \ {r} : run[q].pc = "row" /\ KindOf(q) = KindOf(r)}
    IN
    /\ run[r].pc = "load"
    /\ \/ /\ KindOf(r) = "CUSTOMER"
          /\ \E f \in ByPhone({customer[c] : c \in Live}) : run' = [run EXCEPT ![r] = start(f)]
       \/ /\ KindOf(r) = "VENDOR"
          /\ run' = [run EXCEPT ![r] = start({n \in Names : suppliers[n] > 0})]
       \/ KindOf(r) = "ITEM" /\ run' = [run EXCEPT ![r] = start(parts)]
       \/ /\ KindOf(r) = "OPENING_BALANCE"
          /\ run' = [run EXCEPT ![r] = start({c \in Customers : balance[c] # {}})]
    /\ slips' = IF others = {} THEN slips ELSE slips \union {"overlap"}
    /\ UNCHANGED <<batch, tables, budget>>

-----------------------------------------------------------------------------
(* One row of a commit.                                                    *)

Now(r) == batch[run[r].batch].rows[run[r].i]
Turn(r, kind) == run[r].pc = "row" /\ KindOf(r) = kind /\ run[r].i <= Len(batch[run[r].batch].rows)
After(r, known, errs) ==
    run' = [run EXCEPT ![r].i = @ + 1, ![r].known = known, ![r].errs = @ \union errs]
Refuse(r) == After(r, run[r].known, {run[r].i})
Skip(r) == After(r, run[r].known, {})

\* Same phone and name: skipped; same phone and another name, or the phone as
\* written taken since: refused.
CustomerRow(r) ==
    LET row == Now(r)  known == run[r].known  n == Dialled[row.phone] IN
    /\ Turn(r, "CUSTOMER")
    /\ \/ /\ n \in DOMAIN known
          /\ IF known[n] = row.name THEN Skip(r) ELSE Refuse(r)
          /\ UNCHANGED customer
       \/ /\ n \notin DOMAIN known
          /\ \E c \in Live : customer[c].phone = row.phone
          /\ Refuse(r) /\ UNCHANGED customer
       \/ /\ n \notin DOMAIN known
          /\ \A c \in Live : customer[c].phone # row.phone
          /\ \E c \in Customers \ Live : customer' = [customer EXCEPT ![c] = row]
          /\ After(r, [m \in DOMAIN known \union {n} |-> IF m = n THEN row.name ELSE known[m]], {})
    /\ UNCHANGED <<batch, suppliers, parts, balance, budget, slips>>

VendorRow(r) ==
    LET n == Now(r).name IN
    /\ Turn(r, "VENDOR")
    /\ IF n \in run[r].known
          THEN Skip(r) /\ UNCHANGED suppliers
          ELSE /\ suppliers' = [suppliers EXCEPT ![n] = @ + 1]
               /\ After(r, run[r].known \union {n}, {})
    /\ UNCHANGED <<batch, customer, parts, balance, budget, slips>>

\* A SKU made since the load is refused by the unique index.
ItemRow(r) ==
    LET n == Now(r).name IN
    /\ Turn(r, "ITEM")
    /\ CASE n \in run[r].known                  -> Skip(r) /\ UNCHANGED parts
         [] n \in parts \ run[r].known          -> Refuse(r) /\ UNCHANGED parts
         [] n \notin parts \union run[r].known  ->
                parts' = parts \union {n} /\ After(r, run[r].known \union {n}, {})
    /\ UNCHANGED <<batch, customer, suppliers, balance, budget, slips>>

\* Bug: a customer that the file lists twice is not remembered.
BalanceRowForgets(r) ==
    LET row == Now(r)  its == run[r].named[row.name] IN
    /\ Turn(r, "OPENING_BALANCE")
    /\ IF Cardinality(its) # 1 \/ its \subseteq run[r].known
          THEN Refuse(r) /\ UNCHANGED balance
          ELSE /\ \E c \in its :
                     balance' = [balance EXCEPT ![c] = @ \union {<<run[r].batch, run[r].i>>}]
               /\ Skip(r)
    /\ UNCHANGED <<batch, customer, suppliers, parts, budget, slips>>

\* The one customer of that name gets the two entries, unless it had them.
BalanceRow(r) ==
    LET row == Now(r)  its == run[r].named[row.name] IN
    /\ Turn(r, "OPENING_BALANCE")
    /\ IF Cardinality(its) # 1 \/ its \subseteq run[r].known
          THEN Refuse(r) /\ UNCHANGED balance
          ELSE /\ \E c \in its :
                     balance' = [balance EXCEPT ![c] = @ \union {<<run[r].batch, run[r].i>>}]
               /\ After(r, run[r].known \union its, {})
    /\ UNCHANGED <<batch, customer, suppliers, parts, budget, slips>>

-----------------------------------------------------------------------------

\* The status, whatever it has become since, and then the refused rows.
Committed(r) ==
    /\ run[r].pc = "row" /\ run[r].i > Len(batch[run[r].batch].rows)
    /\ batch' = [batch EXCEPT ![run[r].batch].status = "COMMITTED"]
    /\ run' = [run EXCEPT ![r] = [pc |-> "report", batch |-> run[r].batch, errs |-> run[r].errs]]
    /\ UNCHANGED <<tables, budget, slips>>

Report(r) ==
    /\ run[r].pc = "report"
    /\ batch' = [batch EXCEPT ![run[r].batch].errors = @ \union run[r].errs]
    /\ run' = [run EXCEPT ![r] = Idle]
    /\ UNCHANGED <<tables, budget, slips>>

\* discardLedgerImportBatchAction
DiscardRead(r, b) ==
    /\ run[r].pc = "idle" /\ batch[b].status = "DRAFT"
    /\ Spend("discard")
    /\ run' = [run EXCEPT ![r] = [pc |-> "discard", batch |-> b]]
    /\ UNCHANGED <<batch, tables, slips>>

Discard(r) ==
    /\ run[r].pc = "discard"
    /\ batch' = [batch EXCEPT ![run[r].batch].status = "DISCARDED"]
    /\ run' = [run EXCEPT ![r] = Idle]
    /\ UNCHANGED <<tables, budget, slips>>

\* The server may stop a request anywhere; what it wrote stays.
Kill(r) ==
    /\ run[r].pc # "idle"
    /\ Spend("kill")
    /\ run' = [run EXCEPT ![r] = Idle]
    /\ slips' = IF run[r].pc = "report" THEN slips \union {"killed"} ELSE slips
    /\ UNCHANGED <<batch, tables>>

\* Meanwhile customers are made and changed by hand.
Edit(c, row) ==
    /\ \A d \in Live \ {c} : customer[d].phone # row.phone
    /\ Spend("edit")
    /\ customer' = [customer EXCEPT ![c] = row]
    /\ slips' = IF c \in Live THEN slips \union {"edited"} ELSE slips
    /\ UNCHANGED <<batch, suppliers, parts, balance, run>>

Next ==
    \/ \E b \in Batches : Preview(b)
    \/ \E r \in Runs :
          \/ \E b \in Batches : CommitRead(r, b) \/ DiscardRead(r, b)
          \/ Load(r) \/ CustomerRow(r) \/ VendorRow(r) \/ ItemRow(r) \/ BalanceRow(r)
          \/ Committed(r) \/ Report(r) \/ Discard(r) \/ Kill(r)
    \/ \E c \in Customers, row \in [name: Names, phone: Phones] : Edit(c, row)

Spec == Init /\ [][Next]_vars

-----------------------------------------------------------------------------
(* Properties.                                                             *)

\* No customer starts with its debt twice, in spite of files that list it twice,
\* commits run again after a crash, and files loaded twice (import.ts: "the commit
\* refuses if any OPENING_BALANCE ledger entry already exists"); only two commits
\* that loaded the table at the same time can.
OneOpeningBalance ==
    "overlap" \notin slips => \A c \in Customers : \A d, e \in balance[c] : d = e

\* Every row of a committed file has landed, or was on file, or is on the list of
\* refused rows (import.ts: "a failure on row 400 must not roll back 399 good rows"),
\* also when an earlier commit of the file was killed halfway; only a commit killed
\* before it writes that list leaves rows out.
Landed(b, i) ==
    LET row == batch[b].rows[i] IN
    CASE batch[b].kind = "CUSTOMER" -> \/ "edited" \in slips
                                       \/ \E c \in Live : /\ customer[c].name = row.name
                                                        /\ Dialled[customer[c].phone] = Dialled[row.phone]
      [] batch[b].kind = "VENDOR"   -> suppliers[row.name] > 0
      [] batch[b].kind = "ITEM"     -> row.name \in parts
      [] OTHER                      -> \E c \in Customers : <<b, i>> \in balance[c]

EveryRowAnswered ==
    \A b \in Batches :
        /\ batch[b].status = "COMMITTED" /\ "killed" \notin slips
        /\ \A r \in Runs : run[r].pc # "report" \/ run[r].batch # b
        => \A i \in 1..Len(batch[b].rows) : Landed(b, i) \/ i \in batch[b].errors

\* A file leaves no row out and enters no balance twice: both of the above.
ImportedOnce == OneOpeningBalance /\ EveryRowAnswered

=============================================================================
