---------------------------- MODULE BooksProofs -----------------------------
(***************************************************************************)
(* Imports and Books, for every set of files, customers, jobs, invoices,   *)
(* advances and amounts.                                                   *)
(*                                                                         *)
(* ImportInv says of each commit where it is in its file, what of the file *)
(* has landed, and that what it remembers of its tables is still so.       *)
(* BooksInv says of every invoice, payment and advance which postings it   *)
(* has, of which rows: once each, and of the amounts it has now.  What the *)
(* reports claim are sums of those rows (SumLemmas).                       *)
(***************************************************************************)
EXTENDS Books, SumLemmas, SequenceTheorems

-----------------------------------------------------------------------------
(* The imports.                                                            *)

FileRows  == [name: Names, phone: Phones]
BatchRows == [kind: Kinds, rows: Seq(FileRows), errors: SUBSET Nat,
              status: {"none", "DRAFT", "COMMITTED", "DISCARDED"}]

Rowing(r)    == run[r].pc = "row"
Reporting(r) == run[r].pc = "report"

\* What a request has in hand, whatever it remembers of its tables.
RunTypeOK(q) ==
    \/ q = Idle
    \/ q.pc \in {"load", "discard"} /\ q = [pc |-> q.pc, batch |-> q.batch] /\ q.batch \in Batches
    \/ /\ q.pc = "row"
       /\ q = [pc |-> "row", batch |-> q.batch, i |-> q.i, errs |-> q.errs,
               known |-> q.known, named |-> q.named]
       /\ q.batch \in Batches /\ q.i \in Nat \ {0} /\ q.errs \in SUBSET Nat
       /\ q.named \in [Names -> SUBSET Customers]
    \/ /\ q.pc = "report"
       /\ q = [pc |-> "report", batch |-> q.batch, errs |-> q.errs]
       /\ q.batch \in Batches /\ q.errs \in SUBSET Nat

ImportTypeOK ==
    /\ batch \in [Batches -> BatchRows] /\ customer \in [Customers -> CustomerRows]
    /\ suppliers \in [Names -> Nat] /\ parts \in SUBSET Names
    /\ balance \in [Customers -> SUBSET (Batches \X Nat)]
    /\ run = [r \in Runs |-> run[r]] /\ \A r \in Runs : RunTypeOK(run[r])

\* What a commit remembers of the table it loaded is still so.
KnownOK(r) ==
    /\ KindOf(r) = "CUSTOMER" =>
          /\ run[r].known = [n \in DOMAIN run[r].known |-> run[r].known[n]]
          /\ \A n \in DOMAIN run[r].known :
                \/ "edited" \in slips
                \/ \E c \in Live : customer[c].name = run[r].known[n] /\ Dialled[customer[c].phone] = n
    /\ KindOf(r) = "VENDOR" => \A n \in run[r].known \intersect Names : suppliers[n] > 0
    /\ KindOf(r) = "ITEM" => run[r].known \subseteq parts
    /\ KindOf(r) = "OPENING_BALANCE" /\ "overlap" \notin slips =>
          run[r].known = {c \in Customers : balance[c] # {}}

\* One commit of each kind at a time, unless two overlapped.
Alone ==
    "overlap" \notin slips =>
        \A r, q \in Runs : Rowing(r) /\ Rowing(q) /\ KindOf(r) = KindOf(q) => r = q

\* The rows up to where a commit is have landed or are to be reported.
DoneOK(r) ==
    LET b == run[r].batch IN
    /\ Rowing(r) => /\ run[r].i <= Len(batch[b].rows) + 1
                    /\ \A i \in 1..run[r].i - 1 : Landed(b, i) \/ i \in run[r].errs
    /\ Reporting(r) => \A i \in 1..Len(batch[b].rows) : Landed(b, i) \/ i \in run[r].errs

AnsweredOK ==
    \A b \in Batches : batch[b].status = "COMMITTED" /\ "killed" \notin slips =>
        \A i \in 1..Len(batch[b].rows) :
            \/ Landed(b, i) \/ i \in batch[b].errors
            \/ \E r \in Runs : Reporting(r) /\ run[r].batch = b /\ i \in run[r].errs

ImportInv ==
    /\ ImportTypeOK /\ Alone /\ OneOpeningBalance /\ AnsweredOK
    /\ \A r \in Runs : DoneOK(r) /\ (Rowing(r) => KnownOK(r))

-----------------------------------------------------------------------------

LEMMA ImportSuffices == ImportInv => ImportedOnce
BY DEF ImportInv, ImportedOnce, EveryRowAnswered, AnsweredOK, Reporting

\* What has landed stays.
Grows ==
    /\ \A b \in Batches : batch'[b].kind = batch[b].kind /\ batch'[b].rows = batch[b].rows
    /\ \A n \in Names : suppliers[n] > 0 => suppliers'[n] > 0
    /\ parts \subseteq parts' /\ slips \subseteq slips'
    /\ \A c \in Customers : balance[c] \subseteq balance'[c]
    /\ "edited" \in slips' \/ \A c \in Live : customer'[c] = customer[c]

LEMMA LiveStays ==
    ASSUME Grows, NEW name, NEW n, "edited" \notin slips',
           \E c \in Live : customer[c].name = name /\ Dialled[customer[c].phone] = n
    PROVE  (\E c \in Live : customer[c].name = name /\ Dialled[customer[c].phone] = n)'
BY DEF Grows, Live

LEMMA LandedStays ==
    ASSUME ImportTypeOK, Grows, NEW b \in Batches, NEW i \in 1..Len(batch[b].rows), Landed(b, i)
    PROVE  Landed(b, i)'
<1> DEFINE row == batch[b].rows[i]
<1>0. row \in FileRows /\ batch[b].kind \in Kinds /\ batch'[b].rows[i] = row
      /\ batch'[b].kind = batch[b].kind
  BY ElementOfSeq DEF ImportTypeOK, BatchRows, Grows
<1>1. CASE batch[b].kind = "CUSTOMER"
  <2>1. "edited" \in slips \/ \E c \in Live : customer[c].name = row.name
                                           /\ Dialled[customer[c].phone] = Dialled[row.phone]
    BY <1>1, Zenon DEF Landed
  <2>2. "edited" \in slips' \/ (\E c \in Live : customer[c].name = batch[b].rows[i].name
                               /\ Dialled[customer[c].phone] = Dialled[batch[b].rows[i].phone])'
    BY <2>1, <1>0 DEF Grows, Live
  <2> QED BY <2>2, <1>0, <1>1 DEF Landed
<1>2. CASE batch[b].kind = "VENDOR"
  BY <1>0, <1>2 DEF Landed, Grows, FileRows
<1>3. CASE batch[b].kind = "ITEM"
  BY <1>0, <1>3 DEF Landed, Grows
<1>4. CASE batch[b].kind = "OPENING_BALANCE"
  BY <1>0, <1>4 DEF Landed, Grows
<1> QED BY <1>0, <1>1, <1>2, <1>3, <1>4 DEF Kinds

\* What another request relies on stays.
LEMMA OthersStay ==
    ASSUME ImportTypeOK, Grows, NEW q \in Runs, DoneOK(q), Rowing(q) => KnownOK(q),
           run'[q] = run[q],
           Rowing(q) /\ KindOf(q) = "OPENING_BALANCE" /\ "overlap" \notin slips =>
               balance' = balance
    PROVE  DoneOK(q)' /\ (Rowing(q) => KnownOK(q))'
<1> DEFINE b == run[q].batch
<1>0. Rowing(q) \/ Reporting(q) => b \in Batches
  BY DEF ImportTypeOK, RunTypeOK, Idle, Rowing, Reporting
<1>1. DoneOK(q)'
  <2>1. CASE Rowing(q)
    <3>1. batch'[b].rows = batch[b].rows /\ Rowing(q)' /\ ~Reporting(q)' /\ b \in Batches
      BY <1>0, <2>1 DEF Grows, Rowing, Reporting
    <3>2. run[q].i \in Nat \ {0}
      BY <2>1 DEF ImportTypeOK, RunTypeOK, Idle, Rowing
    <3>3. run[q].i <= Len(batch[b].rows) + 1 /\ \A i \in 1..run[q].i - 1 : Landed(b, i) \/ i \in run[q].errs
      BY <2>1 DEF DoneOK
    <3>4. batch[b].rows \in Seq(FileRows)
      BY <3>1 DEF ImportTypeOK, BatchRows
    <3>5. ASSUME NEW i \in 1..run[q].i - 1 PROVE Landed(b, i)' \/ i \in run'[q].errs
      <4>1. i \in 1..Len(batch[b].rows)
        BY <3>2, <3>3, <3>4, LenProperties
      <4> QED BY <4>1, <3>1, <3>3, LandedStays
    <3> QED BY <3>1, <3>3, <3>5 DEF DoneOK
  <2>2. CASE Reporting(q)
    <3>1. batch'[b].rows = batch[b].rows /\ ~Rowing(q)' /\ b \in Batches
      BY <1>0, <2>2 DEF Grows, Rowing, Reporting
    <3>2. \A i \in 1..Len(batch[b].rows) : Landed(b, i) \/ i \in run[q].errs
      BY <2>2 DEF DoneOK
    <3>3. ASSUME NEW i \in 1..Len(batch[b].rows) PROVE Landed(b, i)' \/ i \in run'[q].errs
      BY <3>1, <3>2, LandedStays
    <3> QED BY <3>1, <3>3 DEF DoneOK
  <2>3. CASE ~Rowing(q) /\ ~Reporting(q)
    BY <2>3 DEF DoneOK, Rowing, Reporting
  <2> QED BY <2>1, <2>2, <2>3
<1>2. ASSUME Rowing(q)' PROVE KnownOK(q)'
  <2>1. Rowing(q) /\ KnownOK(q) /\ b \in Batches /\ KindOf(q)' = KindOf(q)
    BY <1>2, <1>0 DEF Rowing, KindOf, Grows
  <2>2. CASE KindOf(q) = "CUSTOMER"
    <3>1. ASSUME NEW n \in DOMAIN run[q].known, "edited" \notin slips'
          PROVE  (\E c \in Live : customer[c].name = run[q].known[n] /\ Dialled[customer[c].phone] = n)'
      <4>1. \E c \in Live : customer[c].name = run[q].known[n] /\ Dialled[customer[c].phone] = n
        BY <2>1, <2>2, <3>1 DEF KnownOK, Grows
      <4>2. PICK c \in Live : customer[c].name = run[q].known[n] /\ Dialled[customer[c].phone] = n
        BY <4>1
      <4> QED BY <4>2, <3>1 DEF Grows, Live
    <3> QED BY <2>1, <2>2, <3>1 DEF KnownOK
  <2>3. CASE KindOf(q) = "VENDOR"
    BY <2>1, <2>3 DEF KnownOK, Grows
  <2>4. CASE KindOf(q) = "ITEM"
    BY <2>1, <2>4 DEF KnownOK, Grows
  <2>5. CASE KindOf(q) = "OPENING_BALANCE"
    BY <2>1, <2>5 DEF KnownOK, Grows
  <2> QED BY <2>1, <2>2, <2>3, <2>4, <2>5 DEF KnownOK
<1> QED BY <1>1, <1>2

\* What was answered for stays so while nothing is committed, reported or killed.
LEMMA AnsweredStays ==
    ASSUME ImportTypeOK, Grows, AnsweredOK,
           \A b \in Batches : /\ batch'[b].status = "COMMITTED" => batch[b].status = "COMMITTED"
                              /\ batch[b].errors \subseteq batch'[b].errors,
           \A r \in Runs : Reporting(r) =>
               \/ run'[r] = run[r] \/ "killed" \in slips'
               \/ run[r].errs \subseteq batch'[run[r].batch].errors
    PROVE  AnsweredOK'
<1> SUFFICES ASSUME NEW b \in Batches, batch'[b].status = "COMMITTED", "killed" \notin slips',
                    NEW i \in 1..Len(batch'[b].rows)
             PROVE  \/ Landed(b, i)' \/ i \in batch'[b].errors
                    \/ \E r \in Runs : Reporting(r)' /\ run'[r].batch = b /\ i \in run'[r].errs
  BY DEF AnsweredOK
<1>1. i \in 1..Len(batch[b].rows) /\ batch[b].status = "COMMITTED" /\ "killed" \notin slips
  BY DEF Grows
<1>2. CASE Landed(b, i)
  BY <1>1, <1>2, LandedStays
<1>3. CASE i \in batch[b].errors
  BY <1>3
<1>4. CASE \E r \in Runs : Reporting(r) /\ run[r].batch = b /\ i \in run[r].errs
  BY <1>4 DEF Reporting
<1> QED BY <1>1, <1>2, <1>3, <1>4 DEF AnsweredOK

LEMMA AloneStays ==
    ASSUME ImportTypeOK, Grows, Alone,
           \A r \in Runs : Rowing(r)' => Rowing(r) /\ run'[r].batch = run[r].batch
    PROVE  Alone'
<1>1. \A r \in Runs : Rowing(r) => run[r].batch \in Batches
  BY DEF ImportTypeOK, RunTypeOK, Idle, Rowing
<1> QED BY <1>1 DEF Alone, Grows, KindOf

-----------------------------------------------------------------------------
(* One lemma for each step.                                                *)

\* The request alone moves.
Moves(r, q) == run' = [run EXCEPT ![r] = q]

LEMMA MovesFacts ==
    ASSUME ImportTypeOK, NEW r \in Runs, NEW q, RunTypeOK(q), Moves(r, q)
    PROVE  /\ run'[r] = q /\ \A s \in Runs \ {r} : run'[s] = run[s]
           /\ run' = [s \in Runs |-> run'[s]] /\ \A s \in Runs : RunTypeOK(run'[s])
BY DEF ImportTypeOK, Moves

\* A request that begins or ends without a row.
LEMMA AsideStep ==
    ASSUME ImportInv, Grows, ImportTypeOK', NEW r \in Runs, ~Rowing(r)', ~Reporting(r)',
           \A s \in Runs \ {r} : run'[s] = run[s], balance' = balance,
           AnsweredOK'
    PROVE  ImportInv'
<1>1. Alone'
  BY AloneStays DEF ImportInv, Rowing
<1>2. OneOpeningBalance'
  BY DEF ImportInv, OneOpeningBalance, Grows
<1>3. ASSUME NEW s \in Runs PROVE DoneOK(s)' /\ (Rowing(s)' => KnownOK(s)')
  <2>1. CASE s = r
    BY <2>1 DEF DoneOK
  <2>2. CASE s # r
    BY <2>2, OthersStay DEF ImportInv
  <2> QED BY <2>1, <2>2
<1> QED BY <1>1, <1>2, <1>3 DEF ImportInv

LEMMA PreviewOK ==
    ASSUME ImportInv, NEW b \in Batches, Preview(b)
    PROVE  ImportInv'
<1>1. ImportTypeOK'
  BY DEF ImportInv, ImportTypeOK, BatchRows, Preview, tables
<1>2. Grows
  BY DEF ImportInv, ImportTypeOK, BatchRows, Grows, Preview, tables
<1>3. \A d \in Batches : /\ batch'[d].status = "COMMITTED" => batch[d].status = "COMMITTED"
                         /\ batch[d].errors \subseteq batch'[d].errors
  BY DEF ImportInv, ImportTypeOK, BatchRows, Preview
<1>4. run' = run /\ balance' = balance
  BY DEF Preview, tables
<1>5. AnsweredOK'
  BY <1>2, <1>3, <1>4, AnsweredStays DEF ImportInv
<1>6. Alone'
  BY <1>2, <1>4, AloneStays DEF ImportInv, Rowing
<1>7. OneOpeningBalance'
  BY <1>2, <1>4 DEF ImportInv, OneOpeningBalance, Grows
<1>8. ASSUME NEW s \in Runs PROVE DoneOK(s)' /\ (Rowing(s)' => KnownOK(s)')
  BY <1>2, <1>4, OthersStay DEF ImportInv, Rowing
<1> QED BY <1>1, <1>5, <1>6, <1>7, <1>8 DEF ImportInv

LEMMA CommitReadOK ==
    ASSUME ImportInv, NEW r \in Runs, NEW b \in Batches, CommitRead(r, b) \/ DiscardRead(r, b)
    PROVE  ImportInv'
<1>1. PICK pc \in {"load", "discard"} : Moves(r, [pc |-> pc, batch |-> b])
  BY DEF CommitRead, DiscardRead, Moves
<1> DEFINE q == [pc |-> pc, batch |-> b]
<1>2. RunTypeOK(q)
  BY DEF RunTypeOK
<1>3. run'[r] = q /\ \A s \in Runs \ {r} : run'[s] = run[s]
  BY <1>1, <1>2, MovesFacts DEF ImportInv
<1>4. UNCHANGED <<batch, tables, slips>> /\ run[r].pc = "idle"
  BY DEF CommitRead, DiscardRead
<1>5. ImportTypeOK'
  BY <1>1, <1>2, <1>4, MovesFacts DEF ImportInv, ImportTypeOK, tables
<1>6. Grows
  BY <1>4 DEF Grows, tables
<1>7. AnsweredOK'
  BY <1>3, <1>4, <1>6, AnsweredStays DEF ImportInv, Reporting
<1> QED BY <1>3, <1>4, <1>5, <1>6, <1>7, AsideStep DEF Rowing, Reporting, tables

LEMMA DiscardOK ==
    ASSUME ImportInv, NEW r \in Runs, Discard(r)
    PROVE  ImportInv'
<1>1. Moves(r, Idle) /\ RunTypeOK(Idle)
  BY DEF Discard, Moves, RunTypeOK
<1>2. run'[r] = Idle /\ \A s \in Runs \ {r} : run'[s] = run[s]
  BY <1>1, MovesFacts DEF ImportInv
<1>3. UNCHANGED <<tables, slips>> /\ run[r].pc = "discard" /\ run[r].batch \in Batches
  BY DEF Discard, ImportInv, ImportTypeOK, RunTypeOK, Idle
<1>4. ImportTypeOK'
  <2>1. batch' \in [Batches -> BatchRows]
    <3>1. PICK b \in Batches : b = run[r].batch
      BY <1>3
    <3>2. batch' = [batch EXCEPT ![b].status = "DISCARDED"]
      BY <3>1 DEF Discard
    <3> QED BY <3>2 DEF ImportInv, ImportTypeOK, BatchRows
  <2> QED BY <2>1, <1>1, <1>3, MovesFacts DEF ImportInv, ImportTypeOK, tables
<1>5. Grows
  BY <1>3 DEF Grows, tables, ImportInv, ImportTypeOK, BatchRows, Discard
<1>6. \A d \in Batches : /\ batch'[d].status = "COMMITTED" => batch[d].status = "COMMITTED"
                         /\ batch[d].errors \subseteq batch'[d].errors
  BY DEF ImportInv, ImportTypeOK, BatchRows, Discard
<1>7. AnsweredOK'
  BY <1>2, <1>3, <1>5, <1>6, AnsweredStays DEF ImportInv, Reporting
<1> QED BY <1>2, <1>3, <1>4, <1>5, <1>7, AsideStep DEF Rowing, Reporting, tables, Idle

LEMMA KillOK ==
    ASSUME ImportInv, NEW r \in Runs, Kill(r)
    PROVE  ImportInv'
<1>1. Moves(r, Idle) /\ RunTypeOK(Idle)
  BY DEF Kill, Moves, RunTypeOK
<1>2. run'[r] = Idle /\ \A s \in Runs \ {r} : run'[s] = run[s]
  BY <1>1, MovesFacts DEF ImportInv
<1>3. UNCHANGED <<batch, tables>> /\ slips \subseteq slips'
  BY DEF Kill
<1>4. ImportTypeOK'
  BY <1>1, <1>3, MovesFacts DEF ImportInv, ImportTypeOK, tables
<1>5. Grows
  BY <1>3 DEF Grows, tables
<1>6. Reporting(r) => "killed" \in slips'
  BY DEF Kill, Reporting
<1>7. AnsweredOK'
  BY <1>2, <1>3, <1>5, <1>6, AnsweredStays DEF ImportInv
<1> QED BY <1>2, <1>3, <1>4, <1>5, <1>7, AsideStep DEF Rowing, Reporting, tables, Idle

LEMMA ReportOK ==
    ASSUME ImportInv, NEW r \in Runs, Report(r)
    PROVE  ImportInv'
<1>1. Moves(r, Idle) /\ RunTypeOK(Idle)
  BY DEF Report, Moves, RunTypeOK
<1>2. run'[r] = Idle /\ \A s \in Runs \ {r} : run'[s] = run[s]
  BY <1>1, MovesFacts DEF ImportInv
<1>3. UNCHANGED <<tables, slips>> /\ run[r].batch \in Batches /\ run[r].errs \in SUBSET Nat
  BY DEF Report, ImportInv, ImportTypeOK, RunTypeOK, Idle
<1>4. ImportTypeOK'
  <2>1. batch' \in [Batches -> BatchRows]
    BY <1>3, ZenonT(60) DEF ImportInv, ImportTypeOK, Report, BatchRows
  <2> QED BY <2>1, <1>1, <1>3, MovesFacts DEF ImportInv, ImportTypeOK, tables
<1>5. Grows
  BY <1>3 DEF Grows, tables, ImportInv, ImportTypeOK, BatchRows, Report
<1>6. /\ \A d \in Batches : /\ batch'[d].status = batch[d].status
                            /\ batch[d].errors \subseteq batch'[d].errors
      /\ run[r].errs \subseteq batch'[run[r].batch].errors
  BY <1>3 DEF ImportInv, ImportTypeOK, BatchRows, Report
<1>7. AnsweredOK'
  BY <1>2, <1>3, <1>5, <1>6, AnsweredStays DEF ImportInv, Reporting
<1> QED BY <1>2, <1>3, <1>4, <1>5, <1>7, AsideStep DEF Rowing, Reporting, tables, Idle

\* A customer edited by hand lands nothing, unless he was changed.
LEMMA EditOK ==
    ASSUME ImportInv, NEW c \in Customers, NEW row \in FileRows, Edit(c, row)
    PROVE  ImportInv'
<1>1. UNCHANGED <<batch, suppliers, parts, balance, run>> /\ slips \subseteq slips'
  BY DEF Edit
<1>2. ImportTypeOK'
  BY <1>1 DEF ImportInv, ImportTypeOK, Edit, CustomerRows, FileRows
<1>3. Grows
  <2>1. c \in Live => "edited" \in slips'
    BY DEF Edit
  <2>2. \A d \in Customers : d # c => customer'[d] = customer[d]
    BY DEF Edit, ImportInv, ImportTypeOK
  <2> QED BY <1>1, <2>1, <2>2 DEF Grows, Live
<1>4. AnsweredOK'
  BY <1>1, <1>3, AnsweredStays DEF ImportInv
<1>5. Alone'
  BY <1>1, <1>3, AloneStays DEF ImportInv, Rowing
<1>6. OneOpeningBalance'
  BY <1>1, <1>3 DEF ImportInv, OneOpeningBalance, Grows
<1>7. ASSUME NEW s \in Runs PROVE DoneOK(s)' /\ (Rowing(s)' => KnownOK(s)')
  BY <1>1, <1>3, OthersStay DEF ImportInv, Rowing
<1> QED BY <1>2, <1>4, <1>5, <1>6, <1>7 DEF ImportInv

LEMMA CommittedOK ==
    ASSUME ImportInv, NEW r \in Runs, Committed(r)
    PROVE  ImportInv'
<1>0. PICK b \in Batches : b = run[r].batch
  BY DEF Committed, ImportInv, ImportTypeOK, RunTypeOK, Idle
<1> DEFINE q == [pc |-> "report", batch |-> b, errs |-> run[r].errs]
<1>1. UNCHANGED <<tables, slips>> /\ Rowing(r) /\ run[r].errs \in SUBSET Nat
      /\ run[r].i > Len(batch[b].rows) /\ run[r].i \in Nat
  BY <1>0 DEF Committed, Rowing, ImportInv, ImportTypeOK, RunTypeOK, Idle
<1>2. Moves(r, q) /\ RunTypeOK(q)
  <2>1. RunTypeOK(q)
    BY <1>1 DEF RunTypeOK
  <2> QED BY <2>1, <1>0 DEF Committed, Moves
<1>3. run'[r] = q /\ \A s \in Runs \ {r} : run'[s] = run[s]
  BY <1>2, MovesFacts DEF ImportInv
<1>4. batch' \in [Batches -> BatchRows]
  BY <1>0, <1>1, ZenonT(60) DEF ImportInv, ImportTypeOK, Committed, BatchRows
<1>5. ImportTypeOK'
  BY <1>1, <1>2, <1>4, MovesFacts DEF ImportInv, ImportTypeOK, tables
<1>6. Grows
  BY <1>0, <1>1 DEF Grows, tables, ImportInv, ImportTypeOK, BatchRows, Committed
<1>7. /\ \A d \in Batches \ {b} : batch'[d] = batch[d]
      /\ batch'[b].rows = batch[b].rows
  BY <1>0, <1>1 DEF ImportInv, ImportTypeOK, BatchRows, Committed
<1>8. \A i \in 1..Len(batch[b].rows) : Landed(b, i) \/ i \in run[r].errs
  <2>1. batch[b].rows \in Seq(FileRows) /\ Len(batch[b].rows) \in Nat
    BY <1>1, LenProperties DEF ImportInv, ImportTypeOK, BatchRows
  <2>2. \A i \in 1..run[r].i - 1 : Landed(b, i) \/ i \in run[r].errs
    BY <1>0, <1>1 DEF ImportInv, DoneOK
  <2>3. \A i \in 1..Len(batch[b].rows) : i \in 1..run[r].i - 1
    BY <2>1, <1>1
  <2> QED BY <2>2, <2>3
<1>9. \A i \in 1..Len(batch[b].rows) : Landed(b, i)' \/ i \in run[r].errs
  BY <1>1, <1>6, <1>8, LandedStays DEF ImportInv
<1>10. AnsweredOK'
  <2> SUFFICES ASSUME NEW d \in Batches, batch'[d].status = "COMMITTED", "killed" \notin slips',
                      NEW i \in 1..Len(batch'[d].rows)
               PROVE  \/ Landed(d, i)' \/ i \in batch'[d].errors
                      \/ \E s \in Runs : Reporting(s)' /\ run'[s].batch = d /\ i \in run'[s].errs
    BY DEF AnsweredOK
  <2>1. CASE d = b
    BY <2>1, <1>3, <1>7, <1>9 DEF Reporting
  <2>2. CASE d # b
    <3>1. batch'[d] = batch[d] /\ "killed" \notin slips
      BY <2>2, <1>7, <1>1
    <3>2. \/ Landed(d, i) \/ i \in batch[d].errors
          \/ \E s \in Runs : Reporting(s) /\ run[s].batch = d /\ i \in run[s].errs
      BY <3>1 DEF ImportInv, AnsweredOK
    <3>3. CASE Landed(d, i)
      BY <3>1, <3>3, <1>6, LandedStays DEF ImportInv
    <3>4. CASE i \in batch[d].errors
      BY <3>1, <3>4
    <3>5. CASE \E s \in Runs : Reporting(s) /\ run[s].batch = d /\ i \in run[s].errs
      <4>1. PICK s \in Runs : Reporting(s) /\ run[s].batch = d /\ i \in run[s].errs
        BY <3>5
      <4>2. s # r
        BY <4>1, <1>1 DEF Reporting, Rowing
      <4> QED BY <4>1, <4>2, <1>3 DEF Reporting
    <3> QED BY <3>2, <3>3, <3>4, <3>5
  <2> QED BY <2>1, <2>2
<1>11. Alone'
  BY <1>3, <1>6, AloneStays DEF ImportInv, Rowing
<1>12. OneOpeningBalance'
  BY <1>1 DEF ImportInv, OneOpeningBalance, tables
<1>13. ASSUME NEW s \in Runs PROVE DoneOK(s)' /\ (Rowing(s)' => KnownOK(s)')
  <2>1. CASE s = r
    BY <2>1, <1>3, <1>7, <1>9 DEF DoneOK, Rowing
  <2>2. CASE s # r
    <3>1. run'[s] = run[s] /\ balance' = balance
      BY <2>2, <1>1, <1>3 DEF tables
    <3> QED BY <3>1, <1>6, OthersStay DEF ImportInv, Rowing
  <2> QED BY <2>1, <2>2
<1> QED BY <1>5, <1>10, <1>11, <1>12, <1>13 DEF ImportInv

\* A commit that begins remembers the table as it is.
LEMMA LoadOK ==
    ASSUME ImportInv, NEW r \in Runs, Load(r)
    PROVE  ImportInv'
<1>0. PICK b \in Batches : b = run[r].batch
  BY DEF Load, ImportInv, ImportTypeOK, RunTypeOK, Idle
<1> DEFINE named == [n \in Names |-> {c \in Live : customer[c].name = n}]
           start(known) == [pc |-> "row", batch |-> b, i |-> 1, errs |-> {}, known |-> known,
                            named |-> named]
<1>1. /\ UNCHANGED <<batch, tables>> /\ slips \subseteq slips' /\ run[r].pc = "load"
      /\ KindOf(r) = batch[b].kind
  BY <1>0 DEF Load, KindOf
<1>2. PICK known : /\ Moves(r, start(known))
                   /\ \/ /\ KindOf(r) = "CUSTOMER"
                         /\ known \in ByPhone({customer[c] : c \in Live})
                      \/ KindOf(r) = "VENDOR" /\ known = {n \in Names : suppliers[n] > 0}
                      \/ KindOf(r) = "ITEM" /\ known = parts
                      \/ /\ KindOf(r) = "OPENING_BALANCE"
                         /\ known = {c \in Customers : balance[c] # {}}
  <2> DEFINE K(k) == run' = [run EXCEPT ![r] = start(k)]
  <2>1. CASE KindOf(r) = "CUSTOMER" /\ \E f \in ByPhone({customer[c] : c \in Live}) : K(f)
    BY <2>1 DEF Moves
  <2>2. CASE KindOf(r) = "VENDOR" /\ K({n \in Names : suppliers[n] > 0})
    BY <2>2 DEF Moves
  <2>3. CASE KindOf(r) = "ITEM" /\ K(parts)
    BY <2>3 DEF Moves
  <2>4. CASE KindOf(r) = "OPENING_BALANCE" /\ K({c \in Customers : balance[c] # {}})
    BY <2>4 DEF Moves
  <2> QED BY <2>1, <2>2, <2>3, <2>4, <1>0 DEF Load
<1> DEFINE q == start(known)
<1>3. RunTypeOK(q)
  <2>1. named \in [Names -> SUBSET Customers]
    BY DEF Live
  <2> HIDE DEF named
  <2> QED BY <2>1 DEF RunTypeOK
<1>4. run'[r] = q /\ \A s \in Runs \ {r} : run'[s] = run[s]
  BY <1>2, <1>3, MovesFacts DEF ImportInv
<1>5. ImportTypeOK'
  BY <1>1, <1>2, <1>3, MovesFacts DEF ImportInv, ImportTypeOK, tables
<1>6. Grows
  BY <1>1 DEF Grows, tables
<1>7. AnsweredOK'
  BY <1>1, <1>4, <1>6, AnsweredStays DEF ImportInv, Reporting
<1>8. OneOpeningBalance'
  BY <1>1, <1>6 DEF ImportInv, OneOpeningBalance, Grows, tables
<1>9. Alone'
  <2>1. ASSUME "overlap" \notin slips', NEW s \in Runs \ {r}, Rowing(s)', KindOf(s)' = KindOf(r)'
        PROVE  FALSE
    <3>1. run[s].pc = "row" /\ KindOf(s) = KindOf(r)
      BY <2>1, <1>0, <1>1, <1>4 DEF Rowing, KindOf
    <3> QED BY <2>1, <3>1 DEF Load
  <2>2. ASSUME "overlap" \notin slips', NEW s \in Runs \ {r}, NEW u \in Runs \ {r},
               Rowing(s)', Rowing(u)', KindOf(s)' = KindOf(u)'
        PROVE  s = u
    BY <2>2, <1>1, <1>4 DEF ImportInv, Alone, Rowing, KindOf
  <2> QED BY <2>1, <2>2 DEF Alone
<1>10. DoneOK(r)'
  <2>1. batch[b].rows \in Seq(FileRows) /\ Len(batch[b].rows) \in Nat
    BY LenProperties DEF ImportInv, ImportTypeOK, BatchRows
  <2> QED BY <2>1, <1>1, <1>4 DEF DoneOK, Rowing, Reporting
<1>11. KnownOK(r)'
  <2>1. KindOf(r)' = KindOf(r) /\ run'[r].known = known
    BY <1>0, <1>1, <1>4 DEF KindOf
  <2>2. CASE KindOf(r) = "CUSTOMER"
    <3>1. known \in ByPhone({customer[c] : c \in Live})
      BY <1>2, <2>2
    <3>2. /\ known = [n \in DOMAIN known |-> known[n]]
          /\ \A n \in DOMAIN known : \E c \in Live : /\ Dialled[customer[c].phone] = n
                                                  /\ customer[c].name = known[n]
      BY <3>1 DEF ByPhone
    <3>3. customer' = customer /\ Live' = Live
      BY <1>1 DEF tables, Live
    <3> QED BY <2>1, <2>2, <3>2, <3>3 DEF KnownOK
  <2>3. CASE KindOf(r) = "VENDOR"
    BY <1>1, <1>2, <2>1, <2>3 DEF KnownOK, tables
  <2>4. CASE KindOf(r) = "ITEM"
    BY <1>1, <1>2, <2>1, <2>4 DEF KnownOK, tables
  <2>5. CASE KindOf(r) = "OPENING_BALANCE"
    BY <1>1, <1>2, <2>1, <2>5 DEF KnownOK, tables
  <2> QED BY <1>2, <2>1, <2>2, <2>3, <2>4, <2>5
<1>12. ASSUME NEW s \in Runs PROVE DoneOK(s)' /\ (Rowing(s)' => KnownOK(s)')
  <2>1. CASE s = r
    BY <2>1, <1>10, <1>11
  <2>2. CASE s # r
    <3>1. run'[s] = run[s] /\ balance' = balance
      BY <2>2, <1>1, <1>4 DEF tables
    <3> QED BY <3>1, <1>6, OthersStay DEF ImportInv, Rowing
  <2> QED BY <2>1, <2>2
<1> QED BY <1>5, <1>7, <1>8, <1>9, <1>12 DEF ImportInv

LEMMA RowFacts ==
    ASSUME ImportTypeOK, NEW r \in Runs, Rowing(r)
    PROVE  /\ run[r] = [pc |-> "row", batch |-> run[r].batch, i |-> run[r].i,
                        errs |-> run[r].errs, known |-> run[r].known, named |-> run[r].named]
           /\ run[r].batch \in Batches /\ run[r].i \in Nat \ {0} /\ run[r].errs \in SUBSET Nat
           /\ run[r].named \in [Names -> SUBSET Customers]
<1>1. RunTypeOK(run[r]) /\ run[r].pc = "row"
  BY DEF ImportTypeOK, Rowing
<1>2. run[r] # Idle /\ run[r].pc \notin {"load", "discard", "report"}
  BY <1>1 DEF Idle
<1> QED BY <1>1, <1>2, Zenon DEF RunTypeOK

\* The next row's turn.
LEMMA AfterMoves ==
    ASSUME ImportTypeOK, NEW r \in Runs, NEW b, NEW n, NEW e, NEW k, NEW m, NEW known, NEW errs,
           run[r] = [pc |-> "row", batch |-> b, i |-> n, errs |-> e, known |-> k, named |-> m],
           After(r, known, errs)
    PROVE  Moves(r, [pc |-> "row", batch |-> b, i |-> n + 1, errs |-> e \union errs,
                     known |-> known, named |-> m])
<1> DEFINE It(i, es, kn) == [pc |-> "row", batch |-> b, i |-> i, errs |-> es, known |-> kn,
                             named |-> m]
<1>1. PICK q : q = run[r] /\ q = It(n, e, k)
  OBVIOUS
<1>2. [q EXCEPT !.i = @ + 1] = It(n + 1, e, k)
  BY <1>1
<1>3. [It(n + 1, e, k) EXCEPT !.known = known] = It(n + 1, e, known)
  OBVIOUS
<1>4. \A x : [It(n + 1, e, known) EXCEPT !.errs = x] = It(n + 1, x, known)
  OBVIOUS
<1>5. It(n + 1, e, known).errs = e
  OBVIOUS
<1>6. run' = [run EXCEPT ![r] = [run[r] EXCEPT !.i = @ + 1, !.known = known, !.errs = @ \union errs]]
  BY DEF After, ImportTypeOK
<1> HIDE DEF It
<1>7. [It(n + 1, e, known) EXCEPT !.errs = @ \union errs] = It(n + 1, e \union errs, known)
  BY <1>4, <1>5, Zenon
<1>8. [q EXCEPT !.i = @ + 1, !.known = known, !.errs = @ \union errs]
          = [[[q EXCEPT !.i = @ + 1] EXCEPT !.known = known] EXCEPT !.errs = @ \union errs]
  OBVIOUS
<1>9. [q EXCEPT !.i = @ + 1, !.known = known, !.errs = @ \union errs] = It(n + 1, e \union errs, known)
  BY <1>2, <1>3, <1>7, <1>8
<1> QED BY <1>1, <1>6, <1>9, Zenon DEF It, Moves

\* A row of a commit has landed or is to be reported, and the next one's turn comes.
LEMMA RowStep ==
    ASSUME ImportInv, NEW r \in Runs, Rowing(r),
           NEW b \in Batches, b = run[r].batch, NEW n \in Nat, n = run[r].i,
           n <= Len(batch[b].rows), NEW known, NEW errs, errs \in {{}, {n}},
           After(r, known, errs), UNCHANGED <<batch, slips>>, Grows,
           customer' \in [Customers -> CustomerRows], suppliers' \in [Names -> Nat],
           parts' \in SUBSET Names, balance' \in [Customers -> SUBSET (Batches \X Nat)],
           Landed(b, n)' \/ n \in errs, OneOpeningBalance',
           KindOf(r)' = KindOf(r) /\ run'[r].known = known => KnownOK(r)',
           KindOf(r) # "OPENING_BALANCE" => balance' = balance
    PROVE  ImportInv'
<1> DEFINE q == [pc |-> "row", batch |-> b, i |-> n + 1, errs |-> run[r].errs \union errs,
                 known |-> known, named |-> run[r].named]
<1>1. /\ run[r] = [pc |-> "row", batch |-> b, i |-> n, errs |-> run[r].errs,
                   known |-> run[r].known, named |-> run[r].named]
      /\ n # 0 /\ run[r].errs \in SUBSET Nat /\ run[r].named \in [Names -> SUBSET Customers]
  BY RowFacts DEF ImportInv
<1>2. RunTypeOK(q)
  BY <1>1 DEF RunTypeOK
<1>3. Moves(r, q)
  BY <1>1, AfterMoves DEF ImportInv
<1>4. run'[r] = q /\ \A s \in Runs \ {r} : run'[s] = run[s]
  BY <1>2, <1>3, MovesFacts DEF ImportInv
<1>5. ImportTypeOK'
  BY <1>2, <1>3, MovesFacts DEF ImportInv, ImportTypeOK
<1>6. AnsweredOK'
  BY <1>4, AnsweredStays DEF ImportInv, Reporting, Rowing
<1>7. Alone'
  BY <1>4, AloneStays DEF ImportInv, Rowing
<1>8. DoneOK(r)'
  <2>1. batch[b].rows \in Seq(FileRows) /\ Len(batch[b].rows) \in Nat
    BY LenProperties DEF ImportInv, ImportTypeOK, BatchRows
  <2>2. ASSUME NEW i \in 1..n PROVE Landed(b, i)' \/ i \in q.errs
    <3>1. CASE i = n
      BY <3>1 DEF Landed
    <3>2. CASE i # n
      <4>1. i \in 1..n - 1 /\ i \in 1..Len(batch[b].rows)
        BY <3>2, <2>1, <1>1
      <4>2. Landed(b, i) \/ i \in run[r].errs
        BY <4>1 DEF ImportInv, DoneOK
      <4> QED BY <4>1, <4>2, LandedStays DEF ImportInv
    <3> QED BY <3>1, <3>2, SMTT(40)
  <2>3. run'[r].i = n + 1 /\ run'[r].batch = b /\ run'[r].errs = q.errs /\ run'[r].pc = "row"
    BY <1>4
  <2> QED BY <2>1, <2>2, <2>3, <1>1 DEF DoneOK, Rowing, Reporting
<1>9. KnownOK(r)'
  BY <1>4 DEF KindOf
<1>10. ASSUME NEW s \in Runs \ {r} PROVE DoneOK(s)' /\ (Rowing(s)' => KnownOK(s)')
  <2>1. run'[s] = run[s]
    BY <1>4
  <2>2. Rowing(s) /\ KindOf(s) = "OPENING_BALANCE" /\ "overlap" \notin slips => balance' = balance
    BY DEF ImportInv, Alone
  <2> QED BY <2>1, <2>2, OthersStay DEF ImportInv
<1> QED BY <1>5, <1>6, <1>7, <1>8, <1>9, <1>10 DEF ImportInv

LEMMA TurnFacts ==
    ASSUME ImportInv, NEW r \in Runs, NEW kind, Turn(r, kind)
    PROVE  /\ Rowing(r) /\ KnownOK(r) /\ KindOf(r) = kind
           /\ \E b \in Batches, n \in Nat \ {0} :
                 /\ b = run[r].batch /\ n = run[r].i /\ n <= Len(batch[b].rows)
                 /\ Now(r) = batch[b].rows[n] /\ Now(r) \in FileRows /\ batch[b].kind = kind
                 /\ n \in 1..Len(batch[b].rows)
<1>1. Rowing(r) /\ KindOf(r) = kind /\ run[r].i <= Len(batch[run[r].batch].rows)
  BY DEF Turn, Rowing
<1>2. run[r].batch \in Batches /\ run[r].i \in Nat \ {0}
  BY <1>1, RowFacts DEF ImportInv
<1>3. batch[run[r].batch].rows \in Seq(FileRows)
  BY <1>2 DEF ImportInv, ImportTypeOK, BatchRows
<1>4. run[r].i \in 1..Len(batch[run[r].batch].rows)
  BY <1>1, <1>2, <1>3, LenProperties
<1>5. Now(r) \in FileRows
  BY <1>3, <1>4, ElementOfSeq DEF Now
<1> QED BY <1>1, <1>2, <1>4, <1>5 DEF ImportInv, KindOf, Now

LEMMA VendorRowOK ==
    ASSUME ImportInv, NEW r \in Runs, VendorRow(r)
    PROVE  ImportInv'
<1> DEFINE kn == run[r].known
<1>1. Turn(r, "VENDOR")
  BY DEF VendorRow
<1>2. PICK b \in Batches, n \in Nat \ {0} :
          /\ b = run[r].batch /\ n = run[r].i /\ n <= Len(batch[b].rows)
          /\ Now(r) = batch[b].rows[n] /\ Now(r) \in FileRows /\ batch[b].kind = "VENDOR"
  BY <1>1, TurnFacts
<1> DEFINE name == Now(r).name
<1>3. Rowing(r) /\ KnownOK(r) /\ KindOf(r) = "VENDOR" /\ name \in Names
  BY <1>1, <1>2, TurnFacts DEF FileRows
<1>4. UNCHANGED <<batch, customer, parts, balance, budget, slips>>
  BY DEF VendorRow
<1>5. PICK known : /\ After(r, known, {}) /\ suppliers' \in [Names -> Nat]
                   /\ suppliers'[name] > 0
                   /\ \A m \in Names : suppliers[m] > 0 => suppliers'[m] > 0
                   /\ \A m \in known \intersect Names : suppliers'[m] > 0
  <2>0. suppliers \in [Names -> Nat]
    BY DEF ImportInv, ImportTypeOK
  <2>1. CASE name \in kn
    <3>1. After(r, kn, {}) /\ suppliers' = suppliers
      BY <2>1 DEF VendorRow, Skip
    <3>2. \A m \in kn \intersect Names : suppliers[m] > 0
      BY <1>3 DEF KnownOK
    <3> QED BY <2>0, <2>1, <3>1, <3>2, <1>3
  <2>2. CASE name \notin kn
    <3>1. After(r, kn \union {name}, {}) /\ suppliers' = [suppliers EXCEPT ![name] = @ + 1]
      BY <2>2 DEF VendorRow
    <3>2. \A m \in kn \intersect Names : suppliers[m] > 0
      BY <1>3 DEF KnownOK
    <3>3. /\ suppliers' \in [Names -> Nat] /\ suppliers'[name] > 0
          /\ \A m \in Names : suppliers[m] > 0 => suppliers'[m] > 0
      BY <2>0, <3>1, <1>3
    <3> QED BY <3>1, <3>2, <3>3
  <2> QED BY <2>1, <2>2
<1>6. Grows
  BY <1>4, <1>5, SMTT(40) DEF Grows
<1>7. Landed(b, n)'
  BY <1>2, <1>4, <1>5 DEF Landed
<1>8. KindOf(r)' = KindOf(r) /\ run'[r].known = known => KnownOK(r)'
  BY <1>3, <1>5 DEF KnownOK
<1>9. OneOpeningBalance'
  BY <1>4 DEF ImportInv, OneOpeningBalance
<1> QED BY <1>2, <1>3, <1>4, <1>5, <1>6, <1>7, <1>8, <1>9, RowStep DEF ImportInv, ImportTypeOK

LEMMA ItemRowOK ==
    ASSUME ImportInv, NEW r \in Runs, ItemRow(r)
    PROVE  ImportInv'
<1> DEFINE kn == run[r].known
<1>1. Turn(r, "ITEM")
  BY DEF ItemRow
<1>2. PICK b \in Batches, n \in Nat \ {0} :
          /\ b = run[r].batch /\ n = run[r].i /\ n <= Len(batch[b].rows)
          /\ Now(r) = batch[b].rows[n] /\ Now(r) \in FileRows /\ batch[b].kind = "ITEM"
  BY <1>1, TurnFacts
<1> DEFINE name == Now(r).name
<1>3. Rowing(r) /\ KnownOK(r) /\ KindOf(r) = "ITEM" /\ name \in Names
  BY <1>1, <1>2, TurnFacts DEF FileRows
<1>4. UNCHANGED <<batch, customer, suppliers, balance, budget, slips>>
  BY DEF ItemRow
<1>5. PICK known, errs : /\ After(r, known, errs) /\ errs \in {{}, {n}}
                         /\ parts \subseteq parts' /\ parts' \subseteq Names
                         /\ known \subseteq parts'
                         /\ name \in parts' \/ n \in errs
  <2>0. parts \subseteq Names /\ kn \subseteq parts
    BY <1>3 DEF ImportInv, ImportTypeOK, KnownOK
  <2>1. CASE name \in kn
    <3>1. After(r, kn, {}) /\ parts' = parts
      BY <2>1, <2>0 DEF ItemRow, Skip
    <3> QED BY <2>0, <2>1, <3>1
  <2>2. CASE name \in parts \ kn
    <3>1. After(r, kn, {n}) /\ parts' = parts
      BY <1>2, <2>2, <2>0 DEF ItemRow, Refuse
    <3> QED BY <2>0, <2>2, <3>1
  <2>3. CASE name \notin parts \union kn
    <3>1. After(r, kn \union {name}, {}) /\ parts' = parts \union {name}
      BY <2>3, <2>0 DEF ItemRow
    <3> QED BY <2>0, <1>3, <3>1
  <2> QED BY <2>1, <2>2, <2>3
<1>6. Grows
  BY <1>4, <1>5 DEF Grows
<1>7. Landed(b, n)' \/ n \in errs
  BY <1>2, <1>4, <1>5 DEF Landed
<1>8. KindOf(r)' = KindOf(r) /\ run'[r].known = known => KnownOK(r)'
  BY <1>3, <1>5 DEF KnownOK
<1>9. OneOpeningBalance'
  BY <1>4 DEF ImportInv, OneOpeningBalance
<1> QED BY <1>2, <1>3, <1>4, <1>5, <1>6, <1>7, <1>8, <1>9, RowStep, SMTT(40) DEF ImportInv, ImportTypeOK

LEMMA CustomerRowOK ==
    ASSUME ImportInv, NEW r \in Runs, CustomerRow(r)
    PROVE  ImportInv'
<1>0. PICK kn : kn = run[r].known
  OBVIOUS
<1>1. Turn(r, "CUSTOMER")
  BY DEF CustomerRow
<1>2. PICK b \in Batches, n \in Nat \ {0} :
          /\ b = run[r].batch /\ n = run[r].i /\ n <= Len(batch[b].rows)
          /\ Now(r) = batch[b].rows[n] /\ Now(r) \in FileRows /\ batch[b].kind = "CUSTOMER"
  BY <1>1, TurnFacts
<1>3. Rowing(r) /\ KnownOK(r) /\ KindOf(r) = "CUSTOMER"
  BY <1>1, TurnFacts
<1>4. UNCHANGED <<batch, suppliers, parts, balance, budget, slips>>
  BY DEF CustomerRow
<1>a. PICK row, d : row \in FileRows /\ row = Now(r) /\ row = batch[b].rows[n] /\ d = Dialled[row.phone]
  BY <1>2
<1> DEFINE Is(c, name, m) == customer[c].name = name /\ Dialled[customer[c].phone] = m
<1>5. \A m \in DOMAIN kn : "edited" \in slips \/ \E c \in Live : Is(c, kn[m], m)
  BY <1>0, <1>3, SMTT(40) DEF KnownOK
<1>6. PICK known, errs :
          /\ After(r, known, errs) /\ errs \in {{}, {n}}
          /\ customer' \in [Customers -> CustomerRows]
          /\ \A c \in Live : customer'[c] = customer[c]
          /\ known = [m \in DOMAIN known |-> known[m]]
          /\ \A m \in DOMAIN known : "edited" \in slips \/ (\E c \in Live : Is(c, known[m], m))'
          /\ n \in errs \/ "edited" \in slips \/ (\E c \in Live : Is(c, row.name, d))'
  <2>0. customer \in [Customers -> CustomerRows] /\ kn = [m \in DOMAIN kn |-> kn[m]]
    BY <1>0, <1>3 DEF ImportInv, ImportTypeOK, KnownOK
  <2>1. CASE d \in DOMAIN kn
    <3>1. UNCHANGED customer /\ IF kn[d] = row.name THEN Skip(r) ELSE Refuse(r)
      BY <1>0, <1>a, <2>1 DEF CustomerRow
    <3>2. PICK errs : After(r, kn, errs) /\ errs \in {{}, {n}} /\ (kn[d] = row.name \/ n \in errs)
      BY <1>0, <1>2, <3>1 DEF Skip, Refuse
    <3>3. \A m \in DOMAIN kn : "edited" \in slips \/ (\E c \in Live : Is(c, kn[m], m))'
      BY <3>1, <1>5 DEF Live
    <3> QED BY <2>0, <2>1, <3>1, <3>2, <3>3 DEF Live
  <2>2. CASE d \notin DOMAIN kn /\ UNCHANGED customer /\ Refuse(r)
    <3>1. After(r, kn, {n})
      BY <1>0, <1>2, <2>2 DEF Refuse
    <3>2. \A m \in DOMAIN kn : "edited" \in slips \/ (\E c \in Live : Is(c, kn[m], m))'
      BY <2>2, <1>5 DEF Live
    <3> QED BY <2>0, <2>2, <3>1, <3>2
  <2>3. CASE /\ d \notin DOMAIN kn
             /\ \E c \in Customers \ Live : customer' = [customer EXCEPT ![c] = row]
             /\ After(r, [m \in DOMAIN kn \union {d} |-> IF m = d THEN row.name ELSE kn[m]], {})
    <3>1. PICK c \in Customers \ Live : customer' = [customer EXCEPT ![c] = row]
      BY <2>3
    <3>a. PICK known : known = [m \in DOMAIN kn \union {d} |-> IF m = d THEN row.name ELSE kn[m]]
      OBVIOUS
    <3>2. row \in CustomerRows /\ row # None
      BY <1>a, ImportsAssumption DEF FileRows, CustomerRows
    <3>3. /\ customer' \in [Customers -> CustomerRows] /\ customer'[c] = row
          /\ \A e \in Live : customer'[e] = customer[e] /\ e # c
      BY <2>0, <3>1, <3>2 DEF Live
    <3>4. (\E e \in Live : Is(e, row.name, d))'
      BY <1>a, <3>2, <3>3 DEF Live
    <3>5. ASSUME NEW m \in DOMAIN known
          PROVE  "edited" \in slips \/ (\E e \in Live : Is(e, known[m], m))'
      <4>1. CASE m = d
        BY <3>a, <4>1, <3>4
      <4>2. CASE m # d
        <5>1. m \in DOMAIN kn /\ known[m] = kn[m]
          BY <3>a, <4>2
        <5>2. CASE "edited" \notin slips
          <6>1. PICK e \in Live : Is(e, kn[m], m)
            BY <1>5, <5>1, <5>2
          <6>2. e \in Live' /\ customer'[e] = customer[e]
            BY <3>3 DEF Live
          <6> QED BY <5>1, <6>1, <6>2
        <5> QED BY <5>2
      <4> QED BY <4>1, <4>2
    <3>6. known = [m \in DOMAIN known |-> known[m]]
      BY <3>a
    <3>7. After(r, known, {})
      BY <2>3, <3>a
    <3> QED BY <3>3, <3>4, <3>5, <3>6, <3>7
  <2> QED BY <1>0, <1>a, <2>1, <2>2, <2>3, ZenonT(60) DEF CustomerRow
<1>7. Grows
  BY <1>4, <1>6 DEF Grows
<1>8. Landed(b, n)' \/ n \in errs
  <2>1. batch'[b].rows[n] = row /\ batch'[b].kind = "CUSTOMER" /\ slips' = slips
    BY <1>2, <1>a, <1>4
  <2>2. \/ n \in errs \/ "edited" \in slips'
        \/ (\E c \in Live : /\ customer[c].name = batch[b].rows[n].name
                           /\ Dialled[customer[c].phone] = Dialled[batch[b].rows[n].phone])'
    BY <1>6, <2>1, <1>a
  <2> QED BY <2>1, <2>2 DEF Landed
<1>9. KindOf(r)' = KindOf(r) /\ run'[r].known = known => KnownOK(r)'
  BY <1>3, <1>4, <1>6 DEF KnownOK
<1>10. OneOpeningBalance'
  BY <1>4 DEF ImportInv, OneOpeningBalance
<1>11. /\ suppliers' \in [Names -> Nat] /\ parts' \in SUBSET Names
       /\ balance' = balance /\ balance' \in [Customers -> SUBSET (Batches \X Nat)]
  BY <1>4 DEF ImportInv, ImportTypeOK
<1>12. After(r, known, errs) /\ errs \in {{}, {n}} /\ customer' \in [Customers -> CustomerRows]
  BY <1>6
<1> QED BY <1>2, <1>3, <1>4, <1>7, <1>8, <1>9, <1>10, <1>11, <1>12, RowStep

\* The entry goes to the one customer of that name who had none when the table was
\* loaded, and has none still, for no other commit of balances is under way.
LEMMA BalanceRowOK ==
    ASSUME ImportInv, NEW r \in Runs, BalanceRow(r)
    PROVE  ImportInv'
<1> DEFINE kn == run[r].known
<1>1. Turn(r, "OPENING_BALANCE")
  BY DEF BalanceRow
<1>2. PICK b \in Batches, n \in Nat \ {0} :
          /\ b = run[r].batch /\ n = run[r].i /\ n <= Len(batch[b].rows)
          /\ Now(r) = batch[b].rows[n] /\ Now(r) \in FileRows
          /\ batch[b].kind = "OPENING_BALANCE"
  BY <1>1, TurnFacts
<1>3. Rowing(r) /\ KnownOK(r) /\ KindOf(r) = "OPENING_BALANCE"
  BY <1>1, TurnFacts
<1>4. UNCHANGED <<batch, customer, suppliers, parts, budget, slips>>
  BY SMTT(40) DEF BalanceRow
<1> DEFINE its == run[r].named[Now(r).name]
<1>5. its \in SUBSET Customers /\ balance \in [Customers -> SUBSET (Batches \X Nat)]
  BY <1>2, <1>3, RowFacts DEF ImportInv, ImportTypeOK, FileRows
<1>6. PICK known, errs :
          /\ After(r, known, errs) /\ errs \in {{}, {n}}
          /\ balance' \in [Customers -> SUBSET (Batches \X Nat)]
          /\ \A c \in Customers : balance[c] \subseteq balance'[c]
          /\ n \in errs \/ \E c \in Customers : <<b, n>> \in balance'[c]
          /\ "overlap" \notin slips => /\ known = {c \in Customers : balance'[c] # {}}
                                       /\ \A c \in Customers : \A x, y \in balance'[c] : x = y
  <2>0. "overlap" \notin slips => /\ kn = {c \in Customers : balance[c] # {}}
                                  /\ \A c \in Customers : \A x, y \in balance[c] : x = y
    BY <1>3 DEF KnownOK, ImportInv, OneOpeningBalance
  <2>1. CASE Cardinality(its) # 1 \/ its \subseteq kn
    <3>1. After(r, kn, {n}) /\ balance' = balance
      BY <1>2, <2>1 DEF BalanceRow, Refuse
    <3> QED BY <1>5, <2>0, <3>1, SMTT(40)
  <2>2. CASE Cardinality(its) = 1 /\ ~(its \subseteq kn)
    <3>1. PICK c : its = {c}
      <4>1. IsFiniteSet(its)
        BY <1>5, ImportsAssumption, FS_Subset
      <4> QED BY <4>1, <2>2, FS_Singleton
    <3>2. c \in Customers /\ c \notin kn
      BY <1>5, <2>2, <3>1, SMTT(40)
    <3>3. /\ After(r, kn \union {c}, {})
          /\ balance' = [balance EXCEPT ![c] = @ \union {<<b, n>>}]
      BY <1>2, <2>2, <3>1 DEF BalanceRow
    <3>4. /\ balance' \in [Customers -> SUBSET (Batches \X Nat)]
          /\ balance'[c] = balance[c] \union {<<b, n>>}
          /\ \A e \in Customers : e # c => balance'[e] = balance[e]
      BY <1>5, <3>2, <3>3
    <3>5. "overlap" \notin slips => balance'[c] = {<<b, n>>}
      BY <2>0, <3>2, <3>4
    <3>6. "overlap" \notin slips => kn \union {c} = {e \in Customers : balance'[e] # {}}
      <4> SUFFICES ASSUME "overlap" \notin slips
                   PROVE  kn \union {c} = {e \in Customers : balance'[e] # {}}
        OBVIOUS
      <4>1. \A e \in Customers : e \in kn <=> balance[e] # {}
        BY <2>0
      <4>2. \A e \in Customers : e \in kn \union {c} <=> balance'[e] # {}
        BY <4>1, <3>4, <3>5
      <4> QED BY <4>2, <2>0, <3>2
    <3>7. "overlap" \notin slips => \A e \in Customers : \A x, y \in balance'[e] : x = y
      BY <2>0, <3>4, <3>5
    <3> QED BY <3>2, <3>3, <3>4, <3>6, <3>7
  <2> QED BY <2>1, <2>2
<1>7. Grows
  BY <1>4, <1>6 DEF Grows
<1>8. Landed(b, n)' \/ n \in errs
  BY <1>2, <1>4, <1>6 DEF Landed
<1>9. KindOf(r)' = KindOf(r) /\ run'[r].known = known => KnownOK(r)'
  BY <1>3, <1>4, <1>6 DEF KnownOK
<1>10. OneOpeningBalance'
  BY <1>4, <1>6 DEF OneOpeningBalance
<1>11. /\ suppliers' \in [Names -> Nat] /\ parts' \in SUBSET Names
       /\ customer' \in [Customers -> CustomerRows]
  BY <1>4 DEF ImportInv, ImportTypeOK
<1>12. After(r, known, errs) /\ errs \in {{}, {n}}
       /\ balance' \in [Customers -> SUBSET (Batches \X Nat)]
  BY <1>6
<1> QED BY <1>2, <1>3, <1>4, <1>7, <1>8, <1>9, <1>10, <1>11, <1>12, RowStep

LEMMA ImportInit == Init => ImportInv
<1> SUFFICES ASSUME Init PROVE ImportInv
  OBVIOUS
<1>1. PICK s \in Scenarios :
          /\ batch = [b \in Batches |-> [kind |-> s.file[b].kind, rows |-> s.file[b].rows,
                                         status |-> "none", errors |-> {}]]
          /\ customer = s.customer
  BY DEF Init
<1>2. /\ s.file \in [Batches -> [kind : Kinds, rows : Seq(FileRows)]]
      /\ s.customer \in [Customers -> CustomerRows]
  BY ImportsAssumption DEF FileRows
<1>3. batch \in [Batches -> BatchRows]
  BY <1>1, <1>2 DEF BatchRows
<1>4. ImportTypeOK /\ \A r \in Runs : run[r] = Idle
  BY <1>1, <1>2, <1>3 DEF Init, ImportTypeOK, RunTypeOK
<1>5. \A r \in Runs : ~Rowing(r) /\ ~Reporting(r)
  BY <1>4 DEF Idle, Rowing, Reporting
<1>6. AnsweredOK
  BY <1>1 DEF AnsweredOK
<1>7. OneOpeningBalance
  BY DEF Init, OneOpeningBalance
<1> QED BY <1>4, <1>5, <1>6, <1>7 DEF ImportInv, Alone, DoneOK

LEMMA ImportStep == ImportInv /\ [Next]_vars => ImportInv'
<1> SUFFICES ASSUME ImportInv, [Next]_vars PROVE ImportInv'
  OBVIOUS
<1>1. CASE UNCHANGED vars
  <2>1. UNCHANGED <<batch, customer, suppliers, parts, balance, run, slips>>
    BY <1>1 DEF vars, tables
  <2>2. Grows
    BY <2>1 DEF Grows
  <2>3. ImportTypeOK' /\ OneOpeningBalance'
    BY <2>1 DEF ImportInv, ImportTypeOK, OneOpeningBalance
  <2>4. Alone' /\ AnsweredOK'
    BY <2>1, <2>2, AloneStays, AnsweredStays DEF ImportInv, Rowing
  <2>5. ASSUME NEW s \in Runs PROVE DoneOK(s)' /\ (Rowing(s)' => KnownOK(s)')
    BY <2>1, <2>2, OthersStay DEF ImportInv
  <2> QED BY <2>3, <2>4, <2>5 DEF ImportInv
<1>2. CASE \E b \in Batches : Preview(b)
  BY <1>2, PreviewOK
<1>3. ASSUME NEW r \in Runs, NEW b \in Batches, CommitRead(r, b) \/ DiscardRead(r, b)
      PROVE  ImportInv'
  BY <1>3, CommitReadOK
<1>4. ASSUME NEW r \in Runs, Load(r) PROVE ImportInv'
  BY <1>4, LoadOK
<1>5. ASSUME NEW r \in Runs, CustomerRow(r) \/ VendorRow(r) \/ ItemRow(r) \/ BalanceRow(r)
      PROVE  ImportInv'
  BY <1>5, CustomerRowOK, VendorRowOK, ItemRowOK, BalanceRowOK
<1>6. ASSUME NEW r \in Runs, Committed(r) \/ Report(r) \/ Discard(r) \/ Kill(r)
      PROVE  ImportInv'
  BY <1>6, CommittedOK, ReportOK, DiscardOK, KillOK
<1>7. CASE \E c \in Customers, row \in [name: Names, phone: Phones] : Edit(c, row)
  BY <1>7, EditOK DEF FileRows
<1> QED BY <1>1, <1>2, <1>3, <1>4, <1>5, <1>6, <1>7 DEF Next

-----------------------------------------------------------------------------
(* The books.                                                              *)

\* A posting dated t, and the sum of its rows.
Entry(type, id, t, f) == [type |-> type, id |-> id, at |-> t, rows |-> Rows(f)]

Net(r) == r["AR"] + r["CASH"] + r["INVENTORY"] + r["VAT_INPUT"] + r["AP"] + r["VAT_PAYABLE"]
              + r["DEPOSITS"] + r["SALES"] + r["COGS"] + r["EXPENSES"]
              + r["OPENING_BALANCE_EQUITY"]

\* The one posting of this type and id, or none.
Single(type, id, f) == \E t \in 0..now : Of(type, id) = {Entry(type, id, t, f)}
Silent(type, id)    == Of(type, id) = {}

BalancedRows == {r \in [Accounts -> Int] : Net(r) = 0}

OwnTypes  == {"INVOICE", "INVOICE_VOID", "INVOICE_COGS", "INVOICE_COGS_ADJUSTMENT"}
ForInvoices  == {"INVOICE", "INVOICE_VOID"}
Receivable == ForInvoices \union {"PAYMENT", "ADVANCE_MIGRATION"}

\* Every posting balances, is dated, and points at what it was written for.
PostingOK(e) ==
    /\ e.at \in 0..now /\ e.rows \in BalancedRows /\ e.type # "OPENING_BALANCE"
    /\ e.rows["VAT_PAYABLE"] # 0 => e.type \in ForInvoices
    /\ e.rows["AR"] # 0 => e.type \in Receivable
    /\ e.type \in OwnTypes => e.id \in Issued
    /\ e.type = "PAYMENT" => \E i \in Issued : \E p \in inv[i].pays : e.id = p.id
    /\ e.type \in {"ADVANCE", "ADVANCE_MIGRATION"} => e.id \in Advs
    /\ e.type = "ADVANCE" => advance[e.id].job # None
    /\ e.type = "ADVANCE_MIGRATION" => advance[e.id].inv \in Issued

\* An advance: its posting, and the one that migrated it.
AdvanceOK(a) ==
    /\ advance[a].amount \in Nat
    /\ advance[a].job = None => advance[a].inv = None /\ Silent("ADVANCE", a)
    /\ advance[a].job # None => Single("ADVANCE", a, advanceLedger(advance[a].amount))
    /\ advance[a].inv = None => Silent("ADVANCE_MIGRATION", a)
    /\ advance[a].inv # None =>
          /\ advance[a].inv \in Issued
          /\ Single("ADVANCE_MIGRATION", a, advanceMigrationLedger(advance[a].amount))

\* The payments of an invoice: numbered ones, with a posting each, and the advances
\* that were migrated to it.
Numbered(i, p) ==
    /\ p.id[2] \in 0..Cardinality(inv[i].pays) - 1
    /\ Single("PAYMENT", p.id, paymentLedger(p.amount))
Migrated(i, p) ==
    /\ p.id[2] \in Advs /\ Silent("PAYMENT", p.id)
    /\ advance[p.id[2]].inv = i /\ advance[p.id[2]].amount = p.amount

PaysOK(i) ==
    /\ IsFiniteSet(inv[i].pays)
    /\ \A p, q \in inv[i].pays : p.id = q.id => p = q
    /\ \A p \in inv[i].pays : /\ p.amount \in Nat /\ p.id = <<i, p.id[2]>>
                              /\ Numbered(i, p) \/ Migrated(i, p)
    /\ \A a \in Advs : advance[a].inv = i => \E p \in inv[i].pays : p.id = <<i, a>>

\* The rows of the sale are there once, of the amount the invoice has.
SaleOK(i) == Silent("INVOICE", i) \/ Single("INVOICE", i, invoiceLedger(inv[i].sub))
CostOK(i) == Silent("INVOICE_COGS", i) \/ Single("INVOICE_COGS", i, cogsLedger(PartsCost))

\* A void mirrors what was posted, and what does not follow a void has no mirror.
VoidOK(i) ==
    IF inv[i].status = "VOID"
    THEN /\ ~Silent("INVOICE", i)
         /\ Single("INVOICE_VOID", i, voidReversalLedger(inv[i].sub))
         /\ IF Silent("INVOICE_COGS", i) THEN Silent("INVOICE_COGS_ADJUSTMENT", i)
            ELSE Single("INVOICE_COGS_ADJUSTMENT", i, Minus(cogsLedger(PartsCost)))
    ELSE /\ Silent("INVOICE_VOID", i) /\ Silent("INVOICE_COGS_ADJUSTMENT", i)
         /\ flipped \/ (Silent("INVOICE_COGS", i) <=> ~garage.cogs \/ inv[i].cost \in {0, None})

InvoiceOK(i) ==
    /\ inv[i].sub \in Nat /\ inv[i].cost \in Costs /\ inv[i].emirate \in Emirates \union {None}
    /\ SaleOK(i) /\ CostOK(i) /\ PaysOK(i)
    /\ i \in ghosts \/ VoidOK(i)

BooksInv ==
    /\ now \in 0..LastPeriod /\ IsFiniteSet(ledger)
    /\ inv = [i \in Invs |-> inv[i]] /\ advance = [a \in Advs |-> advance[a]]
    /\ paper = [d \in Papers |-> paper[d]] /\ \A d \in Papers : paper[d].sub \in Nat
    /\ garage = [cogs |-> garage.cogs, emirate |-> garage.emirate]
    /\ garage.cogs \in BOOLEAN /\ garage.emirate \in Emirates \union {None}
    /\ \A e \in ledger : PostingOK(e)
    /\ \A i \in Issued : InvoiceOK(i)
    /\ \A a \in Advs : AdvanceOK(a)
    /\ \A c \in Customers : IsFiniteSet(balance[c])

LEMMA AccountsAre ==
    Accounts = {"AR", "CASH", "INVENTORY", "VAT_INPUT", "AP", "VAT_PAYABLE", "DEPOSITS", "SALES",
                "COGS", "EXPENSES", "OPENING_BALANCE_EQUITY"}
BY DEF Accounts, AccountType

LEMMA VatIsNat == \A n \in Nat : VatOn(n) \in Nat
BY DEF VatOn

\* The rows of each kind of posting balance.
LEMMA InvoiceRows ==
    ASSUME NEW n \in Nat
    PROVE  LET r == Rows(invoiceLedger(n)) IN
           /\ r \in BalancedRows
           /\ r["AR"] = n + VatOn(n) /\ r["COGS"] = 0 /\ r["DEPOSITS"] = 0
<1>1. VatOn(n) \in Nat
  BY VatIsNat
<1> HIDE DEF VatOn
<1> QED BY <1>1, AccountsAre DEF Rows, invoiceLedger, BalancedRows, Net

\* What takes rows back.
LEMMA MinusRows ==
    ASSUME NEW f, \A a \in DOMAIN f : f[a] \in Int, Rows(f) \in BalancedRows
    PROVE  Rows(Minus(f)) \in BalancedRows /\ \A a \in Accounts : Rows(Minus(f))[a] = -Rows(f)[a]
<1> DEFINE r == Rows(f)  m == Rows(Minus(f))
<1>1. \A a \in Accounts : m[a] = -r[a]
  BY DEF Rows, Minus
<1>2. r \in [Accounts -> Int] /\ Net(r) = 0
  BY DEF BalancedRows
<1>3. m = [a \in Accounts |-> m[a]]
  BY DEF Rows
<1> HIDE DEF r, m
<1>4. m \in [Accounts -> Int]
  BY <1>1, <1>2, <1>3
<1>5. Net(m) = 0
  BY <1>1, <1>2, AccountsAre DEF Net
<1> QED BY <1>1, <1>4, <1>5 DEF r, m, BalancedRows

LEMMA VoidRows ==
    ASSUME NEW n \in Nat
    PROVE  LET r == Rows(voidReversalLedger(n)) IN
           /\ r \in BalancedRows
           /\ r["AR"] = -(n + VatOn(n)) /\ r["COGS"] = 0 /\ r["DEPOSITS"] = 0
           /\ \A a \in Accounts : r[a] = -Rows(invoiceLedger(n))[a]
<1>1. VatOn(n) \in Nat
  BY VatIsNat
<1>2. \A a \in DOMAIN invoiceLedger(n) : invoiceLedger(n)[a] \in Int
  <2> HIDE DEF VatOn
  <2> QED BY <1>1 DEF invoiceLedger
<1> QED BY <1>2, InvoiceRows, MinusRows, AccountsAre DEF voidReversalLedger

LEMMA PaymentRows ==
    ASSUME NEW n \in Int
    PROVE  LET r == Rows(paymentLedger(n)) IN
           /\ r \in BalancedRows
           /\ r["AR"] = -n /\ r["VAT_PAYABLE"] = 0
BY AccountsAre DEF Rows, paymentLedger, BalancedRows, Net

LEMMA AdvanceRows ==
    ASSUME NEW n \in Int
    PROVE  LET r == Rows(advanceLedger(n)) IN
           /\ r \in BalancedRows
           /\ r["AR"] = 0 /\ r["VAT_PAYABLE"] = 0 /\ r["DEPOSITS"] = -n
BY AccountsAre DEF Rows, advanceLedger, BalancedRows, Net

LEMMA MigrationRows ==
    ASSUME NEW n \in Int
    PROVE  LET r == Rows(advanceMigrationLedger(n)) IN
           /\ r \in BalancedRows
           /\ r["AR"] = -n /\ r["VAT_PAYABLE"] = 0 /\ r["DEPOSITS"] = n
BY AccountsAre DEF Rows, advanceMigrationLedger, BalancedRows, Net

LEMMA CostRows ==
    ASSUME NEW n \in Int
    PROVE  LET r == Rows(cogsLedger(n))  m == Rows(Minus(cogsLedger(n))) IN
           /\ r \in BalancedRows /\ m \in BalancedRows
           /\ r["AR"] = 0 /\ r["VAT_PAYABLE"] = 0 /\ r["COGS"] = n
           /\ m["AR"] = 0 /\ m["VAT_PAYABLE"] = 0 /\ m["COGS"] = -n
           /\ \A a \in Accounts : m[a] = -r[a]
<1>1. LET r == Rows(cogsLedger(n)) IN
      r \in BalancedRows /\ r["AR"] = 0 /\ r["VAT_PAYABLE"] = 0 /\ r["COGS"] = n
  BY AccountsAre DEF Rows, cogsLedger, BalancedRows, Net
<1>2. \A a \in DOMAIN cogsLedger(n) : cogsLedger(n)[a] \in Int
  BY DEF cogsLedger
<1> QED BY <1>1, <1>2, MinusRows, AccountsAre

LEMMA PaperRowsAre ==
    ASSUME NEW n \in Nat, NEW kind
    PROVE  LET r == Rows(PaperRows(kind, n))  m == Rows(Minus(PaperRows(kind, n))) IN
           /\ r \in BalancedRows /\ m \in BalancedRows
           /\ r["AR"] = 0 /\ r["VAT_PAYABLE"] = 0
           /\ m["AR"] = 0 /\ m["VAT_PAYABLE"] = 0
<1>1. VatOn(n) \in Nat
  BY VatIsNat
<1> HIDE DEF VatOn
<1>2. LET r == Rows(PaperRows(kind, n)) IN
      r \in BalancedRows /\ r["AR"] = 0 /\ r["VAT_PAYABLE"] = 0
  <2>1. CASE kind = "EXPENSE"
    BY <1>1, <2>1, AccountsAre DEF Rows, PaperRows, BalancedRows, Net
  <2>2. CASE kind # "EXPENSE"
    BY <1>1, <2>2, AccountsAre DEF Rows, PaperRows, BalancedRows, Net
  <2> QED BY <2>1, <2>2
<1>3. \A a \in DOMAIN PaperRows(kind, n) : PaperRows(kind, n)[a] \in Int
  BY <1>1 DEF PaperRows
<1> QED BY <1>2, <1>3, MinusRows, AccountsAre

LEMMA OpeningRows ==
    LET r == Rows([AR |-> Opening, OPENING_BALANCE_EQUITY |-> -Opening]) IN
    /\ r \in BalancedRows
    /\ \A a \in {"SALES", "COGS", "EXPENSES", "VAT_PAYABLE", "VAT_INPUT"} : r[a] = 0
<1>1. Opening \in Nat
  BY BooksAssumption
<1> QED BY <1>1, AccountsAre DEF Rows, BalancedRows, Net

-----------------------------------------------------------------------------
(* Balances.                                                               *)

Rowed(es) == IsFiniteSet(es) /\ \A e \in es : e.rows \in [Accounts -> Int]

\* A balance is a sum over its postings, whatever larger set the rows are taken from.
LEMMA BalanceIs ==
    ASSUME NEW a \in Accounts, NEW all, Rowed(all), NEW es \in SUBSET all
    PROVE  /\ IsFiniteSet(es)
           /\ Balance(a, es) = SumFunctionOnSet([e \in all |-> e.rows[a]], es)
<1> DEFINE f == [e \in es |-> e.rows[a]]
           g == [e \in all |-> e.rows[a]]
<1>1. IsFiniteSet(es)
  BY FS_Subset DEF Rowed
<1>2. Balance(a, es) = SumFunctionOnSet(f, es)
  BY DEF Balance, SumFunction
<1>3. \A e \in es : f[e] = g[e]
  OBVIOUS
<1> HIDE DEF f, g
<1>4. SumFunctionOnSet(f, es) = SumFunctionOnSet(g, es)
  BY <1>1, <1>3, SumsAgree
<1> QED BY <1>1, <1>2, <1>4 DEF g

LEMMA RowedPart ==
    ASSUME NEW all, Rowed(all), NEW es \in SUBSET all
    PROVE  Rowed(es)
BY FS_Subset DEF Rowed

LEMMA RowsAreInt ==
    ASSUME NEW a \in Accounts, NEW all, Rowed(all)
    PROVE  \A e \in all : [d \in all |-> d.rows[a]][e] = e.rows[a] /\ e.rows[a] \in Int
BY DEF Rowed

LEMMA BalanceIsInt ==
    ASSUME NEW a \in Accounts, NEW es, Rowed(es)
    PROVE  Balance(a, es) \in Int
<1> DEFINE f == [e \in es |-> e.rows[a]]
<1>1. Balance(a, es) = SumFunctionOnSet(f, es) /\ IsFiniteSet(es)
  BY BalanceIs
<1>2. \A e \in es : f[e] \in Int
  BY DEF Rowed
<1> HIDE DEF f
<1> QED BY <1>1, <1>2, SumIsInt

LEMMA BalanceOfNone == \A a \in Accounts : Balance(a, {}) = 0
<1> TAKE a \in Accounts
<1>1. Rowed({})
  BY FS_EmptySet DEF Rowed
<1> QED BY <1>1, BalanceIs, SumOfNone

LEMMA BalanceOfOne ==
    ASSUME NEW a \in Accounts, NEW e, e.rows \in [Accounts -> Int]
    PROVE  Balance(a, {e}) = e.rows[a]
<1> DEFINE f == [d \in {e} |-> d.rows[a]]
<1>1. Rowed({e})
  BY FS_Singleton DEF Rowed
<1>2. Balance(a, {e}) = SumFunctionOnSet(f, {e})
  BY <1>1, BalanceIs
<1>3. f[e] = e.rows[a] /\ f[e] \in Int
  OBVIOUS
<1> HIDE DEF f
<1> QED BY <1>2, <1>3, SumOfOne

LEMMA BalanceOfUnion ==
    ASSUME NEW a \in Accounts, NEW es, NEW ds, Rowed(es), Rowed(ds), es \intersect ds = {}
    PROVE  Rowed(es \union ds) /\ Balance(a, es \union ds) = Balance(a, es) + Balance(a, ds)
<1> DEFINE all == es \union ds
           f == [e \in all |-> e.rows[a]]
<1>1. Rowed(all)
  BY FS_Union DEF Rowed
<1>2. es \in SUBSET all /\ ds \in SUBSET all /\ all \in SUBSET all /\ all = es \union ds
  OBVIOUS
<1>3. \A e \in all : f[e] \in Int
  BY <1>1, RowsAreInt
<1>4. IsFiniteSet(es) /\ IsFiniteSet(ds)
  BY DEF Rowed
<1> HIDE DEF all
<1>5. /\ Balance(a, es) = SumFunctionOnSet(f, es) /\ Balance(a, ds) = SumFunctionOnSet(f, ds)
      /\ Balance(a, all) = SumFunctionOnSet(f, all)
  BY <1>1, <1>2, BalanceIs
<1> HIDE DEF f
<1>6. SumFunctionOnSet(f, es \union ds) = SumFunctionOnSet(f, es) + SumFunctionOnSet(f, ds)
  BY <1>2, <1>3, <1>4, SumOfUnion
<1> QED BY <1>1, <1>2, <1>5, <1>6

LEMMA BalanceOfPart ==
    ASSUME NEW a \in Accounts, NEW all, Rowed(all), NEW es \in SUBSET all,
           \A e \in all \ es : e.rows[a] = 0
    PROVE  Balance(a, all) = Balance(a, es)
<1> DEFINE f == [e \in all |-> e.rows[a]]
<1>1. (\A e \in all : f[e] \in Int) /\ \A e \in all \ es : f[e] = 0
  BY RowsAreInt
<1>2. Balance(a, all) = SumFunctionOnSet(f, all) /\ Balance(a, es) = SumFunctionOnSet(f, es)
  BY BalanceIs
<1>3. IsFiniteSet(all)
  BY DEF Rowed
<1> HIDE DEF f
<1> QED BY <1>1, <1>2, <1>3, SumOfPart

\* A balance, class by class.
LEMMA BalanceByClass ==
    ASSUME NEW a \in Accounts, NEW es, Rowed(es), NEW K, IsFiniteSet(K),
           NEW part, \A k \in K : part[k] \subseteq es,
           \A e \in es : \E k \in K : e \in part[k],
           \A j, k \in K : j # k => part[j] \intersect part[k] = {},
           NEW g, \A k \in K : g[k] = Balance(a, part[k])
    PROVE  Balance(a, es) = SumFunctionOnSet(g, K)
<1> DEFINE f == [e \in es |-> e.rows[a]]
<1>1. (\A e \in es : f[e] \in Int) /\ IsFiniteSet(es)
  BY RowsAreInt DEF Rowed
<1>2. Balance(a, es) = SumFunctionOnSet(f, es)
  BY BalanceIs
<1>3. \A k \in K : g[k] = SumFunctionOnSet(f, part[k])
  BY BalanceIs
<1> HIDE DEF f
<1>4. SumFunctionOnSet(f, es) = SumFunctionOnSet(g, K)
  BY <1>1, <1>3, SumByClass
<1> QED BY <1>2, <1>4

\* If every posting balances, all accounts together do.
NetOf(es) == Balance("AR", es) + Balance("CASH", es) + Balance("INVENTORY", es)
    + Balance("VAT_INPUT", es) + Balance("AP", es) + Balance("VAT_PAYABLE", es)
    + Balance("DEPOSITS", es) + Balance("SALES", es) + Balance("COGS", es)
    + Balance("EXPENSES", es) + Balance("OPENING_BALANCE_EQUITY", es)

LEMMA BalanceWithout ==
    ASSUME NEW a \in Accounts, NEW es, Rowed(es), NEW e \in es
    PROVE  Balance(a, es) = e.rows[a] + Balance(a, es \ {e})
<1> DEFINE ds == es \ {e}
<1>1. Rowed({e}) /\ Rowed(ds)
  <2>1. {e} \in SUBSET es /\ ds \in SUBSET es
    OBVIOUS
  <2> QED BY <2>1, RowedPart
<1>2. {e} \intersect ds = {} /\ {e} \union ds = es
  OBVIOUS
<1>3. e.rows \in [Accounts -> Int]
  BY DEF Rowed
<1> HIDE DEF ds
<1>4. Balance(a, {e} \union ds) = Balance(a, {e}) + Balance(a, ds)
  BY <1>1, <1>2, BalanceOfUnion
<1>5. Balance(a, {e}) = e.rows[a]
  BY <1>3, BalanceOfOne
<1> QED BY <1>2, <1>4, <1>5 DEF ds

LEMMA NetIsZero ==
    ASSUME NEW es, Rowed(es), \A e \in es : Net(e.rows) = 0
    PROVE  NetOf(es) = 0
<1> DEFINE T == {t \in SUBSET es : NetOf(t) # 0}
<1> SUFFICES ASSUME T # {} PROVE FALSE
  OBVIOUS
<1>1. PICK t \in T : \A u \in T : u \subseteq t => u = t
  <2> HIDE DEF T
  <2>1. T \subseteq SUBSET es /\ IsFiniteSet(es) BY DEF T, Rowed
  <2> QED BY <2>1, SmallestSubset
<1>2. Rowed(t) /\ t \in SUBSET es
  BY RowedPart
<1>3. CASE t = {}
  <2>1. NetOf({}) = 0
    BY BalanceOfNone, AccountsAre DEF NetOf
  <2> QED BY <1>3, <2>1
<1>4. ASSUME NEW e \in t PROVE FALSE
  <2> DEFINE u == t \ {e}
  <2>1. u \in SUBSET es /\ u # t /\ u \subseteq t
    BY <1>2
  <2>2. Rowed(u)
    BY <2>1, RowedPart
  <2>3. NetOf(u) = 0
    BY <1>1, <2>1
  <2> HIDE DEF T
  <2>4. \A a \in Accounts : Balance(a, t) = e.rows[a] + Balance(a, u)
    BY <1>2, BalanceWithout
  <2> HIDE DEF u
  <2>5. \A a \in Accounts : Balance(a, u) \in Int /\ e.rows[a] \in Int
    BY <1>2, <2>2, BalanceIsInt DEF Rowed
  <2>6. Net(e.rows) = 0
    BY <1>2
  <2>7. NetOf(t) = Net(e.rows) + NetOf(u)
    BY <2>4, <2>5, AccountsAre DEF NetOf, Net
  <2>8. NetOf(t) = 0
    BY <2>3, <2>6, <2>7
  <2> QED BY <2>8 DEF T
<1> QED BY <1>3, <1>4

-----------------------------------------------------------------------------
(* What the invariant says of the reports.                                 *)

LEMMA LedgerRowed == ASSUME BooksInv PROVE Rowed(ledger)
BY DEF BooksInv, Rowed, PostingOK, BalancedRows

LEMMA OfRowed == ASSUME BooksInv, NEW type, NEW id PROVE Rowed(Of(type, id))
<1>1. Of(type, id) \in SUBSET ledger
  BY DEF Of
<1> QED BY <1>1, LedgerRowed, RowedPart

LEMMA SingleBalance ==
    ASSUME NEW a \in Accounts, NEW type, NEW id, NEW f, Rows(f) \in BalancedRows,
           Single(type, id, f)
    PROVE  Balance(a, Of(type, id)) = Rows(f)[a]
<1>1. PICK t \in 0..now : Of(type, id) = {Entry(type, id, t, f)}
  BY DEF Single
<1> DEFINE e == Entry(type, id, t, f)
<1>2. e.rows = Rows(f)
  BY DEF Entry
<1>3. e.rows \in [Accounts -> Int]
  BY <1>2 DEF BalancedRows
<1> HIDE DEF e
<1>4. Balance(a, {e}) = e.rows[a]
  BY <1>3, BalanceOfOne
<1> QED BY <1>1, <1>2, <1>4 DEF e

LEMMA SilentBalance ==
    ASSUME NEW a \in Accounts, NEW type, NEW id, Silent(type, id)
    PROVE  Balance(a, Of(type, id)) = 0
BY BalanceOfNone DEF Silent

\* The four sorts of posting of an invoice have nothing in common.
LEMMA ItsBalance ==
    ASSUME BooksInv, NEW a \in Accounts, NEW i
    PROVE  Balance(a, UNION {Of(t, i) : t \in OwnTypes})
              = Balance(a, Of("INVOICE", i)) + Balance(a, Of("INVOICE_VOID", i))
                + Balance(a, Of("INVOICE_COGS", i)) + Balance(a, Of("INVOICE_COGS_ADJUSTMENT", i))
<1> DEFINE A == Of("INVOICE", i)
           B == Of("INVOICE_VOID", i)
           C == Of("INVOICE_COGS", i)
           D == Of("INVOICE_COGS_ADJUSTMENT", i)
<1>1. UNION {Of(t, i) : t \in OwnTypes} = ((A \union B) \union C) \union D
  BY DEF OwnTypes
<1>2. /\ A \intersect B = {} /\ (A \union B) \intersect C = {}
      /\ ((A \union B) \union C) \intersect D = {}
  BY DEF Of
<1>3. Rowed(A) /\ Rowed(B) /\ Rowed(C) /\ Rowed(D)
  BY OfRowed
<1> HIDE DEF A, B, C, D
<1>4. Rowed(A \union B) /\ Balance(a, A \union B) = Balance(a, A) + Balance(a, B)
  BY <1>2, <1>3, BalanceOfUnion
<1>5. /\ Rowed((A \union B) \union C)
      /\ Balance(a, (A \union B) \union C) = Balance(a, A \union B) + Balance(a, C)
  BY <1>2, <1>3, <1>4, BalanceOfUnion
<1>6. Balance(a, ((A \union B) \union C) \union D) = Balance(a, (A \union B) \union C) + Balance(a, D)
  BY <1>2, <1>3, <1>5, BalanceOfUnion
<1> QED BY <1>1, <1>4, <1>5, <1>6 DEF A, B, C, D

LEMMA VoidSuffices == BooksInv => VoidUndoesSale
<1> SUFFICES ASSUME BooksInv, NEW i \in Issued \ ghosts
             PROVE  LET its == UNION {Of(t, i) : t \in OwnTypes}
                    IN IF inv[i].status = "VOID" THEN \A a \in Accounts : Balance(a, its) = 0
                       ELSE flipped \/ Balance("COGS", its) =
                           IF garage.cogs /\ inv[i].cost # None THEN inv[i].cost ELSE 0
  BY DEF VoidUndoesSale, OwnTypes
<1> DEFINE its == UNION {Of(t, i) : t \in OwnTypes}
<1>0. /\ inv[i].sub \in Nat /\ inv[i].cost \in Costs /\ VoidOK(i) /\ SaleOK(i) /\ CostOK(i)
      /\ PartsCost \in Nat \ {0} /\ "COGS" \in Accounts
  BY BooksAssumption, AccountsAre DEF BooksInv, InvoiceOK
<1> DEFINE sub == inv[i].sub
<1>1. /\ Rows(invoiceLedger(sub)) \in BalancedRows
      /\ Rows(voidReversalLedger(sub)) \in BalancedRows
      /\ Rows(cogsLedger(PartsCost)) \in BalancedRows
      /\ Rows(Minus(cogsLedger(PartsCost))) \in BalancedRows
  BY <1>0, InvoiceRows, VoidRows, CostRows
<1>2. \A a \in Accounts :
          Balance(a, its) = Balance(a, Of("INVOICE", i)) + Balance(a, Of("INVOICE_VOID", i))
                + Balance(a, Of("INVOICE_COGS", i)) + Balance(a, Of("INVOICE_COGS_ADJUSTMENT", i))
  BY ItsBalance
<1> HIDE DEF its
<1>3. CASE inv[i].status = "VOID"
  <2> SUFFICES ASSUME NEW a \in Accounts PROVE Balance(a, its) = 0
    BY <1>3 DEF its
  <2>1. Single("INVOICE", i, invoiceLedger(sub)) /\ Single("INVOICE_VOID", i, voidReversalLedger(sub))
    BY <1>0, <1>3 DEF VoidOK, SaleOK
  <2>2. /\ Balance(a, Of("INVOICE", i)) = Rows(invoiceLedger(sub))[a]
        /\ Balance(a, Of("INVOICE_VOID", i)) = Rows(voidReversalLedger(sub))[a]
    BY <1>1, <2>1, SingleBalance
  <2>3. Rows(voidReversalLedger(sub))[a] = -Rows(invoiceLedger(sub))[a]
        /\ Rows(invoiceLedger(sub))[a] \in Int
    BY <1>0, <1>1, VoidRows DEF BalancedRows
  <2>4. CASE Silent("INVOICE_COGS", i)
    <3>1. Silent("INVOICE_COGS_ADJUSTMENT", i)
      BY <1>0, <1>3, <2>4 DEF VoidOK
    <3>2. Balance(a, Of("INVOICE_COGS", i)) = 0 /\ Balance(a, Of("INVOICE_COGS_ADJUSTMENT", i)) = 0
      BY <2>4, <3>1, SilentBalance
    <3> HIDE DEF sub
    <3> QED BY <1>2, <2>2, <2>3, <3>2
  <2>5. CASE ~Silent("INVOICE_COGS", i)
    <3>1. /\ Single("INVOICE_COGS_ADJUSTMENT", i, Minus(cogsLedger(PartsCost)))
          /\ Single("INVOICE_COGS", i, cogsLedger(PartsCost))
      BY <1>0, <1>3, <2>5 DEF VoidOK, CostOK
    <3>2. /\ Balance(a, Of("INVOICE_COGS", i)) = Rows(cogsLedger(PartsCost))[a]
          /\ Balance(a, Of("INVOICE_COGS_ADJUSTMENT", i)) = Rows(Minus(cogsLedger(PartsCost)))[a]
      BY <1>1, <3>1, SingleBalance
    <3>3. Rows(Minus(cogsLedger(PartsCost)))[a] = -Rows(cogsLedger(PartsCost))[a]
          /\ Rows(cogsLedger(PartsCost))[a] \in Int
      BY <1>0, <1>1, CostRows DEF BalancedRows
    <3> HIDE DEF sub
    <3> QED BY <1>2, <2>2, <2>3, <3>2, <3>3
  <2> QED BY <2>4, <2>5
<1>4. CASE inv[i].status # "VOID"
  <2> SUFFICES ASSUME ~flipped
               PROVE  Balance("COGS", its) =
                          IF garage.cogs /\ inv[i].cost # None THEN inv[i].cost ELSE 0
    BY <1>4 DEF its
  <2>1. /\ Silent("INVOICE_VOID", i) /\ Silent("INVOICE_COGS_ADJUSTMENT", i)
        /\ Silent("INVOICE_COGS", i) <=> ~garage.cogs \/ inv[i].cost \in {0, None}
    BY <1>0, <1>4 DEF VoidOK
  <2>2. Balance("COGS", Of("INVOICE_VOID", i)) = 0
        /\ Balance("COGS", Of("INVOICE_COGS_ADJUSTMENT", i)) = 0
    BY <1>0, <2>1, SilentBalance
  <2>3. Balance("COGS", Of("INVOICE", i)) = 0
    BY <1>0, <1>1, SingleBalance, SilentBalance, InvoiceRows DEF SaleOK
  <2>4. CASE Silent("INVOICE_COGS", i)
    <3>1. Balance("COGS", Of("INVOICE_COGS", i)) = 0
      BY <1>0, <2>4, SilentBalance
    <3> QED BY <1>0, <1>2, <2>1, <2>2, <2>3, <2>4, <3>1
  <2>5. CASE ~Silent("INVOICE_COGS", i)
    <3>1. Single("INVOICE_COGS", i, cogsLedger(PartsCost))
      BY <1>0, <2>5 DEF CostOK
    <3>2. Balance("COGS", Of("INVOICE_COGS", i)) = PartsCost
      BY <1>0, <1>1, <3>1, SingleBalance, CostRows
    <3> QED BY <1>0, <1>2, <2>1, <2>2, <2>3, <2>5, <3>2 DEF Costs
  <2> QED BY <2>4, <2>5
<1> QED BY <1>3, <1>4 DEF its

-----------------------------------------------------------------------------
(* What an invoice owes.                                                   *)

Settled(i) ==
    (UNION {Of("PAYMENT", p.id) : p \in inv[i].pays})
        \union (UNION {Of("ADVANCE_MIGRATION", a) : a \in {b \in Advs : advance[b].inv = i}})

\* The posting of a payment.
ItsPostings(p) ==
    IF p.id[2] \in Advs THEN Of("ADVANCE_MIGRATION", p.id[2]) ELSE Of("PAYMENT", p.id)

Settles(p, e) ==
    /\ e \in ledger /\ ItsPostings(p) = {e} /\ e.rows["AR"] = -p.amount
    /\ e.type = IF p.id[2] \in Advs THEN "ADVANCE_MIGRATION" ELSE "PAYMENT"
    /\ e.id = IF p.id[2] \in Advs THEN p.id[2] ELSE p.id

LEMMA InSettled ==
    ASSUME NEW i, NEW e
    PROVE  e \in Settled(i) <=> \/ \E p \in inv[i].pays : e \in Of("PAYMENT", p.id)
                               \/ \E a \in Advs : /\ advance[a].inv = i
                                                 /\ e \in Of("ADVANCE_MIGRATION", a)
<1>1. e \in UNION {Of("PAYMENT", p.id) : p \in inv[i].pays}
         <=> \E p \in inv[i].pays : e \in Of("PAYMENT", p.id)
  OBVIOUS
<1>2. e \in UNION {Of("ADVANCE_MIGRATION", a) : a \in {b \in Advs : advance[b].inv = i}}
         <=> \E a \in Advs : advance[a].inv = i /\ e \in Of("ADVANCE_MIGRATION", a)
  OBVIOUS
<1> DEFINE A == UNION {Of("PAYMENT", p.id) : p \in inv[i].pays}
           B == UNION {Of("ADVANCE_MIGRATION", a) : a \in {b \in Advs : advance[b].inv = i}}
<1>3. Settled(i) = A \union B
  BY DEF Settled
<1>4. (e \in A \union B) <=> (e \in A \/ e \in B)
  OBVIOUS
<1> QED BY <1>1, <1>2, <1>3, <1>4, Zenon

LEMMA ItsPosting ==
    ASSUME BooksInv, NEW i \in Issued, NEW p \in inv[i].pays
    PROVE  \E e : Settles(p, e)
<1>1. PaysOK(i) /\ i \in Invs
  BY DEF BooksInv, InvoiceOK, Issued
<1>2. p.amount \in Nat /\ (Numbered(i, p) \/ Migrated(i, p))
  BY <1>1 DEF PaysOK
<1>3. CASE Numbered(i, p)
  <2>1. p.id[2] \notin Advs
    <3>1. IsFiniteSet(inv[i].pays)
      BY <1>1 DEF PaysOK
    <3>2. Cardinality(inv[i].pays) \in Nat
      BY <3>1, FS_CardinalityType
    <3> QED BY <1>3, <3>2, BooksAssumption DEF Numbered
  <2>2. PICK t \in 0..now : Of("PAYMENT", p.id) = {Entry("PAYMENT", p.id, t, paymentLedger(p.amount))}
    BY <1>3 DEF Numbered, Single
  <2> DEFINE e == Entry("PAYMENT", p.id, t, paymentLedger(p.amount))
  <2>3. e.rows["AR"] = -p.amount /\ e.type = "PAYMENT" /\ e.id = p.id
    BY <1>2, PaymentRows DEF Entry
  <2>4. e \in ledger
    BY <2>2 DEF Of
  <2> QED BY <2>1, <2>2, <2>3, <2>4 DEF ItsPostings, Settles
<1>4. CASE Migrated(i, p)
  <2> DEFINE a == p.id[2]
  <2>1. a \in Advs /\ advance[a].inv = i /\ advance[a].amount = p.amount /\ AdvanceOK(a)
    BY <1>4 DEF Migrated, BooksInv
  <2>2. i # None
    BY <1>1, BooksAssumption
  <2>3. Single("ADVANCE_MIGRATION", a, advanceMigrationLedger(p.amount))
    BY <2>1, <2>2 DEF AdvanceOK
  <2>4. PICK t \in 0..now : Of("ADVANCE_MIGRATION", a)
            = {Entry("ADVANCE_MIGRATION", a, t, advanceMigrationLedger(p.amount))}
    BY <2>3 DEF Single
  <2> DEFINE e == Entry("ADVANCE_MIGRATION", a, t, advanceMigrationLedger(p.amount))
  <2>5. e.rows["AR"] = -p.amount /\ e.type = "ADVANCE_MIGRATION" /\ e.id = a
    BY <1>2, MigrationRows DEF Entry
  <2>6. e \in ledger
    BY <2>4 DEF Of
  <2> QED BY <2>1, <2>4, <2>5, <2>6 DEF ItsPostings, Settles
<1> QED BY <1>2, <1>3, <1>4

LEMMA SettledBalance ==
    ASSUME BooksInv, NEW i \in Issued
    PROVE  Settled(i) \subseteq ledger /\ Paid(i) \in Int /\ Balance("AR", Settled(i)) = -Paid(i)
<1> DEFINE pays == inv[i].pays
           g == [p \in pays |-> CHOOSE e : Settles(p, e)]
           f == [e \in ledger |-> e.rows["AR"]]
           n == [p \in pays |-> p.amount]
           h == [p \in pays |-> -p.amount]
<1>1. PaysOK(i) /\ i \in Invs /\ "AR" \in Accounts /\ Rowed(ledger)
  BY LedgerRowed, AccountsAre, SMTT(40) DEF BooksInv, InvoiceOK, Issued
<1>2. ASSUME NEW p \in pays
      PROVE  /\ g[p] \in ledger /\ ItsPostings(p) = {g[p]} /\ g[p].rows["AR"] = -p.amount
             /\ g[p].type = IF p.id[2] \in Advs THEN "ADVANCE_MIGRATION" ELSE "PAYMENT"
             /\ g[p].id = IF p.id[2] \in Advs THEN p.id[2] ELSE p.id
  <2>1. Settles(p, g[p])
    BY ItsPosting
  <2> QED BY <2>1 DEF Settles
<1> HIDE DEF g
<1>3. ASSUME NEW p \in pays, NEW q \in pays, g[p] = g[q]
      PROVE  p = q
  <2>1. p.id = <<i, p.id[2]>> /\ q.id = <<i, q.id[2]>> /\ (p.id = q.id => p = q)
    BY <1>1 DEF PaysOK
  <2> QED BY <1>2, <1>3, <2>1
<1>4. Settled(i) = {g[p] : p \in pays}
  <2>1. ASSUME NEW e \in Settled(i) PROVE e \in {g[p] : p \in pays}
    <3>1. CASE \E p \in pays : e \in Of("PAYMENT", p.id)
      <4>1. PICK p \in pays : e \in Of("PAYMENT", p.id)
        BY <3>1
      <4>2. e.type = "PAYMENT" /\ ~Silent("PAYMENT", p.id)
        BY <4>1 DEF Of, Silent
      <4>3. p.id[2] \notin Advs
        <5>1. IsFiniteSet(pays) /\ Numbered(i, p)
          BY <1>1, <4>2 DEF PaysOK, Migrated
        <5>2. Cardinality(pays) \in Nat
          BY <5>1, FS_CardinalityType
        <5> QED BY <5>1, <5>2, BooksAssumption DEF Numbered
      <4> QED BY <1>2, <4>1, <4>3 DEF ItsPostings
    <3>2. CASE \E a \in Advs : advance[a].inv = i /\ e \in Of("ADVANCE_MIGRATION", a)
      <4>1. PICK a \in Advs : advance[a].inv = i /\ e \in Of("ADVANCE_MIGRATION", a)
        BY <3>2
      <4>2. PICK p \in pays : p.id = <<i, a>>
        BY <1>1, <4>1 DEF PaysOK
      <4> QED BY <1>2, <4>1, <4>2 DEF ItsPostings
    <3> QED BY <3>1, <3>2, InSettled
  <2>2. ASSUME NEW p \in pays PROVE g[p] \in Settled(i)
    <3>1. g[p] \in ItsPostings(p)
      BY <1>2
    <3>2. CASE p.id[2] \in Advs
      <4>1. IsFiniteSet(pays) /\ (Numbered(i, p) \/ Migrated(i, p))
        BY <1>1 DEF PaysOK
      <4>2. Cardinality(pays) \in Nat
        BY <4>1, FS_CardinalityType
      <4>3. advance[p.id[2]].inv = i
        BY <3>2, <4>1, <4>2, BooksAssumption DEF Numbered, Migrated
      <4> QED BY <3>1, <3>2, <4>3, InSettled DEF ItsPostings
    <3>3. CASE p.id[2] \notin Advs
      BY <3>1, <3>3, InSettled DEF ItsPostings
    <3> QED BY <3>2, <3>3
  <2> QED BY <2>1, <2>2
<1>5. Settled(i) \in SUBSET ledger
  BY <1>2, <1>4
<1>6. Balance("AR", Settled(i)) = SumFunctionOnSet(f, Settled(i))
  BY <1>1, <1>5, BalanceIs
<1>7. IsFiniteSet(pays) /\ \A p \in pays : p.amount \in Nat
  BY <1>1 DEF PaysOK
<1>8. \A p \in pays : f[g[p]] \in Int /\ h[p] = f[g[p]] /\ n[p] \in Int /\ h[p] = -n[p]
  BY <1>2, <1>7
<1>9. Paid(i) = SumFunctionOnSet(n, pays)
  BY DEF Paid, SumFunction
<1> HIDE DEF f, h, n, pays
<1>10. SumFunctionOnSet(f, {g[p] : p \in pays}) = SumFunctionOnSet(h, pays)
  BY <1>3, <1>7, <1>8, SumOfImage
<1>11. SumFunctionOnSet(h, pays) = -SumFunctionOnSet(n, pays) /\ SumFunctionOnSet(n, pays) \in Int
  BY <1>7, <1>8, SumOfMinus, SumIsInt
<1> QED BY <1>4, <1>5, <1>6, <1>9, <1>10, <1>11

LEMMA PerInvoiceIs ==
    ASSUME BooksInv, NEW i \in Issued
    PROVE  /\ PerInvoice(i) = Balance("AR", Of("INVOICE", i)) + Balance("AR", Of("INVOICE_VOID", i))
                                 - Paid(i)
           /\ Balance("AR", Of("INVOICE", i)) \in Int /\ Balance("AR", Of("INVOICE_VOID", i)) \in Int
<1> DEFINE A == Of("INVOICE", i)
           B == Of("INVOICE_VOID", i)
           C == Settled(i)
<1>1. Rowed(A) /\ Rowed(B) /\ Rowed(C) /\ "AR" \in Accounts
  BY OfRowed, LedgerRowed, SettledBalance, RowedPart, AccountsAre
<1>2. A \intersect B = {} /\ (A \union B) \intersect C = {}
  <2>1. \A e \in C : e.type \in {"PAYMENT", "ADVANCE_MIGRATION"}
    BY InSettled DEF Of
  <2> QED BY <2>1 DEF Of
<1>3. PerInvoice(i) = Balance("AR", (A \union B) \union C)
  <2>1. (A \union B) \union C = A \union B \union (UNION {Of("PAYMENT", p.id) : p \in inv[i].pays})
           \union (UNION {Of("ADVANCE_MIGRATION", a) : a \in {b \in Advs : advance[b].inv = i}})
    BY DEF Settled
  <2> QED BY <2>1 DEF PerInvoice
<1>4. Balance("AR", C) = -Paid(i) /\ Paid(i) \in Int
  BY SettledBalance
<1> HIDE DEF A, B, C
<1>5. Rowed(A \union B) /\ Balance("AR", A \union B) = Balance("AR", A) + Balance("AR", B)
  BY <1>1, <1>2, BalanceOfUnion
<1>6. Balance("AR", (A \union B) \union C) = Balance("AR", A \union B) + Balance("AR", C)
  BY <1>1, <1>2, <1>5, BalanceOfUnion
<1>7. Balance("AR", A) \in Int /\ Balance("AR", B) \in Int
  BY <1>1, BalanceIsInt
<1> QED BY <1>3, <1>4, <1>5, <1>6, <1>7 DEF A, B

LEMMA StandingBalance ==
    ASSUME BooksInv, NEW i \in Standing
    PROVE  /\ PerInvoice(i) = (IF Silent("INVOICE", i) THEN 0 ELSE Total(i)) - Paid(i)
           /\ Total(i) \in Nat /\ Paid(i) \in Int
<1>1. /\ i \in Issued /\ inv[i].sub \in Nat /\ SaleOK(i) /\ Silent("INVOICE_VOID", i)
      /\ "AR" \in Accounts
  BY AccountsAre DEF Standing, BooksInv, InvoiceOK, VoidOK
<1>2. Total(i) \in Nat /\ Paid(i) \in Int
  BY <1>1, VatIsNat, SettledBalance DEF Total
<1>3. Balance("AR", Of("INVOICE_VOID", i)) = 0
  BY <1>1, SilentBalance
<1>4. Balance("AR", Of("INVOICE", i)) = IF Silent("INVOICE", i) THEN 0 ELSE Total(i)
  <2>1. CASE Silent("INVOICE", i)
    BY <1>1, <2>1, SilentBalance
  <2>2. CASE ~Silent("INVOICE", i)
    <3>1. Single("INVOICE", i, invoiceLedger(inv[i].sub))
      BY <1>1, <2>2 DEF SaleOK
    <3>2. LET r == Rows(invoiceLedger(inv[i].sub)) IN r \in BalancedRows /\ r["AR"] = Total(i)
      BY <1>1, InvoiceRows DEF Total
    <3> QED BY <1>1, <2>2, <3>1, <3>2, SingleBalance
  <2> QED BY <2>1, <2>2
<1> QED BY <1>1, <1>2, <1>3, <1>4, PerInvoiceIs

-----------------------------------------------------------------------------
(* Statements of account.                                                  *)

LEMMA InvoicesMatch ==
    ASSUME BooksInv, NEW c,
           LET mine == {i \in Issued : owner[inv[i].job] = c} IN mine \intersect ghosts = {}
    PROVE  LET mine == {i \in Issued : owner[inv[i].job] = c} IN
           CustomerStatement(c).invoicesOutstanding
              = SumFunction([i \in mine \intersect Standing |-> PerInvoice(i)])
                + SumFunction([i \in mine \intersect Unposted |-> Total(i)])
<1> DEFINE mine == {i \in Issued : owner[inv[i].job] = c}
           S == {i \in Issued : owner[inv[i].job] = c /\ inv[i].status # "VOID"}
           U == mine \intersect Unposted
           d == [i \in S |-> Total(i) - Paid(i)]
           g == [i \in S |-> PerInvoice(i)]
           h == [i \in S |-> IF Silent("INVOICE", i) THEN Total(i) ELSE 0]
           u == [i \in U |-> Total(i)]
<1>1. S = mine \intersect Standing
  BY DEF Standing
<1>2. IsFiniteSet(S)
  <2>1. S \subseteq Invs /\ IsFiniteSet(Invs)
    BY BooksAssumption DEF Issued
  <2> QED BY <2>1, FS_Subset
<1>3. U \in SUBSET S
  <2>1. ASSUME NEW i \in U PROVE i \in S
    <3>1. i \in Issued /\ i \notin ghosts /\ Silent("INVOICE", i)
      BY DEF Unposted, Silent
    <3>2. VoidOK(i)
      BY <3>1 DEF BooksInv, InvoiceOK
    <3>3. inv[i].status # "VOID"
      BY <3>1, <3>2 DEF VoidOK
    <3> QED BY <3>3
  <2> QED BY <2>1
<1>4. \A i \in S : Silent("INVOICE", i) <=> i \in U
  BY DEF Unposted, Silent
<1>5. \A i \in S : /\ PerInvoice(i) = (IF Silent("INVOICE", i) THEN 0 ELSE Total(i)) - Paid(i)
                   /\ Total(i) \in Nat /\ Paid(i) \in Int
  BY <1>1, StandingBalance
<1>6. \A i \in S : g[i] \in Int /\ h[i] \in Int /\ d[i] = g[i] + h[i]
  BY <1>5
<1>7. (\A i \in S \ U : h[i] = 0) /\ \A i \in U : h[i] = u[i]
  BY <1>3, <1>4
<1>8. /\ CustomerStatement(c).invoicesOutstanding = SumFunctionOnSet(d, S)
      /\ SumFunction(g) = SumFunctionOnSet(g, S) /\ SumFunction(u) = SumFunctionOnSet(u, U)
  BY DEF CustomerStatement, SumFunction
<1>9. SumFunction([i \in mine \intersect Standing |-> PerInvoice(i)]) = SumFunction(g)
  BY <1>1
<1> HIDE DEF S, U, d, g, h
<1>10. SumFunctionOnSet(d, S) = SumFunctionOnSet(g, S) + SumFunctionOnSet(h, S)
  BY <1>2, <1>6, SumOfSums
<1>11. SumFunctionOnSet(h, S) = SumFunctionOnSet(h, U)
  BY <1>2, <1>3, <1>6, <1>7, SumOfPart
<1>12. SumFunctionOnSet(h, U) = SumFunctionOnSet(u, U)
  <2>1. IsFiniteSet(U)
    BY <1>2, <1>3, FS_Subset
  <2> HIDE DEF u
  <2> QED BY <2>1, <1>7, SumsAgree
<1> QED BY <1>8, <1>9, <1>10, <1>11, <1>12 DEF U

LEMMA AdvancesMatch ==
    ASSUME BooksInv, NEW c
    PROVE  CustomerStatement(c).advancesCredit = -Balance("DEPOSITS",
               {e \in ledger : e.type \in {"ADVANCE", "ADVANCE_MIGRATION"}
                                 /\ owner[advance[e.id].job] = c})
<1> DEFINE E == {e \in ledger : e.type \in {"ADVANCE", "ADVANCE_MIGRATION"}
                                 /\ owner[advance[e.id].job] = c}
           Q == {a \in Advs : advance[a].job # None /\ owner[advance[a].job] = c}
           open == {a \in Advs : advance[a].job # None /\ advance[a].inv = None
                                   /\ owner[advance[a].job] = c}
           part == [a \in Q |-> Of("ADVANCE", a) \union Of("ADVANCE_MIGRATION", a)]
           g == [a \in Q |-> IF advance[a].inv = None THEN -advance[a].amount ELSE 0]
           n == [a \in open |-> advance[a].amount]
<1>1. "DEPOSITS" \in Accounts /\ Rowed(ledger) /\ IsFiniteSet(Advs)
  BY LedgerRowed, AccountsAre, BooksAssumption
<1>2. Rowed(E) /\ IsFiniteSet(Q) /\ open \in SUBSET Q
  <2>1. E \in SUBSET ledger /\ Q \in SUBSET Advs
    OBVIOUS
  <2> QED BY <1>1, <2>1, RowedPart, FS_Subset
<1>3. \A a \in Advs : AdvanceOK(a) /\ advance[a].amount \in Nat
  BY DEF BooksInv, AdvanceOK
<1>4. \A a \in Q : part[a] \subseteq E
  BY DEF Of
<1>5. ASSUME NEW e \in E PROVE \E a \in Q : e \in part[a]
  <2>1. PostingOK(e) /\ e.id \in Advs
    BY DEF BooksInv, PostingOK
  <2>2. advance[e.id].job # None
    <3>1. CASE e.type = "ADVANCE"
      BY <2>1, <3>1 DEF PostingOK
    <3>2. CASE e.type = "ADVANCE_MIGRATION"
      <4>1. advance[e.id].inv \in Invs
        BY <2>1, <3>2 DEF PostingOK, Issued
      <4> QED BY <4>1, <2>1, <1>3, BooksAssumption DEF AdvanceOK
    <3> QED BY <3>1, <3>2
  <2>3. e.id \in Q
    BY <2>1, <2>2
  <2>4. e \in part[e.id]
    BY <2>3 DEF Of
  <2> QED BY <2>3, <2>4
<1>6. \A a, b \in Q : a # b => part[a] \intersect part[b] = {}
  BY DEF Of
<1>7. ASSUME NEW a \in Q PROVE g[a] = Balance("DEPOSITS", part[a])
  <2> DEFINE A == Of("ADVANCE", a)
             B == Of("ADVANCE_MIGRATION", a)
  <2>1. Rowed(A) /\ Rowed(B) /\ A \intersect B = {} /\ part[a] = A \union B
    <3>1. Rowed(A) /\ Rowed(B)
      BY OfRowed
    <3>2. A \intersect B = {}
      BY DEF Of
    <3>3. part[a] = A \union B
      OBVIOUS
    <3> QED BY <3>1, <3>2, <3>3
  <2>2. Balance("DEPOSITS", A) = -advance[a].amount
    <3>1. Single("ADVANCE", a, advanceLedger(advance[a].amount))
      BY <1>3 DEF AdvanceOK
    <3> QED BY <1>1, <1>3, <3>1, SingleBalance, AdvanceRows
  <2>3. Balance("DEPOSITS", B) = IF advance[a].inv = None THEN 0 ELSE advance[a].amount
    <3>1. CASE advance[a].inv = None
      <4>1. Silent("ADVANCE_MIGRATION", a)
        BY <1>3, <3>1 DEF AdvanceOK
      <4> QED BY <1>1, <3>1, <4>1, SilentBalance
    <3>2. CASE advance[a].inv # None
      <4>1. Single("ADVANCE_MIGRATION", a, advanceMigrationLedger(advance[a].amount))
        BY <1>3, <3>2 DEF AdvanceOK
      <4> QED BY <1>1, <1>3, <3>2, <4>1, SingleBalance, MigrationRows
    <3> QED BY <3>1, <3>2
  <2> HIDE DEF A, B, part
  <2>4. Balance("DEPOSITS", A \union B) = Balance("DEPOSITS", A) + Balance("DEPOSITS", B)
    BY <1>1, <2>1, BalanceOfUnion
  <2> QED BY <1>3, <2>1, <2>2, <2>3, <2>4
<1>8. CustomerStatement(c).advancesCredit = SumFunctionOnSet(n, open)
  BY DEF CustomerStatement, SumFunction
<1>9. /\ \A a \in Q : g[a] \in Int
      /\ \A a \in Q \ open : g[a] = 0
      /\ \A a \in open : n[a] \in Int /\ g[a] = -n[a]
  BY <1>3
<1> HIDE DEF E, Q, part, g, n, open
<1>10. Balance("DEPOSITS", E) = SumFunctionOnSet(g, Q)
  BY <1>1, <1>2, <1>4, <1>5, <1>6, <1>7, BalanceByClass
<1>11. SumFunctionOnSet(g, Q) = SumFunctionOnSet(g, open)
  BY <1>2, <1>9, SumOfPart
<1>12. IsFiniteSet(open)
  BY <1>2, FS_Subset
<1>13. SumFunctionOnSet(g, open) = -SumFunctionOnSet(n, open) /\ SumFunctionOnSet(n, open) \in Int
  BY <1>9, <1>12, SumOfMinus, SumIsInt
<1> QED BY <1>8, <1>10, <1>11, <1>13 DEF E

LEMMA StatementsSuffice == BooksInv => StatementsMatchLedger
<1> SUFFICES ASSUME BooksInv PROVE StatementsMatchLedger
  OBVIOUS
<1>1. ASSUME NEW c \in Customers PROVE StatementMatches(c)
  BY InvoicesMatch, AdvancesMatch DEF StatementMatches
<1>2. ASSUME NEW i \in Standing \ Unposted
      PROVE  WhoOwes(i) = UnpaidAging(i) \/ (inv[i].status = "PAID" /\ Total(i) > Paid(i))
  <2>1. ~Silent("INVOICE", i)
    BY DEF Silent, Standing, Unposted
  <2>2. PerInvoice(i) = Total(i) - Paid(i) /\ Total(i) \in Nat /\ Paid(i) \in Int
    BY <2>1, StandingBalance
  <2> QED BY <2>2 DEF WhoOwes, UnpaidAging
<1> QED BY <1>1, <1>2 DEF StatementsMatchLedger

-----------------------------------------------------------------------------
(* The balance sheet and the profit and loss.                              *)

LEMMA OpeningsRowed ==
    ASSUME BooksInv
    PROVE  /\ Rowed(Openings)
           /\ \A e \in Openings : /\ e.type = "OPENING_BALANCE" /\ e.at = 0
                                  /\ e.rows \in BalancedRows
                                  /\ \A a \in {"SALES", "COGS", "EXPENSES", "VAT_PAYABLE", "VAT_INPUT"} :
                                        e.rows[a] = 0
<1> DEFINE pairs == [c \in Customers |-> {c} \X balance[c]]
           D == UNION {{c} \X balance[c] : c \in Customers}
           r == Rows([AR |-> Opening, OPENING_BALANCE_EQUITY |-> -Opening])
           post(d) == [type |-> "OPENING_BALANCE", id |-> d, at |-> 0, rows |-> r]
           o == [d \in D |-> post(d)]
<1>1. IsFiniteSet(D)
  <2> DEFINE X == {{c} \X balance[c] : c \in Customers}
  <2>1. pairs \in Surjection(Customers, X)
    BY DEF Surjection
  <2>2. IsFiniteSet(X)
    <3> HIDE DEF X, pairs
    <3> QED BY <2>1, ImportsAssumption, FS_Surjection
  <2>3. ASSUME NEW x \in X PROVE IsFiniteSet(x)
    <3>1. PICK c \in Customers : x = {c} \X balance[c]
      OBVIOUS
    <3>2. IsFiniteSet({c}) /\ IsFiniteSet(balance[c])
      BY FS_Singleton DEF BooksInv
    <3> QED BY <3>1, <3>2, FS_Product
  <2> HIDE DEF X
  <2>4. IsFiniteSet(UNION X)
    BY <2>2, <2>3, FS_UNION
  <2> QED BY <2>4 DEF X
<1>2. Openings = {post(d) : d \in D}
  BY DEF Openings
<1>3. IsFiniteSet(Openings)
  <2> HIDE DEF D, post
  <2>1. o \in Surjection(D, Openings)
    BY <1>2 DEF Surjection
  <2> HIDE DEF o
  <2> QED BY <1>1, <2>1, FS_Surjection
<1>4. r \in BalancedRows /\ \A a \in {"SALES", "COGS", "EXPENSES", "VAT_PAYABLE", "VAT_INPUT"} : r[a] = 0
  BY OpeningRows
<1> HIDE DEF D, r
<1>5. \A e \in Openings : e.type = "OPENING_BALANCE" /\ e.at = 0 /\ e.rows = r
  BY <1>2
<1> QED BY <1>3, <1>4, <1>5 DEF Rowed, BalancedRows

LEMMA PostedRowed ==
    ASSUME BooksInv
    PROVE  /\ Rowed(Posted) /\ ledger \intersect Openings = {}
           /\ \A e \in Posted : e.at \in 0..now /\ Net(e.rows) = 0
<1>1. Rowed(ledger) /\ Rowed(Openings) /\ now \in 0..LastPeriod
  BY LedgerRowed, OpeningsRowed DEF BooksInv
<1>2. Rowed(Posted)
  BY <1>1, FS_Union DEF Rowed, Posted
<1>3. ASSUME NEW e \in ledger
      PROVE  e.type # "OPENING_BALANCE" /\ e.at \in 0..now /\ Net(e.rows) = 0
  BY DEF BooksInv, PostingOK, BalancedRows
<1>4. ASSUME NEW e \in Openings
      PROVE  e.type = "OPENING_BALANCE" /\ e.at \in 0..now /\ Net(e.rows) = 0
  BY <1>1, OpeningsRowed DEF BalancedRows
<1> QED BY <1>2, <1>3, <1>4 DEF Posted

\* The accounts of a type, one by one.
LEMMA OneMore ==
    ASSUME NEW es, Rowed(es), NEW as \in SUBSET Accounts, IsFiniteSet(as), NEW a \in Accounts \ as
    PROVE  /\ IsFiniteSet(as \union {a}) /\ as \union {a} \in SUBSET Accounts
           /\ BalanceOf(as \union {a}, es) = BalanceOf(as, es) + Balance(a, es)
           /\ BalanceOf(as, es) \in Int
<1> DEFINE more == as \union {a}
           f == [b \in more |-> Balance(b, es)]
           g == [b \in as |-> Balance(b, es)]
<1>1. IsFiniteSet({a}) /\ IsFiniteSet(more) /\ as \intersect {a} = {} /\ more = as \union {a}
  BY FS_Singleton, FS_Union
<1>2. \A b \in more : f[b] \in Int
  BY BalanceIsInt
<1>3. \A b \in as : f[b] = g[b]
  OBVIOUS
<1>4. BalanceOf(more, es) = SumFunctionOnSet(f, more) /\ BalanceOf(as, es) = SumFunctionOnSet(g, as)
  BY DEF BalanceOf, SumFunction
<1>5. f[a] = Balance(a, es)
  OBVIOUS
<1> HIDE DEF f, g, more
<1>6. SumFunctionOnSet(f, more) = SumFunctionOnSet(f, as) + SumFunctionOnSet(f, {a})
  BY <1>1, <1>2, SumOfUnion
<1>7. SumFunctionOnSet(f, as) = SumFunctionOnSet(g, as) /\ SumFunctionOnSet(f, as) \in Int
  BY <1>1, <1>2, <1>3, SumsAgree, SumIsInt
<1>8. SumFunctionOnSet(f, {a}) = f[a]
  BY <1>1, <1>2, SumOfOne
<1> QED BY <1>1, <1>4, <1>5, <1>6, <1>7, <1>8 DEF more

LEMMA NoAccounts == \A es : BalanceOf({}, es) = 0
BY SumOfNone DEF BalanceOf, SumFunction

LEMMA ByType ==
    ASSUME NEW es, Rowed(es)
    PROVE  /\ BalanceOf(OfType("ASSET"), es) = Balance("AR", es) + Balance("CASH", es)
                  + Balance("INVENTORY", es) + Balance("VAT_INPUT", es)
           /\ BalanceOf(OfType("LIABILITY"), es) = Balance("AP", es) + Balance("VAT_PAYABLE", es)
                  + Balance("DEPOSITS", es)
           /\ BalanceOf(OfType("REVENUE"), es) = Balance("SALES", es)
           /\ BalanceOf(OfType("EXPENSE"), es) = Balance("COGS", es) + Balance("EXPENSES", es)
           /\ BalanceOf(OfType("EXPENSE") \ {"COGS"}, es) = Balance("EXPENSES", es)
           /\ BalanceOf(OfType("EQUITY"), es) = Balance("OPENING_BALANCE_EQUITY", es)
           /\ \A a \in Accounts : Balance(a, es) \in Int
<1>0. \A a \in Accounts : Balance(a, es) \in Int
  BY BalanceIsInt
<1> DEFINE B(a) == Balance(a, es)
           O(as) == BalanceOf(as, es)
<1>1. IsFiniteSet({}) /\ {} \in SUBSET Accounts /\ O({}) = 0
  BY FS_EmptySet, NoAccounts
<1>2. \A as \in SUBSET Accounts : \A a \in Accounts \ as : IsFiniteSet(as) =>
          IsFiniteSet(as \union {a}) /\ as \union {a} \in SUBSET Accounts /\ O(as \union {a}) = O(as) + B(a)
  BY OneMore
<1>3. /\ OfType("ASSET") = {"AR", "CASH", "INVENTORY", "VAT_INPUT"}
      /\ OfType("LIABILITY") = {"AP", "VAT_PAYABLE", "DEPOSITS"}
      /\ OfType("REVENUE") = {"SALES"} /\ OfType("EXPENSE") = {"COGS", "EXPENSES"}
      /\ OfType("EXPENSE") \ {"COGS"} = {"EXPENSES"}
      /\ OfType("EQUITY") = {"OPENING_BALANCE_EQUITY"}
  BY AccountsAre DEF OfType, AccountType
<1> HIDE DEF B, O
<1>4. \A a \in Accounts : IsFiniteSet({a}) /\ {a} \in SUBSET Accounts /\ O({a}) = B(a)
  <2> TAKE a \in Accounts
  <2>1. {} \union {a} = {a} /\ a \in Accounts \ {} /\ B(a) \in Int
    BY <1>0 DEF B
  <2>2. IsFiniteSet({} \union {a}) /\ O({} \union {a}) = O({}) + B(a)
    BY <1>1, <1>2, <2>1
  <2> QED BY <1>1, <2>1, <2>2
<1>5. \A a, b \in Accounts : a # b =>
          IsFiniteSet({a, b}) /\ {a, b} \in SUBSET Accounts /\ O({a, b}) = B(a) + B(b)
  <2> SUFFICES ASSUME NEW a \in Accounts, NEW b \in Accounts, a # b
               PROVE  IsFiniteSet({a, b}) /\ {a, b} \in SUBSET Accounts /\ O({a, b}) = B(a) + B(b)
    OBVIOUS
  <2>1. {a} \union {b} = {a, b} /\ b \in Accounts \ {a}
    OBVIOUS
  <2>2. IsFiniteSet({a}) /\ {a} \in SUBSET Accounts /\ O({a}) = B(a)
    BY <1>4
  <2>3. IsFiniteSet({a} \union {b}) /\ O({a} \union {b}) = O({a}) + B(b)
    BY <1>2, <2>1, <2>2
  <2> QED BY <2>1, <2>2, <2>3
<1>6. \A a, b, c \in Accounts : a # b /\ a # c /\ b # c =>
          IsFiniteSet({a, b, c}) /\ {a, b, c} \in SUBSET Accounts /\ O({a, b, c}) = B(a) + B(b) + B(c)
  <2> SUFFICES ASSUME NEW a \in Accounts, NEW b \in Accounts, NEW c \in Accounts,
                      a # b, a # c, b # c
               PROVE  /\ IsFiniteSet({a, b, c}) /\ {a, b, c} \in SUBSET Accounts
                      /\ O({a, b, c}) = B(a) + B(b) + B(c)
    OBVIOUS
  <2>1. {a, b} \union {c} = {a, b, c} /\ c \in Accounts \ {a, b}
    OBVIOUS
  <2>2. IsFiniteSet({a, b}) /\ {a, b} \in SUBSET Accounts /\ O({a, b}) = B(a) + B(b)
    BY <1>5
  <2>3. IsFiniteSet({a, b} \union {c}) /\ O({a, b} \union {c}) = O({a, b}) + B(c)
    BY <1>2, <2>1, <2>2
  <2> QED BY <2>1, <2>2, <2>3
<1>7. O({"AR", "CASH", "INVENTORY", "VAT_INPUT"})
          = B("AR") + B("CASH") + B("INVENTORY") + B("VAT_INPUT")
  <2> DEFINE three == {"AR", "CASH", "INVENTORY"}
  <2>1. three \union {"VAT_INPUT"} = {"AR", "CASH", "INVENTORY", "VAT_INPUT"}
    OBVIOUS
  <2>2. /\ IsFiniteSet(three) /\ three \in SUBSET Accounts
        /\ O(three) = B("AR") + B("CASH") + B("INVENTORY") /\ "VAT_INPUT" \in Accounts \ three
    <3>1. /\ "AR" \in Accounts /\ "CASH" \in Accounts /\ "INVENTORY" \in Accounts
          /\ "VAT_INPUT" \in Accounts \ three
      BY AccountsAre
    <3>2. "AR" # "CASH" /\ "AR" # "INVENTORY" /\ "CASH" # "INVENTORY"
      BY SMTT(40)
    <3> QED BY <1>6, <3>1, <3>2
  <2> HIDE DEF three
  <2> QED BY <1>2, <2>1, <2>2
<1>8. /\ O({"AP", "VAT_PAYABLE", "DEPOSITS"}) = B("AP") + B("VAT_PAYABLE") + B("DEPOSITS")
      /\ O({"COGS", "EXPENSES"}) = B("COGS") + B("EXPENSES")
      /\ O({"SALES"}) = B("SALES") /\ O({"EXPENSES"}) = B("EXPENSES")
      /\ O({"OPENING_BALANCE_EQUITY"}) = B("OPENING_BALANCE_EQUITY")
  BY <1>4, <1>5, <1>6, AccountsAre, ZenonT(60)
<1> QED BY <1>0, <1>3, <1>7, <1>8 DEF B, O

\* The balance sheet of a date balances, and its profit is that of three accounts.
LEMMA SheetBalances ==
    ASSUME BooksInv, NEW asOf
    PROVE  /\ Statements(asOf).outOfBalanceBy = 0
           /\ Statements(asOf).accumulatedProfit =
                 -Balance("SALES", Before(asOf)) - (Balance("COGS", Before(asOf))
                                                    + Balance("EXPENSES", Before(asOf)))
<1> DEFINE es == Before(asOf)
<1>1. es \in SUBSET Posted
  BY DEF Before
<1>2. Rowed(es) /\ \A e \in es : Net(e.rows) = 0
  BY <1>1, PostedRowed, RowedPart
<1> DEFINE net(t) == BalanceOf(OfType(t), es)
           profit == -net("REVENUE") - net("EXPENSE")
<1>3. /\ Statements(asOf).outOfBalanceBy =
            net("ASSET") - (-net("LIABILITY") + (-net("EQUITY") + profit))
      /\ Statements(asOf).accumulatedProfit = profit
  BY DEF Statements
<1> HIDE DEF es
<1>4. NetOf(es) = 0
  BY <1>2, NetIsZero
<1>5. /\ net("ASSET") = Balance("AR", es) + Balance("CASH", es)
                  + Balance("INVENTORY", es) + Balance("VAT_INPUT", es)
      /\ net("LIABILITY") = Balance("AP", es) + Balance("VAT_PAYABLE", es) + Balance("DEPOSITS", es)
      /\ net("REVENUE") = Balance("SALES", es)
      /\ net("EXPENSE") = Balance("COGS", es) + Balance("EXPENSES", es)
      /\ net("EQUITY") = Balance("OPENING_BALANCE_EQUITY", es)
  BY <1>2, ByType
<1>6. \A a \in Accounts : Balance(a, es) \in Int
  BY <1>2, ByType
<1> HIDE DEF net
<1>7. net("ASSET") - (-net("LIABILITY") + (-net("EQUITY") + profit)) = 0
  BY <1>4, <1>5, <1>6, AccountsAre DEF NetOf
<1>8. profit = -Balance("SALES", es) - (Balance("COGS", es) + Balance("EXPENSES", es))
  BY <1>5
<1> HIDE DEF profit
<1> QED BY <1>3, <1>7, <1>8 DEF es

LEMMA PnlIs ==
    ASSUME BooksInv, NEW p
    PROVE  /\ Pnl(p).netProfit =
                 (-Balance("SALES", In(p)) - Balance("COGS", In(p))) - Balance("EXPENSES", In(p))
           /\ \A a \in Accounts : Balance(a, In(p)) \in Int
<1>1. In(p) \in SUBSET Posted
  BY DEF In
<1>2. Rowed(In(p))
  BY <1>1, PostedRowed, RowedPart
<1> QED BY <1>2, ByType DEF Pnl

\* What was posted before a date, period by period.
LEMMA ByPeriod ==
    ASSUME BooksInv, NEW a \in Accounts, NEW p \in Nat
    PROVE  Balance(a, Before(p + 1)) = SumFunctionOnSet([q \in 0..p |-> Balance(a, In(q))], 0..p)
<1> DEFINE K == 0..p
           es == Before(p + 1)
           part == [q \in K |-> In(q)]
           g == [q \in K |-> Balance(a, In(q))]
<1>1. es \in SUBSET Posted /\ IsFiniteSet(K)
  BY FS_Interval DEF Before
<1>2. Rowed(es) /\ \A e \in es : e.at \in Nat /\ e.at < p + 1
  <2>1. now \in Nat
    BY DEF BooksInv
  <2> QED BY <1>1, <2>1, PostedRowed, RowedPart DEF Before
<1>3. \A q \in K : part[q] \subseteq es
  BY DEF In, Before
<1>4. ASSUME NEW e \in es PROVE \E q \in K : e \in part[q]
  <2>1. e.at \in K /\ e \in In(e.at)
    BY <1>1, <1>2 DEF In
  <2> QED BY <2>1
<1>5. \A q, r \in K : q # r => part[q] \intersect part[r] = {}
  BY DEF In
<1>6. \A q \in K : g[q] = Balance(a, part[q])
  OBVIOUS
<1> HIDE DEF K, es, part, g
<1>7. Balance(a, es) = SumFunctionOnSet(g, K)
  BY <1>1, <1>2, <1>3, <1>4, <1>5, <1>6, BalanceByClass
<1> QED BY <1>7 DEF K, es, g

LEMMA ProfitAddsUp ==
    ASSUME BooksInv, NEW p \in Nat
    PROVE  Statements(p + 1).accumulatedProfit = SumFunction([q \in 0..p |-> Pnl(q).netProfit])
<1> DEFINE K == 0..p
           es == Before(p + 1)
           s == [q \in K |-> Balance("SALES", In(q))]
           c == [q \in K |-> Balance("COGS", In(q))]
           x == [q \in K |-> Balance("EXPENSES", In(q))]
           sc == [q \in K |-> s[q] + c[q]]
           all == [q \in K |-> sc[q] + x[q]]
           n == [q \in K |-> Pnl(q).netProfit]
<1>0. "SALES" \in Accounts /\ "COGS" \in Accounts /\ "EXPENSES" \in Accounts /\ IsFiniteSet(K)
  BY AccountsAre, FS_Interval
<1>1. /\ Balance("SALES", es) = SumFunctionOnSet(s, K)
      /\ Balance("COGS", es) = SumFunctionOnSet(c, K)
      /\ Balance("EXPENSES", es) = SumFunctionOnSet(x, K)
  BY <1>0, ByPeriod
<1>2. \A q \in K : /\ s[q] \in Int /\ c[q] \in Int /\ x[q] \in Int
                   /\ n[q] = (-s[q] - c[q]) - x[q]
  BY <1>0, PnlIs
<1>3. \A q \in K : /\ sc[q] \in Int /\ sc[q] = s[q] + c[q]
                   /\ all[q] \in Int /\ all[q] = sc[q] + x[q]
                   /\ n[q] = -all[q]
  BY <1>2
<1>4. SumFunction([q \in 0..p |-> Pnl(q).netProfit]) = SumFunctionOnSet(n, K)
  BY DEF SumFunction
<1>5. Statements(p + 1).accumulatedProfit = -Balance("SALES", es) - (Balance("COGS", es) + Balance("EXPENSES", es))
  BY SheetBalances
<1> HIDE DEF K, es, s, c, x, sc, all, n
<1>6. SumFunctionOnSet(sc, K) = SumFunctionOnSet(s, K) + SumFunctionOnSet(c, K)
  BY <1>0, <1>2, <1>3, SumOfSums
<1>7. SumFunctionOnSet(all, K) = SumFunctionOnSet(sc, K) + SumFunctionOnSet(x, K)
  BY <1>0, <1>2, <1>3, SumOfSums
<1>8. SumFunctionOnSet(n, K) = -SumFunctionOnSet(all, K)
  BY <1>0, <1>3, SumOfMinus
<1>9. /\ SumFunctionOnSet(s, K) \in Int /\ SumFunctionOnSet(c, K) \in Int
      /\ SumFunctionOnSet(x, K) \in Int
  BY <1>0, <1>2, SumIsInt
<1> QED BY <1>1, <1>4, <1>5, <1>6, <1>7, <1>8, <1>9

-----------------------------------------------------------------------------
(* The VAT returns.                                                        *)

\* What a VAT return of a period comes to.
LEMMA VatReturn ==
    ASSUME BooksInv, NEW p
    PROVE  VatSummary(p).netPayable = -Balance("VAT_PAYABLE", In(p)) - Balance("VAT_INPUT", In(p))
<1> DEFINE all == Emirates \union {None}
           own == {e \in In(p) : e.type = "INVOICE"}
                     \union {e \in In(p) : e.type = "INVOICE_VOID" /\ inv[e.id].created = p}
           es == own \union Earlier(p)
           S(m) == {e \in own : EmirateOf(e.id) = m}
           E(m) == {e \in Earlier(p) : EmirateOf(e.id) = m}
           part == [m \in all |-> S(m) \union E(m)]
           g == [m \in all |-> Balance("VAT_PAYABLE", part[m])]
           n == [m \in all |-> -Balance("VAT_PAYABLE", S(m)) - Balance("VAT_PAYABLE", E(m))]
<1>0. "VAT_PAYABLE" \in Accounts /\ Rowed(Posted) /\ In(p) \in SUBSET Posted
  BY AccountsAre, PostedRowed DEF In
<1>1. IsFiniteSet(all)
  BY BooksAssumption, FS_Singleton, FS_Union
<1>2. es \in SUBSET In(p) /\ own \in SUBSET In(p) /\ Earlier(p) \in SUBSET In(p)
  BY DEF Earlier
<1>3. own \intersect Earlier(p) = {}
  BY DEF Earlier
<1>4. \A e \in In(p) : e \in es <=> e.type \in ForInvoices
  BY DEF Earlier, ForInvoices
<1>5. Rowed(In(p))
  BY <1>0, RowedPart
<1>6. \A e \in In(p) \ es : e.rows["VAT_PAYABLE"] = 0
  <2> TAKE e \in In(p) \ es
  <2>1. e.type \notin ForInvoices
    BY <1>4
  <2>2. CASE e \in ledger
    BY <2>1, <2>2 DEF BooksInv, PostingOK
  <2>3. CASE e \in Openings
    BY <2>3, OpeningsRowed
  <2> QED BY <2>2, <2>3, <1>0 DEF Posted
<1>7. Balance("VAT_PAYABLE", In(p)) = Balance("VAT_PAYABLE", es)
  <2> HIDE DEF es
  <2> QED BY <1>0, <1>2, <1>5, <1>6, BalanceOfPart
<1>8. \A e \in es : EmirateOf(e.id) \in all
  <2> TAKE e \in es
  <2>1. e \in Posted /\ e.type \in ForInvoices
    BY <1>0, <1>2, <1>4
  <2>2. e \notin Openings
    BY <2>1, OpeningsRowed DEF ForInvoices
  <2>3. PostingOK(e)
    BY <2>1, <2>2 DEF Posted, BooksInv
  <2>4. e.id \in Issued
    BY <2>1, <2>3 DEF PostingOK, ForInvoices, OwnTypes
  <2> QED BY <2>4 DEF BooksInv, InvoiceOK, EmirateOf
<1>9. \A m \in all : S(m) \in SUBSET In(p) /\ E(m) \in SUBSET In(p) /\ S(m) \intersect E(m) = {}
  BY <1>2, <1>3
<1>10. ASSUME NEW m \in all
       PROVE  /\ g[m] = Balance("VAT_PAYABLE", S(m)) + Balance("VAT_PAYABLE", E(m))
              /\ g[m] \in Int /\ n[m] = -g[m]
  <2>1. Rowed(S(m)) /\ Rowed(E(m)) /\ S(m) \intersect E(m) = {}
    BY <1>5, <1>9, RowedPart
  <2>2. g[m] = Balance("VAT_PAYABLE", S(m) \union E(m))
        /\ n[m] = -Balance("VAT_PAYABLE", S(m)) - Balance("VAT_PAYABLE", E(m))
    OBVIOUS
  <2> HIDE DEF S, E, g, n
  <2>3. /\ Balance("VAT_PAYABLE", S(m) \union E(m)) = Balance("VAT_PAYABLE", S(m)) + Balance("VAT_PAYABLE", E(m))
        /\ Balance("VAT_PAYABLE", S(m)) \in Int /\ Balance("VAT_PAYABLE", E(m)) \in Int
    BY <1>0, <2>1, BalanceOfUnion, BalanceIsInt
  <2> QED BY <2>2, <2>3
<1>11. /\ \A m \in all : part[m] \subseteq es
       /\ \A e \in es : \E m \in all : e \in part[m]
       /\ \A m, k \in all : m # k => part[m] \intersect part[k] = {}
       /\ \A m \in all : g[m] = Balance("VAT_PAYABLE", part[m])
  <2>1. \A m \in all : \A e : e \in part[m] <=> e \in es /\ EmirateOf(e.id) = m
    OBVIOUS
  <2>2. \A m \in all : g[m] = Balance("VAT_PAYABLE", part[m])
    OBVIOUS
  <2> HIDE DEF part, es, all, g
  <2> QED BY <2>1, <2>2, <1>8
<1>12. Rowed(es)
  BY <1>2, <1>5, RowedPart
<1>13. VatSummary(p).netPayable = SumFunctionOnSet(n, all) - Balance("VAT_INPUT", In(p))
  BY DEF VatSummary, SumFunction
<1> HIDE DEF all, own, es, S, E, part, g, n
<1>14. Balance("VAT_PAYABLE", es) = SumFunctionOnSet(g, all)
  BY <1>0, <1>1, <1>11, <1>12, BalanceByClass
<1>15. SumFunctionOnSet(n, all) = -SumFunctionOnSet(g, all)
  BY <1>1, <1>10, SumOfMinus
<1> QED BY <1>7, <1>13, <1>14, <1>15

LEMMA VatAddsUp ==
    ASSUME BooksInv
    PROVE  SumFunction([p \in 0..LastPeriod |-> VatSummary(p).netPayable])
              = -Balance("VAT_PAYABLE", Posted) - Balance("VAT_INPUT", Posted)
<1> DEFINE K == 0..LastPeriod
           v == [p \in K |-> Balance("VAT_PAYABLE", In(p))]
           w == [p \in K |-> Balance("VAT_INPUT", In(p))]
           all == [p \in K |-> v[p] + w[p]]
           n == [p \in K |-> VatSummary(p).netPayable]
<1>0. /\ "VAT_PAYABLE" \in Accounts /\ "VAT_INPUT" \in Accounts /\ LastPeriod \in Nat
      /\ IsFiniteSet(K)
  BY AccountsAre, BooksAssumption, FS_Interval
<1>1. Before(LastPeriod + 1) = Posted
  <2>1. now \in 0..LastPeriod
    BY DEF BooksInv
  <2>2. \A e \in Posted : e.at < LastPeriod + 1
    BY <1>0, <2>1, PostedRowed
  <2> QED BY <2>2 DEF Before
<1>2. /\ Balance("VAT_PAYABLE", Posted) = SumFunctionOnSet(v, K)
      /\ Balance("VAT_INPUT", Posted) = SumFunctionOnSet(w, K)
  BY <1>0, <1>1, ByPeriod
<1>3. \A p \in K : /\ v[p] \in Int /\ w[p] \in Int /\ n[p] = -v[p] - w[p]
  BY <1>0, PnlIs, VatReturn
<1>4. \A p \in K : all[p] \in Int /\ all[p] = v[p] + w[p] /\ n[p] = -all[p]
  BY <1>3
<1>5. SumFunction([p \in 0..LastPeriod |-> VatSummary(p).netPayable]) = SumFunctionOnSet(n, K)
  BY DEF SumFunction
<1> HIDE DEF K, v, w, all, n
<1>6. SumFunctionOnSet(all, K) = SumFunctionOnSet(v, K) + SumFunctionOnSet(w, K)
  BY <1>0, <1>3, <1>4, SumOfSums
<1>7. SumFunctionOnSet(n, K) = -SumFunctionOnSet(all, K)
  BY <1>0, <1>4, SumOfMinus
<1>8. SumFunctionOnSet(v, K) \in Int /\ SumFunctionOnSet(w, K) \in Int
  BY <1>0, <1>3, SumIsInt
<1> QED BY <1>2, <1>5, <1>6, <1>7, <1>8

-----------------------------------------------------------------------------
(* Receivables.                                                            *)

Owed(i) == (Of("INVOICE", i) \union Of("INVOICE_VOID", i)) \union Settled(i)

LEMMA InOwed ==
    ASSUME BooksInv, NEW i \in Issued, NEW e \in Owed(i)
    PROVE  /\ e \in ledger /\ e.type \in Receivable
           /\ e.type \in ForInvoices => e.id = i
           /\ e.type = "PAYMENT" => e.id[1] = i
           /\ e.type = "ADVANCE_MIGRATION" => advance[e.id].inv = i
<1>1. CASE e \in Of("INVOICE", i) \/ e \in Of("INVOICE_VOID", i)
  BY <1>1 DEF Of, Receivable, ForInvoices
<1>2. CASE e \in Settled(i)
  <2>1. CASE \E p \in inv[i].pays : e \in Of("PAYMENT", p.id)
    <3>1. PICK p \in inv[i].pays : e \in Of("PAYMENT", p.id)
      BY <2>1
    <3>2. p.id = <<i, p.id[2]>>
      BY DEF BooksInv, InvoiceOK, PaysOK
    <3> QED BY <3>1, <3>2 DEF Of, Receivable, ForInvoices
  <2>2. CASE \E a \in Advs : advance[a].inv = i /\ e \in Of("ADVANCE_MIGRATION", a)
    BY <2>2 DEF Of, Receivable, ForInvoices
  <2> QED BY <1>2, <2>1, <2>2, InSettled
<1> QED BY <1>1, <1>2 DEF Owed

LEMMA SomeOwed ==
    ASSUME BooksInv, NEW e \in ledger, e.type \in Receivable
    PROVE  \E i \in Issued : e \in Owed(i)
<1>1. PostingOK(e)
  BY DEF BooksInv
<1>2. CASE e.type \in ForInvoices
  BY <1>1, <1>2 DEF PostingOK, ForInvoices, OwnTypes, Owed, Of
<1>3. CASE e.type = "PAYMENT"
  <2>1. PICK i \in Issued : \E p \in inv[i].pays : e.id = p.id
    BY <1>1, <1>3 DEF PostingOK
  <2>2. PICK p \in inv[i].pays : e \in Of("PAYMENT", p.id)
    BY <1>3, <2>1 DEF Of
  <2>3. e \in Settled(i)
    BY <2>2, InSettled
  <2> QED BY <2>3 DEF Owed
<1>4. CASE e.type = "ADVANCE_MIGRATION"
  <2>1. e.id \in Advs /\ advance[e.id].inv \in Issued
    BY <1>1, <1>4 DEF PostingOK
  <2>2. e \in Of("ADVANCE_MIGRATION", e.id)
    BY <1>4 DEF Of
  <2>3. e \in Settled(advance[e.id].inv)
    BY <2>1, <2>2, InSettled
  <2> QED BY <2>1, <2>3 DEF Owed
<1> QED BY <1>2, <1>3, <1>4 DEF Receivable

LEMMA ReceivablesAddUp ==
    ASSUME BooksInv
    PROVE  Balance("AR", Posted)
              = SumFunction([i \in Issued |-> PerInvoice(i)]) + Balance("AR", Openings)
<1> DEFINE es == {e \in ledger : e.type \in Receivable}
           part == [i \in Issued |-> Owed(i)]
           g == [i \in Issued |-> PerInvoice(i)]
<1>1. /\ "AR" \in Accounts /\ Rowed(ledger) /\ Rowed(Openings) /\ ledger \intersect Openings = {}
      /\ Posted = ledger \union Openings
  BY AccountsAre, LedgerRowed, OpeningsRowed, PostedRowed DEF Posted
<1>2. IsFiniteSet(Issued)
  <2>1. Issued \subseteq Invs /\ IsFiniteSet(Invs)
    BY BooksAssumption DEF Issued
  <2> QED BY <2>1, FS_Subset
<1>3. Balance("AR", Posted) = Balance("AR", ledger) + Balance("AR", Openings)
  BY <1>1, BalanceOfUnion
<1>4. Balance("AR", ledger) = Balance("AR", es)
  <2>1. es \in SUBSET ledger /\ \A e \in ledger \ es : e.rows["AR"] = 0
    BY DEF BooksInv, PostingOK
  <2> HIDE DEF es
  <2> QED BY <1>1, <2>1, BalanceOfPart
<1>5. /\ \A i \in Issued : part[i] \subseteq es
      /\ \A e \in es : \E i \in Issued : e \in part[i]
      /\ \A i, j \in Issued : i # j => part[i] \intersect part[j] = {}
  <2>1. \A i \in Issued : part[i] \subseteq es
    BY InOwed
  <2>2. \A e \in es : \E i \in Issued : e \in part[i]
    BY SomeOwed
  <2>3. ASSUME NEW i \in Issued, NEW j \in Issued, NEW e, e \in Owed(i), e \in Owed(j)
        PROVE  i = j
    BY <2>3, InOwed DEF Receivable
  <2> QED BY <2>1, <2>2, <2>3
<1>6. \A i \in Issued : g[i] = Balance("AR", part[i])
  <2> TAKE i \in Issued
  <2>1. Owed(i) = Of("INVOICE", i) \union Of("INVOICE_VOID", i)
           \union (UNION {Of("PAYMENT", p.id) : p \in inv[i].pays})
           \union (UNION {Of("ADVANCE_MIGRATION", a) : a \in {b \in Advs : advance[b].inv = i}})
    BY DEF Owed, Settled
  <2> QED BY <2>1 DEF PerInvoice
<1>7. Rowed(es)
  <2>1. es \in SUBSET ledger
    OBVIOUS
  <2> QED BY <1>1, <2>1, RowedPart
<1>8. SumFunction([i \in Issued |-> PerInvoice(i)]) = SumFunctionOnSet(g, Issued)
  BY DEF SumFunction
<1> HIDE DEF es, part, g
<1>9. Balance("AR", es) = SumFunctionOnSet(g, Issued)
  BY <1>1, <1>2, <1>5, <1>6, <1>7, BalanceByClass
<1> QED BY <1>3, <1>4, <1>8, <1>9

LEMMA ReportsSuffice == BooksInv => ReportsAddUp
<1> SUFFICES ASSUME BooksInv PROVE ReportsAddUp
  OBVIOUS
<1>1. ASSUME NEW p \in 0..LastPeriod
      PROVE  /\ Statements(p + 1).outOfBalanceBy = 0
             /\ Statements(p + 1).accumulatedProfit = SumFunction([q \in 0..p |-> Pnl(q).netProfit])
  BY SheetBalances, ProfitAddsUp
<1> QED BY <1>1, VatAddsUp, ReceivablesAddUp DEF ReportsAddUp

-----------------------------------------------------------------------------
(* The steps keep the invariant: what a step does not touch stays right.   *)

\* What no step takes back.
Monotone ==
    /\ now \in Nat /\ now' \in Nat /\ now <= now'
    /\ \A i \in Issued : i \in Issued' /\ inv[i].pays \subseteq inv'[i].pays
    /\ \A a \in Advs : /\ advance[a].job # None => advance'[a].job # None
                       /\ advance[a].inv \in Issued => advance'[a].inv = advance[a].inv

LEMMA PostingKept ==
    ASSUME Monotone, NEW e, PostingOK(e)
    PROVE  PostingOK(e)'
<1>1. e.at \in 0..now'
  BY DEF Monotone, PostingOK
<1>2. e.type \in OwnTypes => e.id \in Issued'
  BY DEF Monotone, PostingOK
<1>3. e.type = "PAYMENT" => \E i \in Issued' : \E p \in inv'[i].pays : e.id = p.id
  BY DEF Monotone, PostingOK
<1>4. e.type = "ADVANCE" => advance'[e.id].job # None
  BY DEF Monotone, PostingOK
<1>5. e.type = "ADVANCE_MIGRATION" => advance'[e.id].inv \in Issued'
  BY DEF Monotone, PostingOK
<1> QED BY <1>1, <1>2, <1>3, <1>4, <1>5 DEF PostingOK

LEMMA SingleKept ==
    ASSUME Monotone, NEW type, NEW id, NEW f, Of(type, id)' = Of(type, id), Single(type, id, f)
    PROVE  Single(type, id, f)'
BY DEF Single, Monotone, Entry, Rows

LEMMA SilentKept ==
    ASSUME NEW type, NEW id, Of(type, id)' = Of(type, id)
    PROVE  Silent(type, id)' <=> Silent(type, id)
BY DEF Silent

LEMMA PaysKept ==
    ASSUME Monotone, NEW k, PaysOK(k), inv'[k].pays = inv[k].pays,
           \A p \in inv[k].pays : Of("PAYMENT", p.id)' = Of("PAYMENT", p.id),
           \A a \in Advs : \/ advance'[a] = advance[a]
                           \/ advance[a].inv # k /\ advance'[a].inv # k
    PROVE  PaysOK(k)'
<1>1. ASSUME NEW p \in inv[k].pays
      PROVE  /\ p.amount \in Nat /\ p.id = <<k, p.id[2]>>
             /\ Numbered(k, p)' \/ Migrated(k, p)'
  <2>1. p.amount \in Nat /\ p.id = <<k, p.id[2]>> /\ (Numbered(k, p) \/ Migrated(k, p))
    BY DEF PaysOK
  <2>2. CASE Numbered(k, p)
    <3>1. Single("PAYMENT", p.id, paymentLedger(p.amount))'
      BY <2>2, SingleKept DEF Numbered
    <3> QED BY <2>1, <2>2, <3>1 DEF Numbered
  <2>3. CASE Migrated(k, p)
    <3>1. Silent("PAYMENT", p.id)'
      BY <2>3, SilentKept DEF Migrated
    <3>2. advance'[p.id[2]] = advance[p.id[2]]
      BY <2>3 DEF Migrated
    <3> QED BY <2>1, <2>3, <3>1, <3>2 DEF Migrated
  <2> QED BY <2>1, <2>2, <2>3
<1>2. IsFiniteSet(inv'[k].pays) /\ \A p, q \in inv'[k].pays : p.id = q.id => p = q
  BY DEF PaysOK
<1>3. \A a \in Advs : advance'[a].inv = k => \E p \in inv'[k].pays : p.id = <<k, a>>
  BY DEF PaysOK
<1> QED BY <1>1, <1>2, <1>3 DEF PaysOK

LEMMA InvoiceKept ==
    ASSUME Monotone, NEW k, InvoiceOK(k), inv'[k] = inv[k],
           \A t \in OwnTypes : Of(t, k)' = Of(t, k),
           \A p \in inv[k].pays : Of("PAYMENT", p.id)' = Of("PAYMENT", p.id),
           \A a \in Advs : \/ advance'[a] = advance[a]
                           \/ advance[a].inv # k /\ advance'[a].inv # k,
           k \in ghosts => k \in ghosts',
           flipped' \/ (~flipped /\ garage'.cogs = garage.cogs)
    PROVE  InvoiceOK(k)'
<1>1. PaysOK(k)'
  BY PaysKept DEF InvoiceOK
<1>2. \A t \in OwnTypes : Silent(t, k)' <=> Silent(t, k)
  BY SilentKept
<1>3. \A t \in OwnTypes : \A f : Single(t, k, f) => Single(t, k, f)'
  BY SingleKept
<1>4. SaleOK(k)' /\ CostOK(k)'
  <2>1. invoiceLedger(inv[k].sub)' = invoiceLedger(inv[k].sub) /\ cogsLedger(PartsCost)' = cogsLedger(PartsCost)
    BY DEF invoiceLedger, cogsLedger, VatOn
  <2> QED BY <2>1, <1>2, <1>3 DEF SaleOK, CostOK, InvoiceOK, OwnTypes
<1>5. VoidOK(k) => VoidOK(k)'
  <2>1. voidReversalLedger(inv[k].sub)' = voidReversalLedger(inv[k].sub)
        /\ Minus(cogsLedger(PartsCost))' = Minus(cogsLedger(PartsCost))
    BY DEF voidReversalLedger, invoiceLedger, cogsLedger, VatOn, Minus
  <2> QED BY <2>1, <1>2, <1>3 DEF VoidOK, OwnTypes
<1> QED BY <1>1, <1>4, <1>5 DEF InvoiceOK

LEMMA AdvanceKept ==
    ASSUME Monotone, NEW a \in Advs, AdvanceOK(a), advance'[a] = advance[a],
           Of("ADVANCE", a)' = Of("ADVANCE", a),
           Of("ADVANCE_MIGRATION", a)' = Of("ADVANCE_MIGRATION", a)
    PROVE  AdvanceOK(a)'
<1>1. /\ advanceLedger(advance[a].amount)' = advanceLedger(advance[a].amount)
      /\ advanceMigrationLedger(advance[a].amount)' = advanceMigrationLedger(advance[a].amount)
  BY DEF advanceLedger, advanceMigrationLedger
<1>2. \A t \in {"ADVANCE", "ADVANCE_MIGRATION"} : Silent(t, a)' <=> Silent(t, a)
  BY SilentKept
<1>3. \A t \in {"ADVANCE", "ADVANCE_MIGRATION"} : \A f : Single(t, a, f) => Single(t, a, f)'
  BY SingleKept
<1>4. advance[a].inv \in Issued => advance'[a].inv \in Issued'
  BY DEF Monotone
<1> QED BY <1>1, <1>2, <1>3, <1>4 DEF AdvanceOK

LEMMA AllKept ==
    ASSUME BooksInv, NEW R, NEW A, ledger' = (ledger \ R) \union A, IsFiniteSet(A),
           Monotone, now' <= LastPeriod,
           inv' = [i \in Invs |-> inv'[i]], advance' = [a \in Advs |-> advance'[a]],
           paper' = [d \in Papers |-> paper'[d]], \A d \in Papers : paper'[d].sub \in Nat,
           garage' = [cogs |-> garage'.cogs, emirate |-> garage'.emirate],
           garage'.cogs \in BOOLEAN, garage'.emirate \in Emirates \union {None},
           \A e \in A : PostingOK(e)',
           \A i \in Issued' : InvoiceOK(i)',
           \A a \in Advs : AdvanceOK(a)',
           balance' = balance
    PROVE  BooksInv'
<1>1. IsFiniteSet(ledger')
  <2>1. IsFiniteSet(ledger \ R)
    BY FS_Subset DEF BooksInv
  <2> QED BY <2>1, FS_Union
<1>2. \A e \in ledger' : PostingOK(e)'
  <2> TAKE e \in ledger'
  <2>1. CASE e \in A
    BY <2>1
  <2>2. CASE e \in ledger
    BY <2>2, PostingKept DEF BooksInv
  <2> QED BY <2>1, <2>2
<1>3. now' \in 0..LastPeriod
  BY BooksAssumption DEF Monotone
<1>4. \A c \in Customers : IsFiniteSet(balance'[c])
  BY DEF BooksInv
<1> QED BY <1>1, <1>2, <1>3, <1>4 DEF BooksInv

\* A step that leaves the ledger, invoices, payments and advances alone.
LEMMA QuietStep ==
    ASSUME BooksInv, ledger' = ledger, inv' = inv, advance' = advance, paper' = paper,
           balance' = balance, ghosts' = ghosts, now' \in now..LastPeriod,
           garage' = [cogs |-> garage'.cogs, emirate |-> garage'.emirate],
           garage'.cogs \in BOOLEAN, garage'.emirate \in Emirates \union {None},
           flipped' \/ (flipped' = flipped /\ garage'.cogs = garage.cogs)
    PROVE  BooksInv'
<1>1. Issued' = Issued /\ now \in Nat
  BY DEF Issued, BooksInv
<1>2. Monotone /\ now' <= LastPeriod
  BY <1>1, BooksAssumption DEF Monotone
<1>3. \A t, x : Of(t, x)' = Of(t, x)
  BY DEF Of
<1>4. \A i \in Issued' : InvoiceOK(i)'
  <2> TAKE i \in Issued'
  <2>1. InvoiceOK(i)
    BY <1>1 DEF BooksInv
  <2>2. flipped' \/ (~flipped /\ garage'.cogs = garage.cogs)
    OBVIOUS
  <2> QED BY <2>1, <2>2, <1>2, <1>3, InvoiceKept
<1>5. \A a \in Advs : AdvanceOK(a)'
  BY <1>2, <1>3, AdvanceKept DEF BooksInv
<1>6. ledger' = (ledger \ {}) \union {} /\ IsFiniteSet({})
  BY FS_EmptySet
<1>7. /\ inv' = [i \in Invs |-> inv'[i]] /\ advance' = [a \in Advs |-> advance'[a]]
      /\ paper' = [d \in Papers |-> paper'[d]] /\ \A d \in Papers : paper'[d].sub \in Nat
  BY DEF BooksInv
<1> QED BY <1>2, <1>4, <1>5, <1>6, <1>7, AllKept

\* A step on one invoice, on the postings of its sale and cost.
LEMMA SaleStep ==
    ASSUME BooksInv, NEW i \in Issued, NEW R, NEW A, ledger' = (ledger \ R) \union A,
           IsFiniteSet(A), \A e \in R : e.type \in OwnTypes /\ e.id = i,
           \A e \in A : /\ e.type \in OwnTypes /\ e.id = i /\ e.at = now
                        /\ e.rows \in BalancedRows
                        /\ \/ e.type \in ForInvoices
                           \/ e.rows["VAT_PAYABLE"] = 0 /\ e.rows["AR"] = 0,
           inv' = [k \in Invs |-> inv'[k]], \A k \in Invs \ {i} : inv'[k] = inv[k],
           inv'[i].status # "NONE", inv'[i].pays = inv[i].pays, inv'[i].sub \in Nat,
           inv'[i].cost \in Costs, inv'[i].emirate = inv[i].emirate,
           now' = now, advance' = advance, paper' = paper, garage' = garage,
           flipped' = flipped, balance' = balance, ghosts \subseteq ghosts',
           SaleOK(i)', CostOK(i)', i \in ghosts' \/ VoidOK(i)'
    PROVE  BooksInv'
<1>1. Issued' = Issued /\ now \in Nat /\ now <= LastPeriod /\ i \in Invs
  <2>1. i \in Invs /\ inv[i].status # "NONE"
    BY DEF Issued
  <2>2. \A k \in Invs : inv'[k].status # "NONE" <=> inv[k].status # "NONE"
    BY <2>1
  <2>3. Issued' = Issued
    BY <2>2 DEF Issued
  <2> QED BY <2>1, <2>3, BooksAssumption DEF BooksInv
<1>2. Monotone
  <2>1. \A k \in Issued : inv[k].pays \subseteq inv'[k].pays
    BY DEF Issued
  <2> QED BY <1>1, <2>1 DEF Monotone
<1>3. \A e \in R \union A : e.type \in OwnTypes /\ e.id = i
  OBVIOUS
<1>4. \A t, x : t \notin OwnTypes \/ x # i => Of(t, x)' = Of(t, x)
  <2> SUFFICES ASSUME NEW t, NEW x, t \notin OwnTypes \/ x # i PROVE Of(t, x)' = Of(t, x)
    OBVIOUS
  <2>1. \A e \in R \union A : e.type # t \/ e.id # x
    BY <1>3
  <2>2. ledger' = (ledger \ R) \union A
    OBVIOUS
  <2>3. \A e : e \in Of(t, x)' <=> e \in Of(t, x)
    BY <2>1, <2>2 DEF Of
  <2> QED BY <2>3
<1>5. \A t \in {"PAYMENT", "ADVANCE", "ADVANCE_MIGRATION"} : t \notin OwnTypes
  BY DEF OwnTypes
<1>6. \A k \in Issued' : InvoiceOK(k)'
  <2> TAKE k \in Issued'
  <2>0. InvoiceOK(k)
    BY <1>1 DEF BooksInv
  <2>1. CASE k # i
    <3>1. inv'[k] = inv[k]
      BY <1>1, <2>1 DEF Issued
    <3>2. \A t \in OwnTypes : Of(t, k)' = Of(t, k)
      BY <1>4, <2>1
    <3>3. \A p \in inv[k].pays : Of("PAYMENT", p.id)' = Of("PAYMENT", p.id)
      BY <1>4, <1>5
    <3> QED BY <1>2, <2>0, <3>1, <3>2, <3>3, InvoiceKept
  <2>2. CASE k = i
    <3>1. \A p \in inv[i].pays : Of("PAYMENT", p.id)' = Of("PAYMENT", p.id)
      BY <1>4, <1>5
    <3>2. PaysOK(i)'
      BY <1>2, <2>0, <2>2, <3>1, PaysKept DEF InvoiceOK
    <3> QED BY <2>0, <2>2, <3>2 DEF InvoiceOK
  <2> QED BY <2>1, <2>2
<1>7. \A a \in Advs : AdvanceOK(a)'
  BY <1>2, <1>4, <1>5, AdvanceKept DEF BooksInv
<1>8. \A e \in A : PostingOK(e)'
  <2> TAKE e \in A
  <2>1. e.type \in OwnTypes /\ e.id \in Issued' /\ e.at \in 0..now' /\ e.rows \in BalancedRows
    BY <1>1
  <2>2. e.type \in ForInvoices \/ (e.rows["VAT_PAYABLE"] = 0 /\ e.rows["AR"] = 0)
    OBVIOUS
  <2> QED BY <2>1, <2>2 DEF PostingOK, OwnTypes, ForInvoices, Receivable
<1>9. /\ advance' = [a \in Advs |-> advance'[a]]
      /\ paper' = [d \in Papers |-> paper'[d]] /\ \A d \in Papers : paper'[d].sub \in Nat
      /\ garage' = [cogs |-> garage'.cogs, emirate |-> garage'.emirate]
      /\ garage'.cogs \in BOOLEAN /\ garage'.emirate \in Emirates \union {None}
  BY DEF BooksInv
<1> QED BY <1>1, <1>2, <1>6, <1>7, <1>8, <1>9, AllKept

-----------------------------------------------------------------------------
(* The steps on one invoice.                                               *)

LEMMA SaleRowsFit ==
    ASSUME NEW n \in Nat
    PROVE  Rows(invoiceLedger(n)) \in BalancedRows /\ Rows(voidReversalLedger(n)) \in BalancedRows
BY InvoiceRows, VoidRows

\* The cost rows of a step: none, or those of the parts.
LEMMA CogsRowsAre ==
    ASSUME NEW i, NEW cost \in Costs
    PROVE  CogsRows(i, cost) = IF garage.cogs /\ cost \notin {0, None}
                               THEN {Entry("INVOICE_COGS", i, now, cogsLedger(PartsCost))} ELSE {}
<1>1. cost \notin {0, None} => cost = PartsCost
  BY DEF Costs
<1> QED BY <1>1 DEF CogsRows, Posting, Entry

LEMMA OneOrNone ==
    ASSUME NEW A, NEW x, A = {} \/ A = {x}
    PROVE  IsFiniteSet(A)
BY FS_EmptySet, FS_Singleton

LEMMA OwnTypesDiffer ==
    "INVOICE" \in OwnTypes /\ "INVOICE_VOID" \in OwnTypes /\ "INVOICE_COGS" \in OwnTypes
        /\ "INVOICE_COGS_ADJUSTMENT" \in OwnTypes
BY DEF OwnTypes

LEMMA IssuedFacts ==
    ASSUME BooksInv, NEW i \in Issued
    PROVE  /\ i \in Invs /\ inv[i].status # "NONE" /\ InvoiceOK(i) /\ inv[i].sub \in Nat
           /\ inv[i].cost \in Costs /\ PartsCost \in Nat \ {0} /\ now \in Nat
BY BooksAssumption DEF BooksInv, InvoiceOK, Issued

\* What an edit changes of the invoices, and what it does not.
LEMMA RebookChanges ==
    ASSUME NEW i \in Invs, NEW sub, NEW cost, Rebook(i, sub, cost), inv = [k \in Invs |-> inv[k]]
    PROVE  /\ inv' = [k \in Invs |-> inv'[k]] /\ \A k \in Invs \ {i} : inv'[k] = inv[k]
           /\ inv'[i].sub = sub /\ inv'[i].cost = cost
           /\ inv'[i].status = inv[i].status /\ inv'[i].pays = inv[i].pays
           /\ inv'[i].emirate = inv[i].emirate /\ inv'[i].created = inv[i].created
<1> DEFINE one == [inv EXCEPT ![i].sub = sub]
<1>1. inv' = [one EXCEPT ![i].cost = cost]
  BY DEF Rebook
<1>2. one = [inv EXCEPT ![i] = [inv[i] EXCEPT !.sub = sub]]
  OBVIOUS
<1>3. /\ one = [k \in Invs |-> one[k]] /\ \A k \in Invs \ {i} : one[k] = inv[k]
      /\ one[i] = [inv[i] EXCEPT !.sub = sub]
  OBVIOUS
<1> HIDE DEF one
<1>4. inv' = [one EXCEPT ![i] = [one[i] EXCEPT !.cost = cost]]
  BY <1>1, <1>3
<1>5. /\ inv' = [k \in Invs |-> inv'[k]] /\ \A k \in Invs \ {i} : inv'[k] = one[k]
      /\ inv'[i] = [one[i] EXCEPT !.cost = cost]
  BY <1>3, <1>4
<1> QED BY <1>3, <1>5

LEMMA RebookStep ==
    ASSUME BooksInv, NEW i \in Issued, NEW sub \in Subtotals, NEW cost \in Costs,
           Rebook(i, sub, cost), balance' = balance
    PROVE  BooksInv'
<1> DEFINE e == Entry("INVOICE", i, now, invoiceLedger(sub))
           c == Entry("INVOICE_COGS", i, now, cogsLedger(PartsCost))
           C == CogsRows(i, cost)
           R == Of("INVOICE", i) \union IF garage.cogs THEN Of("INVOICE_COGS", i) ELSE {}
           A == {e} \union C
<1>0. /\ i \in Invs /\ inv[i].status # "NONE" /\ InvoiceOK(i) /\ sub \in Nat /\ now \in Nat
      /\ PartsCost \in Nat \ {0} /\ inv = [k \in Invs |-> inv[k]]
  BY IssuedFacts, BooksAssumption DEF BooksInv
<1>1. /\ ledger' = (ledger \ R) \union A
      /\ inv' = [inv EXCEPT ![i].sub = sub, ![i].cost = cost]
      /\ ghosts' = IF inv[i].status = "VOID" THEN ghosts \union {i} ELSE ghosts
      /\ UNCHANGED <<now, card, owner, advance, paper, garage, flipped>>
  <2>1. ledger' = (ledger \ R) \union {Posting("INVOICE", i, invoiceLedger(sub))} \union C
    BY DEF Rebook
  <2>2. Posting("INVOICE", i, invoiceLedger(sub)) = e
    BY DEF Posting, Entry
  <2>3. ledger' = (ledger \ R) \union A
    BY <2>1, <2>2
  <2> QED BY <2>3 DEF Rebook, Haunt
<1>2. /\ inv' = [k \in Invs |-> inv'[k]] /\ \A k \in Invs \ {i} : inv'[k] = inv[k]
      /\ inv'[i].sub = sub /\ inv'[i].cost = cost
      /\ inv'[i].status = inv[i].status /\ inv'[i].pays = inv[i].pays
      /\ inv'[i].emirate = inv[i].emirate
  BY <1>0, RebookChanges
<1>3. C = IF garage.cogs /\ cost \notin {0, None} THEN {c} ELSE {}
  BY CogsRowsAre
<1>4. IsFiniteSet(A)
  BY <1>3, OneOrNone, FS_Singleton, FS_Union
<1>5. /\ e.type = "INVOICE" /\ e.id = i /\ e.at = now /\ e.rows \in BalancedRows
      /\ c.type = "INVOICE_COGS" /\ c.id = i /\ c.at = now /\ c.rows \in BalancedRows
      /\ c.rows["VAT_PAYABLE"] = 0 /\ c.rows["AR"] = 0
  BY <1>0, SaleRowsFit, CostRows DEF Entry
<1>6. \A d \in R : d.type \in OwnTypes /\ d.id = i
  BY OwnTypesDiffer DEF Of
<1> HIDE DEF e, c, C
<1>7. \A d \in A : /\ d.type \in OwnTypes /\ d.id = i /\ d.at = now /\ d.rows \in BalancedRows
                   /\ d.type \in ForInvoices \/ (d.rows["VAT_PAYABLE"] = 0 /\ d.rows["AR"] = 0)
  BY <1>3, <1>5 DEF OwnTypes, ForInvoices
<1>8. Of("INVOICE", i)' = {e}
  <2>1. \A d : d \in Of("INVOICE", i)' <=> d = e
    BY <1>1, <1>3, <1>5 DEF Of
  <2> QED BY <2>1
<1>9. Of("INVOICE_COGS", i)' = IF garage.cogs THEN C ELSE Of("INVOICE_COGS", i)
  <2>1. \A d : d \in Of("INVOICE_COGS", i)' <=> d \in (IF garage.cogs THEN C ELSE Of("INVOICE_COGS", i))
    BY <1>1, <1>3, <1>5 DEF Of
  <2> QED BY <2>1
<1>10. \A t \in {"INVOICE_VOID", "INVOICE_COGS_ADJUSTMENT"} : Of(t, i)' = Of(t, i)
  <2> TAKE t \in {"INVOICE_VOID", "INVOICE_COGS_ADJUSTMENT"}
  <2>1. \A d : d \in Of(t, i)' <=> d \in Of(t, i)
    BY <1>1, <1>3, <1>5 DEF Of
  <2> QED BY <2>1
<1>11. SaleOK(i)'
  <2>1. now \in 0..now'
    BY <1>0, <1>1
  <2>2. Single("INVOICE", i, invoiceLedger(sub))'
    BY <1>8, <2>1 DEF e, Single, Entry, Rows, invoiceLedger, VatOn
  <2> QED BY <1>2, <2>2 DEF SaleOK
<1>12. CostOK(i)'
  <2>1. CASE garage.cogs /\ cost \notin {0, None}
    <3>1. Of("INVOICE_COGS", i)' = {c} /\ now \in 0..now'
      BY <1>0, <1>1, <1>3, <1>9, <2>1
    <3> QED BY <3>1 DEF c, CostOK, Single, Entry, Rows, cogsLedger
  <2>2. CASE garage.cogs /\ cost \in {0, None}
    BY <1>3, <1>9, <2>2 DEF CostOK, Silent
  <2>3. CASE ~garage.cogs
    <3>1. Of("INVOICE_COGS", i)' = Of("INVOICE_COGS", i)
      BY <1>9, <2>3
    <3> QED BY <1>0, <1>1, <3>1 DEF InvoiceOK, CostOK, Silent, Single, Entry, Rows, cogsLedger
  <2> QED BY <2>1, <2>2, <2>3
<1>13. i \in ghosts' \/ VoidOK(i)'
  <2> SUFFICES ASSUME i \notin ghosts' PROVE VoidOK(i)'
    OBVIOUS
  <2>1. i \notin ghosts /\ inv[i].status # "VOID" /\ VoidOK(i)
    BY <1>0, <1>1 DEF InvoiceOK
  <2>2. Silent("INVOICE_VOID", i)' /\ Silent("INVOICE_COGS_ADJUSTMENT", i)'
    BY <1>10, <2>1 DEF VoidOK, Silent
  <2>3. flipped' \/ (Silent("INVOICE_COGS", i)' <=> ~garage.cogs \/ cost \in {0, None})
    <3>1. CASE garage.cogs
      BY <1>3, <1>9, <3>1 DEF Silent
    <3>2. CASE ~garage.cogs
      BY <1>1, <1>9, <2>1, <3>2 DEF VoidOK, Silent
    <3> QED BY <3>1, <3>2
  <2> QED BY <1>1, <1>2, <2>1, <2>2, <2>3 DEF VoidOK
<1>14. inv'[i].status # "NONE" /\ inv'[i].sub \in Nat /\ inv'[i].cost \in Costs /\ ghosts \subseteq ghosts'
  BY <1>0, <1>1, <1>2
<1> HIDE DEF R, A
<1> QED BY <1>1, <1>2, <1>4, <1>6, <1>7, <1>11, <1>12, <1>13, <1>14, SaleStep

LEMMA SendStep ==
    ASSUME BooksInv, NEW i \in Issued, Send(i), balance' = balance
    PROVE  BooksInv'
<1> DEFINE e == Entry("INVOICE", i, now, invoiceLedger(inv[i].sub))
           first == inv[i].prev # {} /\ Of("INVOICE", i) = {}
           A == IF first THEN {e} ELSE {}
<1>0. /\ i \in Invs /\ inv[i].status # "NONE" /\ InvoiceOK(i) /\ inv[i].sub \in Nat /\ now \in Nat
      /\ inv[i].cost \in Costs /\ inv = [k \in Invs |-> inv[k]]
  BY IssuedFacts DEF BooksInv
<1>1. /\ ledger' = (ledger \ {}) \union A
      /\ ghosts' = IF first /\ inv[i].status = "VOID" THEN ghosts \union {i} ELSE ghosts
      /\ UNCHANGED <<now, inv, owner, advance, paper, garage, flipped>>
  <2>1. Posting("INVOICE", i, invoiceLedger(inv[i].sub)) = e
    BY DEF Posting, Entry
  <2>2. ledger' = IF first THEN ledger \union {e} ELSE ledger
    BY <2>1 DEF Send
  <2> HIDE DEF e, first
  <2>3. ledger' = (ledger \ {}) \union A
    BY <2>2
  <2>4. ghosts' = IF first /\ inv[i].status = "VOID" THEN ghosts \union {i} ELSE ghosts
    BY DEF Send, Haunt, first
  <2> QED BY <2>3, <2>4 DEF Send
<1>2. IsFiniteSet(A)
  BY OneOrNone
<1>3. e.type = "INVOICE" /\ e.id = i /\ e.at = now /\ e.rows \in BalancedRows
  BY <1>0, SaleRowsFit DEF Entry
<1> HIDE DEF e
<1>4. \A d \in A : /\ d.type \in OwnTypes /\ d.id = i /\ d.at = now /\ d.rows \in BalancedRows
                   /\ d.type \in ForInvoices \/ (d.rows["VAT_PAYABLE"] = 0 /\ d.rows["AR"] = 0)
  BY <1>3 DEF OwnTypes, ForInvoices
<1>5. \A t \in OwnTypes \ {"INVOICE"} : Of(t, i)' = Of(t, i)
  <2> TAKE t \in OwnTypes \ {"INVOICE"}
  <2>1. \A d : d \in Of(t, i)' <=> d \in Of(t, i)
    BY <1>1, <1>3 DEF Of
  <2> QED BY <2>1
<1>6. Of("INVOICE", i)' = IF first THEN {e} ELSE Of("INVOICE", i)
  <2>1. \A d : d \in Of("INVOICE", i)' <=> d \in (IF first THEN {e} ELSE Of("INVOICE", i))
    BY <1>1, <1>3 DEF Of
  <2> QED BY <2>1
<1>7. SaleOK(i)'
  <2>1. CASE first
    <3>1. Single("INVOICE", i, invoiceLedger(inv[i].sub))'
      BY <1>0, <1>1, <1>6, <2>1 DEF e, Single, Entry, Rows, invoiceLedger, VatOn
    <3> QED BY <3>1 DEF SaleOK
  <2>2. CASE ~first
    BY <1>0, <1>1, <1>6, <2>2
       DEF InvoiceOK, SaleOK, Silent, Single, Entry, Rows, invoiceLedger, VatOn
  <2> QED BY <2>1, <2>2
<1>8. CostOK(i)'
  BY <1>0, <1>1, <1>5, OwnTypesDiffer
     DEF InvoiceOK, CostOK, Silent, Single, Entry, Rows, cogsLedger
<1>9. i \in ghosts' \/ VoidOK(i)'
  <2> SUFFICES ASSUME i \notin ghosts' PROVE VoidOK(i)'
    OBVIOUS
  <2>1. VoidOK(i) /\ (inv[i].status = "VOID" => ~first)
    BY <1>0, <1>1 DEF InvoiceOK
  <2>2. CASE inv[i].status # "VOID"
    BY <1>1, <1>5, <2>1, <2>2, OwnTypesDiffer DEF VoidOK, Silent
  <2>3. CASE inv[i].status = "VOID"
    BY <1>1, <1>5, <1>6, <2>1, <2>3, OwnTypesDiffer
       DEF VoidOK, Silent, Single, Entry, Rows, voidReversalLedger, invoiceLedger, cogsLedger,
           Minus, VatOn
  <2> QED BY <2>2, <2>3
<1>10. /\ inv' = [k \in Invs |-> inv'[k]] /\ \A k \in Invs \ {i} : inv'[k] = inv[k]
       /\ inv'[i].status # "NONE" /\ inv'[i].pays = inv[i].pays /\ inv'[i].sub \in Nat
       /\ inv'[i].cost \in Costs /\ inv'[i].emirate = inv[i].emirate /\ ghosts \subseteq ghosts'
  BY <1>0, <1>1
<1>11. \A d \in {} : d.type \in OwnTypes /\ d.id = i
  OBVIOUS
<1> HIDE DEF A, first
<1> QED BY <1>1, <1>2, <1>4, <1>7, <1>8, <1>9, <1>10, <1>11, SaleStep

LEMMA VoidChanges ==
    ASSUME NEW i \in Invs, Void(i), inv = [k \in Invs |-> inv[k]]
    PROVE  /\ inv' = [k \in Invs |-> inv'[k]] /\ \A k \in Invs \ {i} : inv'[k] = inv[k]
           /\ inv'[i].sub = inv[i].sub /\ inv'[i].cost = inv[i].cost
           /\ inv'[i].status = "VOID" /\ inv'[i].pays = inv[i].pays
           /\ inv'[i].emirate = inv[i].emirate /\ inv'[i].created = inv[i].created
<1>1. inv' = [inv EXCEPT ![i] = [inv[i] EXCEPT !.status = "VOID"]]
  BY DEF Void
<1>2. inv'[i] = [inv[i] EXCEPT !.status = "VOID"]
  BY <1>1
<1>3. inv' = [k \in Invs |-> inv'[k]] /\ \A k \in Invs \ {i} : inv'[k] = inv[k]
  BY <1>1
<1>4. inv'[i].status = "VOID"
  BY <1>2
<1> QED BY <1>2, <1>3, <1>4

LEMMA VoidStep ==
    ASSUME BooksInv, NEW i \in Issued, Void(i), balance' = balance
    PROVE  BooksInv'
<1> DEFINE e == Entry("INVOICE_VOID", i, now, voidReversalLedger(inv[i].sub))
           m == Entry("INVOICE_COGS_ADJUSTMENT", i, now, Minus(cogsLedger(PartsCost)))
           M == IF Silent("INVOICE_COGS", i) THEN {} ELSE {m}
           A == {e} \union M
<1>0. /\ i \in Invs /\ inv[i].status # "NONE" /\ InvoiceOK(i) /\ inv[i].sub \in Nat /\ now \in Nat
      /\ inv[i].cost \in Costs /\ PartsCost \in Nat \ {0} /\ inv = [k \in Invs |-> inv[k]]
  BY IssuedFacts DEF BooksInv
<1>1. {Posting("INVOICE_COGS_ADJUSTMENT", i, Minus(cogsLedger(d.rows.COGS))) :
                       d \in Of("INVOICE_COGS", i)} = M
  <2>1. CASE Silent("INVOICE_COGS", i)
    BY <2>1 DEF Silent
  <2>2. CASE ~Silent("INVOICE_COGS", i)
    <3>1. PICK t \in 0..now : Of("INVOICE_COGS", i)
                                  = {Entry("INVOICE_COGS", i, t, cogsLedger(PartsCost))}
      BY <1>0, <2>2 DEF InvoiceOK, CostOK, Single
    <3> DEFINE d == Entry("INVOICE_COGS", i, t, cogsLedger(PartsCost))
    <3>2. d.rows.COGS = PartsCost
      BY <1>0, CostRows DEF Entry
    <3>3. Posting("INVOICE_COGS_ADJUSTMENT", i, Minus(cogsLedger(d.rows.COGS))) = m
      BY <3>2 DEF Posting, Entry
    <3> HIDE DEF d, m
    <3> QED BY <2>2, <3>1, <3>3 DEF d
  <2> QED BY <2>1, <2>2
<1>2. /\ ledger' = (ledger \ {}) \union A
      /\ inv' = [inv EXCEPT ![i].status = "VOID"]
      /\ ghosts' = IF Of("INVOICE", i) = {} THEN ghosts \union {i} ELSE ghosts
      /\ inv[i].status \in {"DRAFT", "SENT"}
      /\ UNCHANGED <<now, owner, advance, paper, garage, flipped>>
  <2>1. Posting("INVOICE_VOID", i, voidReversalLedger(inv[i].sub)) = e
    BY DEF Posting, Entry
  <2> DEFINE X == {Posting("INVOICE_COGS_ADJUSTMENT", i, Minus(cogsLedger(d.rows.COGS))) :
                       d \in Of("INVOICE_COGS", i)}
  <2>2. ledger' = ledger \union {e} \union X
    BY <2>1 DEF Void
  <2> HIDE DEF e, M, X
  <2>3. X = M
    BY <1>1 DEF X
  <2>4. ledger' = (ledger \ {}) \union A
    BY <2>2, <2>3
  <2> QED BY <2>4 DEF Void, Haunt
<1>3. /\ inv' = [k \in Invs |-> inv'[k]] /\ \A k \in Invs \ {i} : inv'[k] = inv[k]
      /\ inv'[i].sub = inv[i].sub /\ inv'[i].cost = inv[i].cost
      /\ inv'[i].status = "VOID" /\ inv'[i].pays = inv[i].pays
      /\ inv'[i].emirate = inv[i].emirate
  BY <1>0, VoidChanges
<1>4. IsFiniteSet(A)
  BY OneOrNone, FS_Singleton, FS_Union
<1>5. /\ e.type = "INVOICE_VOID" /\ e.id = i /\ e.at = now /\ e.rows \in BalancedRows
      /\ m.type = "INVOICE_COGS_ADJUSTMENT" /\ m.id = i /\ m.at = now /\ m.rows \in BalancedRows
      /\ m.rows["VAT_PAYABLE"] = 0 /\ m.rows["AR"] = 0
  BY <1>0, SaleRowsFit, CostRows DEF Entry
<1> HIDE DEF e, m
<1>6. \A d \in A : /\ d.type \in OwnTypes /\ d.id = i /\ d.at = now /\ d.rows \in BalancedRows
                   /\ d.type \in ForInvoices \/ (d.rows["VAT_PAYABLE"] = 0 /\ d.rows["AR"] = 0)
  BY <1>5 DEF OwnTypes, ForInvoices
<1>7. \A t \in {"INVOICE", "INVOICE_COGS"} : Of(t, i)' = Of(t, i)
  <2> TAKE t \in {"INVOICE", "INVOICE_COGS"}
  <2>1. \A d : d \in Of(t, i)' <=> d \in Of(t, i)
    BY <1>2, <1>5 DEF Of
  <2> QED BY <2>1
<1>8. SaleOK(i)' /\ CostOK(i)'
  BY <1>0, <1>2, <1>3, <1>7 DEF InvoiceOK, SaleOK, CostOK, Silent, Single, Entry, Rows,
     invoiceLedger, cogsLedger, VatOn
<1>9. i \in ghosts' \/ VoidOK(i)'
  <2> SUFFICES ASSUME i \notin ghosts' PROVE VoidOK(i)'
    OBVIOUS
  <2>1. /\ Of("INVOICE", i) # {} /\ VoidOK(i) /\ inv[i].status # "VOID"
    BY <1>0, <1>2 DEF InvoiceOK
  <2>2. Of("INVOICE_VOID", i) = {} /\ Of("INVOICE_COGS_ADJUSTMENT", i) = {}
    BY <2>1 DEF VoidOK, Silent
  <2>3. \A d : d \in Of("INVOICE_VOID", i)' <=> d \in Of("INVOICE_VOID", i) \/ d = e
    BY <1>2, <1>5 DEF Of
  <2>4. \A d : d \in Of("INVOICE_COGS_ADJUSTMENT", i)'
                 <=> d \in Of("INVOICE_COGS_ADJUSTMENT", i) \/ d \in M
    BY <1>2, <1>5 DEF Of
  <2>5. Of("INVOICE_VOID", i)' = {e} /\ Of("INVOICE_COGS_ADJUSTMENT", i)' = M
    <3>1. \A d : d \in Of("INVOICE_VOID", i)' <=> d \in {e}
      BY <2>2, <2>3
    <3>2. \A d : d \in Of("INVOICE_COGS_ADJUSTMENT", i)' <=> d \in M
      BY <2>2, <2>4
    <3> QED BY <3>1, <3>2
  <2> PICK s \in Nat : s = inv[i].sub
    BY <1>0
  <2>6. Single("INVOICE_VOID", i, voidReversalLedger(s))'
    <3>1. Entry("INVOICE_VOID", i, now, voidReversalLedger(s)) = e
      BY DEF e
    <3>2. now \in 0..now'
      BY <1>0, <1>2
    <3>3. Of("INVOICE_VOID", i)' = {Entry("INVOICE_VOID", i, now, voidReversalLedger(s))}
      BY <2>5, <3>1
    <3> QED BY <3>2, <3>3 DEF Single, Entry, Rows, voidReversalLedger, invoiceLedger, Minus, VatOn
  <2>10. inv'[i].sub = s
    BY <1>3
  <2>7. Silent("INVOICE_COGS", i)' <=> Silent("INVOICE_COGS", i)
    BY <1>7 DEF Silent
  <2>8. IF Silent("INVOICE_COGS", i) THEN Silent("INVOICE_COGS_ADJUSTMENT", i)'
        ELSE Single("INVOICE_COGS_ADJUSTMENT", i, Minus(cogsLedger(PartsCost)))'
    <3>1. CASE Silent("INVOICE_COGS", i)
      BY <2>5, <3>1 DEF Silent
    <3>2. CASE ~Silent("INVOICE_COGS", i)
      <4>1. Of("INVOICE_COGS_ADJUSTMENT", i)' = {m} /\ now \in 0..now'
        BY <1>0, <1>2, <2>5, <3>2
      <4> QED BY <3>2, <4>1 DEF m, Single, Entry, Rows, cogsLedger, Minus
    <3> QED BY <3>1, <3>2
  <2>9. ~Silent("INVOICE", i)'
    BY <1>7, <2>1 DEF Silent
  <2> QED BY <1>3, <2>6, <2>7, <2>8, <2>9, <2>10 DEF VoidOK
<1>10. /\ inv'[i].status # "NONE" /\ inv'[i].sub \in Nat /\ inv'[i].cost \in Costs
       /\ ghosts \subseteq ghosts'
  BY <1>0, <1>2, <1>3
<1>11. \A d \in {} : d.type \in OwnTypes /\ d.id = i
  OBVIOUS
<1>12. /\ now' = now /\ advance' = advance /\ paper' = paper /\ garage' = garage
       /\ flipped' = flipped /\ ledger' = (ledger \ {}) \union A
  BY <1>2
<1> HIDE DEF A, M
<1> QED BY <1>3, <1>4, <1>6, <1>8, <1>9, <1>10, <1>11, <1>12, SaleStep

-----------------------------------------------------------------------------
(* The steps on settings, time and papers.                                 *)

LEMMA QuietSteps ==
    ASSUME BooksInv, balance' = balance,
           \/ FlipCogs \/ Tick \/ \E m \in Emirates : SetEmirate(m)
           \/ \E j \in Jobs : Deliver(j) \/ \E c \in Live : Transfer(j, c)
    PROVE  BooksInv'
<1>0. /\ now \in 0..LastPeriod /\ LastPeriod \in Nat
      /\ garage = [cogs |-> garage.cogs, emirate |-> garage.emirate]
      /\ garage.cogs \in BOOLEAN /\ garage.emirate \in Emirates \union {None}
  BY BooksAssumption DEF BooksInv
<1>1. CASE FlipCogs
  <2>1. PICK g, m : g = garage.cogs /\ m = garage.emirate
    OBVIOUS
  <2>2. garage = [cogs |-> g, emirate |-> m] /\ g \in BOOLEAN
    BY <1>0, <2>1
  <2>3. garage' = [cogs |-> ~g, emirate |-> m]
    BY <1>1, <2>2 DEF FlipCogs
  <2>4. /\ garage' = [cogs |-> garage'.cogs, emirate |-> garage'.emirate]
        /\ garage'.cogs \in BOOLEAN /\ garage'.emirate = garage.emirate
    BY <2>1, <2>2, <2>3
  <2>5. /\ flipped' /\ ledger' = ledger /\ inv' = inv /\ advance' = advance /\ paper' = paper
        /\ ghosts' = ghosts /\ now' = now
    BY <1>1 DEF FlipCogs
  <2> QED BY <1>0, <2>4, <2>5, QuietStep
<1>2. CASE Tick
  BY <1>0, <1>2, QuietStep DEF Tick
<1>3. ASSUME NEW m \in Emirates, SetEmirate(m) PROVE BooksInv'
  <2>1. PICK g : g = garage.cogs
    OBVIOUS
  <2>2. garage' = [cogs |-> g, emirate |-> m]
    BY <1>0, <1>3, <2>1 DEF SetEmirate
  <2>3. /\ garage' = [cogs |-> garage'.cogs, emirate |-> garage'.emirate]
        /\ garage'.cogs = garage.cogs /\ garage'.emirate \in Emirates \union {None}
    BY <2>1, <2>2
  <2>4. /\ flipped' = flipped /\ ledger' = ledger /\ inv' = inv /\ advance' = advance
        /\ paper' = paper /\ ghosts' = ghosts /\ now' = now
    BY <1>3 DEF SetEmirate
  <2> QED BY <1>0, <2>3, <2>4, QuietStep
<1>4. ASSUME NEW j \in Jobs, Deliver(j) PROVE BooksInv'
  BY <1>0, <1>4, QuietStep DEF Deliver
<1>5. ASSUME NEW j \in Jobs, NEW c \in Live, Transfer(j, c) PROVE BooksInv'
  BY <1>0, <1>5, QuietStep DEF Transfer
<1> QED BY <1>1, <1>2, <1>3, <1>4, <1>5

\* A step that posts an expense or a bill, or takes it back.
LEMMA PaperStep ==
    ASSUME BooksInv, NEW e, ledger' = ledger \union {e},
           e.type \in {"EXPENSE", "SUPPLIER_BILL", "SUPPLIER_BILL_ADJUSTMENT"}, e.at = now,
           e.rows \in BalancedRows, e.rows["VAT_PAYABLE"] = 0, e.rows["AR"] = 0,
           paper' = [d \in Papers |-> paper'[d]], \A d \in Papers : paper'[d].sub \in Nat,
           now' = now, inv' = inv, advance' = advance, garage' = garage, flipped' = flipped,
           ghosts' = ghosts, balance' = balance
    PROVE  BooksInv'
<1>1. Issued' = Issued /\ now \in Nat /\ now <= LastPeriod
  BY BooksAssumption DEF Issued, BooksInv
<1>2. Monotone
  BY <1>1 DEF Monotone
<1>3. \A t \in OwnTypes \union {"PAYMENT", "ADVANCE", "ADVANCE_MIGRATION"} : \A x :
          Of(t, x)' = Of(t, x)
  <2> SUFFICES ASSUME NEW t \in OwnTypes \union {"PAYMENT", "ADVANCE", "ADVANCE_MIGRATION"}, NEW x
               PROVE  Of(t, x)' = Of(t, x)
    OBVIOUS
  <2>1. e.type # t
    BY DEF OwnTypes
  <2>2. \A d : d \in Of(t, x)' <=> d \in Of(t, x)
    BY <2>1 DEF Of
  <2> QED BY <2>2
<1>4. \A k \in Issued' : InvoiceOK(k)'
  <2> TAKE k \in Issued'
  <2>1. InvoiceOK(k)
    BY <1>1 DEF BooksInv
  <2>2. flipped' \/ (~flipped /\ garage'.cogs = garage.cogs)
    OBVIOUS
  <2>3. \A t \in OwnTypes : Of(t, k)' = Of(t, k)
    BY <1>3
  <2>4. \A p \in inv[k].pays : Of("PAYMENT", p.id)' = Of("PAYMENT", p.id)
    BY <1>3
  <2> QED BY <1>2, <2>1, <2>2, <2>3, <2>4, InvoiceKept
<1>5. \A a \in Advs : AdvanceOK(a)'
  BY <1>2, <1>3, AdvanceKept DEF BooksInv
<1>6. PostingOK(e)'
  <2>1. e.at \in 0..now'
    BY <1>1
  <2> QED BY <2>1 DEF PostingOK, OwnTypes, ForInvoices, Receivable
<1>7. ledger' = (ledger \ {}) \union {e} /\ IsFiniteSet({e}) /\ \A d \in {e} : PostingOK(d)'
  BY <1>6, FS_Singleton
<1>8. /\ inv' = [k \in Invs |-> inv'[k]] /\ advance' = [a \in Advs |-> advance'[a]]
      /\ garage' = [cogs |-> garage'.cogs, emirate |-> garage'.emirate]
      /\ garage'.cogs \in BOOLEAN /\ garage'.emirate \in Emirates \union {None}
  BY DEF BooksInv
<1>9. now' <= LastPeriod
  BY <1>1
<1> QED BY <1>2, <1>4, <1>5, <1>7, <1>8, <1>9, AllKept

LEMMA SpendingStep ==
    ASSUME BooksInv, NEW d \in Papers, NEW kind \in {"EXPENSE", "SUPPLIER_BILL"},
           NEW sub \in Subtotals, Spending(d, kind, sub), balance' = balance
    PROVE  BooksInv'
<1> DEFINE e == Posting(kind, d, PaperRows(kind, sub))
<1>0. sub \in Nat /\ paper = [x \in Papers |-> paper[x]] /\ \A x \in Papers : paper[x].sub \in Nat
  BY BooksAssumption DEF BooksInv
<1>1. /\ e.type = kind /\ e.at = now /\ e.rows \in BalancedRows
      /\ e.rows["VAT_PAYABLE"] = 0 /\ e.rows["AR"] = 0
  BY <1>0, PaperRowsAre DEF Posting
<1>2. /\ paper' = [x \in Papers |-> paper'[x]] /\ \A x \in Papers : paper'[x].sub \in Nat
  <2>1. paper' = [paper EXCEPT ![d] = [kind |-> kind, sub |-> sub, status |-> "ACTIVE"]]
    BY DEF Spending
  <2> QED BY <1>0, <2>1
<1>3. ledger' = ledger \union {e}
  BY DEF Spending
<1>4. /\ now' = now /\ inv' = inv /\ advance' = advance /\ garage' = garage
      /\ flipped' = flipped /\ ghosts' = ghosts
  BY DEF Spending
<1> HIDE DEF e
<1> QED BY <1>1, <1>2, <1>3, <1>4, PaperStep

LEMMA UnspendStep ==
    ASSUME BooksInv, NEW d \in Papers, Unspend(d), balance' = balance
    PROVE  BooksInv'
<1> DEFINE kind == paper[d].kind
           sub == paper[d].sub
           type == IF kind = "EXPENSE" THEN "EXPENSE" ELSE "SUPPLIER_BILL_ADJUSTMENT"
           e == Posting(type, d, Minus(PaperRows(kind, sub)))
<1>0. sub \in Nat /\ paper = [x \in Papers |-> paper[x]] /\ \A x \in Papers : paper[x].sub \in Nat
  BY DEF BooksInv
<1>1. /\ e.type = type /\ e.at = now /\ e.rows \in BalancedRows
      /\ e.rows["VAT_PAYABLE"] = 0 /\ e.rows["AR"] = 0
  BY <1>0, PaperRowsAre DEF Posting
<1>2. /\ paper' = [x \in Papers |-> paper'[x]] /\ \A x \in Papers : paper'[x].sub \in Nat
  <2>1. paper' = [paper EXCEPT ![d] = [paper[d] EXCEPT !.status = "VOID"]]
    BY <1>0 DEF Unspend
  <2>2. [paper[d] EXCEPT !.status = "VOID"].sub = paper[d].sub
    OBVIOUS
  <2> QED BY <1>0, <2>1, <2>2
<1>3. ledger' = ledger \union {e}
  BY DEF Unspend
<1>4. /\ now' = now /\ inv' = inv /\ advance' = advance /\ garage' = garage
      /\ flipped' = flipped /\ ghosts' = ghosts
  BY DEF Unspend
<1>5. e.type \in {"EXPENSE", "SUPPLIER_BILL", "SUPPLIER_BILL_ADJUSTMENT"}
  BY <1>1
<1> HIDE DEF e, type
<1> QED BY <1>1, <1>2, <1>3, <1>4, <1>5, PaperStep

-----------------------------------------------------------------------------
(* The steps that make an invoice, a payment or an advance.                *)

\* What is not issued has no postings.
LEMMA FreshSilent ==
    ASSUME BooksInv, NEW k \in Free
    PROVE  /\ k \in Invs /\ k \notin Issued /\ \A t \in OwnTypes : Of(t, k) = {}
           /\ \A x : Of("PAYMENT", <<k, x>>) = {}
           /\ \A a \in Advs : advance[a].inv # k
<1>1. k \in Invs /\ k \notin Issued
  BY DEF Free, Issued
<1>2. ASSUME NEW t \in OwnTypes, NEW e \in Of(t, k) PROVE FALSE
  BY <1>1 DEF Of, BooksInv, PostingOK
<1>3. ASSUME NEW x, NEW e \in Of("PAYMENT", <<k, x>>) PROVE FALSE
  <2>1. PICK i \in Issued : \E p \in inv[i].pays : e.id = p.id
    BY DEF Of, BooksInv, PostingOK
  <2>2. PICK p \in inv[i].pays : e.id = p.id
    BY <2>1
  <2>3. p.id = <<i, p.id[2]>>
    BY DEF BooksInv, InvoiceOK, PaysOK
  <2>4. e.id = <<k, x>>
    BY DEF Of
  <2>5. i = k
    BY <2>2, <2>3, <2>4
  <2> QED BY <1>1, <2>5
<1>4. \A a \in Advs : advance[a].inv # k
  <2> TAKE a \in Advs
  <2>1. advance[a].inv = None \/ advance[a].inv \in Issued
    BY DEF BooksInv, AdvanceOK
  <2> QED BY <1>1, <2>1, BooksAssumption
<1> QED BY <1>1, <1>2, <1>3, <1>4

LEMMA ReissueStep ==
    ASSUME BooksInv, NEW i \in Issued, NEW k \in Free, Reissue(i, k), balance' = balance
    PROVE  BooksInv'
<1> DEFINE cost == IF inv[i].cost = 0 THEN 0 ELSE None
           new == [NoInv EXCEPT !.status = "DRAFT", !.job = inv[i].job, !.created = now,
                    !.emirate = garage.emirate, !.sub = inv[i].sub, !.prev = {i},
                    !.cost = cost]
<1>0. /\ inv = [l \in Invs |-> inv[l]] /\ inv[i].sub \in Nat /\ now \in Nat /\ now <= LastPeriod
      /\ garage.emirate \in Emirates \union {None}
  BY IssuedFacts, BooksAssumption DEF BooksInv
<1>1. /\ k \in Invs /\ k \notin Issued /\ \A t \in OwnTypes : Of(t, k) = {}
      /\ \A a \in Advs : advance[a].inv # k
  BY FreshSilent
<1>2. /\ inv' = [inv EXCEPT ![k] = new] /\ ledger' = ledger /\ advance' = advance
      /\ paper' = paper /\ garage' = garage /\ now' = now /\ ghosts' = ghosts
      /\ flipped' = flipped
  BY DEF Reissue
<1>3. /\ new.status = "DRAFT" /\ new.sub = inv[i].sub /\ new.pays = {} /\ new.cost \in {0, None}
      /\ new.emirate = garage.emirate
  BY DEF NoInv
<1> HIDE DEF new
<1>4. /\ inv' = [l \in Invs |-> inv'[l]] /\ \A l \in Invs \ {k} : inv'[l] = inv[l]
      /\ inv'[k] = new
  BY <1>0, <1>1, <1>2
<1>5. Issued' = Issued \union {k}
  <2>1. \A l : l \in Issued' <=> l \in Issued \union {k}
    BY <1>1, <1>3, <1>4 DEF Issued
  <2> QED BY <2>1
<1>6. Monotone
  <2>1. \A l \in Issued : l \in Issued' /\ inv[l].pays \subseteq inv'[l].pays
    BY <1>1, <1>4, <1>5 DEF Issued
  <2> QED BY <1>0, <1>2, <2>1 DEF Monotone
<1>7. \A t, x : Of(t, x)' = Of(t, x)
  BY <1>2 DEF Of
<1>8. InvoiceOK(k)'
  <2>1. \A t \in OwnTypes : Silent(t, k)'
    BY <1>1, <1>7 DEF Silent
  <2>2. PaysOK(k)'
    BY <1>1, <1>2, <1>3, <1>4, FS_EmptySet DEF PaysOK
  <2>3. VoidOK(k)'
    BY <1>3, <1>4, <2>1, OwnTypesDiffer DEF VoidOK
  <2> QED BY <1>0, <1>3, <1>4, <2>1, <2>2, <2>3, OwnTypesDiffer DEF InvoiceOK, SaleOK, CostOK, Costs
<1>9. \A l \in Issued' : InvoiceOK(l)'
  <2> TAKE l \in Issued'
  <2>1. CASE l = k
    BY <1>8, <2>1
  <2>2. CASE l # k
    <3>1. l \in Issued /\ InvoiceOK(l) /\ inv'[l] = inv[l]
      BY <1>4, <1>5, <2>2 DEF BooksInv, Issued
    <3>2. flipped' \/ (~flipped /\ garage'.cogs = garage.cogs)
      BY <1>2
    <3> QED BY <1>2, <1>6, <1>7, <3>1, <3>2, InvoiceKept
  <2> QED BY <2>1, <2>2
<1>10. \A a \in Advs : AdvanceOK(a)'
  BY <1>2, <1>6, <1>7, AdvanceKept DEF BooksInv
<1>11. ledger' = (ledger \ {}) \union {} /\ IsFiniteSet({}) /\ \A d \in {} : PostingOK(d)'
  BY <1>2, FS_EmptySet
<1>12. /\ advance' = [a \in Advs |-> advance'[a]] /\ now' <= LastPeriod
       /\ paper' = [d \in Papers |-> paper'[d]] /\ \A d \in Papers : paper'[d].sub \in Nat
       /\ garage' = [cogs |-> garage'.cogs, emirate |-> garage'.emirate]
       /\ garage'.cogs \in BOOLEAN /\ garage'.emirate \in Emirates \union {None}
  BY <1>0, <1>2 DEF BooksInv
<1> QED BY <1>4, <1>6, <1>9, <1>10, <1>11, <1>12, AllKept

LEMMA AmountIsNat ==
    ASSUME BooksInv, NEW n \in Amounts \ {0}, n > 0
    PROVE  n \in Nat
<1>1. CASE n = 1
  BY <1>1
<1>2. ASSUME NEW i \in Issued, n = Total(i) - Paid(i) PROVE n \in Nat
  <2>1. inv[i].sub \in Nat /\ Paid(i) \in Int
    BY IssuedFacts, SettledBalance
  <2>2. VatOn(inv[i].sub) \in Nat
    BY <2>1, VatIsNat
  <2>3. n \in Int
    BY <1>2, <2>1, <2>2 DEF Total
  <2> QED BY <2>3
<1> QED BY <1>1, <1>2 DEF Amounts

LEMMA PayChanges ==
    ASSUME NEW i \in Invs, NEW n, Pay(i, n), inv = [k \in Invs |-> inv[k]],
           NEW p, p = [id |-> <<i, Cardinality(inv[i].pays)>>, amount |-> n]
    PROVE  /\ inv' = [k \in Invs |-> inv'[k]] /\ \A k \in Invs \ {i} : inv'[k] = inv[k]
           /\ inv'[i].pays = inv[i].pays \union {p} /\ inv'[i].status \in {inv[i].status, "PAID"}
           /\ inv'[i].sub = inv[i].sub /\ inv'[i].cost = inv[i].cost
           /\ inv'[i].emirate = inv[i].emirate /\ inv'[i].created = inv[i].created
<1>1. PICK status : status = IF Paid(i) + n >= Total(i) THEN "PAID" ELSE inv[i].status
  OBVIOUS
<1> PICK all : all = inv[i].pays \union {p}
  OBVIOUS
<1> DEFINE one == [inv EXCEPT ![i].pays = @ \union {p}]
<1>2. inv' = [[inv EXCEPT ![i].pays = @ \union {p}] EXCEPT ![i].status =
                  IF Paid(i) + n >= Total(i) THEN "PAID" ELSE inv[i].status]
  BY DEF Pay
<1>3. one = [inv EXCEPT ![i] = [inv[i] EXCEPT !.pays = all]]
  OBVIOUS
<1>4. /\ one = [k \in Invs |-> one[k]] /\ \A k \in Invs \ {i} : one[k] = inv[k]
      /\ one[i] = [inv[i] EXCEPT !.pays = all]
  BY <1>3
<1>5. inv' = [one EXCEPT ![i].status = status]
  BY <1>1, <1>2
<1> HIDE DEF one
<1>6. inv' = [one EXCEPT ![i] = [one[i] EXCEPT !.status = status]]
  BY <1>4, <1>5
<1>7. /\ inv' = [k \in Invs |-> inv'[k]] /\ \A k \in Invs \ {i} : inv'[k] = one[k]
      /\ inv'[i] = [one[i] EXCEPT !.status = status]
  BY <1>4, <1>6
<1>8. status \in {inv[i].status, "PAID"}
  BY <1>1
<1>9. inv'[i].pays = all /\ inv'[i].sub = inv[i].sub /\ inv'[i].cost = inv[i].cost
      /\ inv'[i].emirate = inv[i].emirate /\ inv'[i].created = inv[i].created
      /\ inv'[i].status \in {inv[i].status, "PAID"}
  BY <1>4, <1>7, <1>8
<1> QED BY <1>4, <1>7, <1>9

LEMMA PayStep ==
    ASSUME BooksInv, NEW i \in Issued, NEW n \in Nat, Pay(i, n), balance' = balance
    PROVE  BooksInv'
<1> PICK N : N = Cardinality(inv[i].pays)
  OBVIOUS
<1> PICK pays : pays = inv[i].pays
  OBVIOUS
<1> DEFINE id == <<i, N>>
           p == [id |-> id, amount |-> n]
<1> PICK e : e = Entry("PAYMENT", id, now, paymentLedger(n))
  OBVIOUS
<1>0. /\ i \in Invs /\ inv = [k \in Invs |-> inv[k]] /\ InvoiceOK(i) /\ now \in Nat
      /\ now <= LastPeriod /\ inv[i].status # "NONE"
  <2>1. now \in 0..LastPeriod /\ inv = [k \in Invs |-> inv[k]]
    BY DEF BooksInv
  <2> QED BY <2>1, IssuedFacts, BooksAssumption
<1>1. /\ ledger' = ledger \union {e} /\ advance' = advance
      /\ paper' = paper /\ garage' = garage /\ now' = now /\ flipped' = flipped
      /\ ghosts' = IF inv[i].status = "VOID" THEN ghosts \union {i} ELSE ghosts
  <2>1. Posting("PAYMENT", Source(i, p), paymentLedger(n)) = e
    BY DEF Posting, Entry, Source
  <2>2. ledger' = ledger \union {Posting("PAYMENT", Source(i, p), paymentLedger(n))}
    BY DEF Pay
  <2> HIDE DEF p
  <2> QED BY <2>1, <2>2 DEF Pay, Haunt
<1>2. /\ inv' = [k \in Invs |-> inv'[k]] /\ \A k \in Invs \ {i} : inv'[k] = inv[k]
      /\ inv'[i].pays = pays \union {p} /\ inv'[i].status \in {inv[i].status, "PAID"}
      /\ inv'[i].sub = inv[i].sub /\ inv'[i].cost = inv[i].cost
      /\ inv'[i].emirate = inv[i].emirate
  BY <1>0, PayChanges
<1>3. /\ e.type = "PAYMENT" /\ e.id = id /\ e.at = now /\ e.rows \in BalancedRows
      /\ e.rows["VAT_PAYABLE"] = 0 /\ p.id = id /\ p.amount = n
  BY PaymentRows DEF Entry
<1>4. IsFiniteSet(pays) /\ N \in Nat /\ N \notin Advs
  <2>1. IsFiniteSet(pays)
    BY <1>0 DEF InvoiceOK, PaysOK
  <2> QED BY <2>1, FS_CardinalityType, BooksAssumption
<1>5. \A q \in pays : /\ q.amount \in Nat /\ q.id = <<i, q.id[2]>> /\ q.id[2] # N /\ q.id # id
                      /\ Numbered(i, q) \/ Migrated(i, q)
  <2> TAKE q \in pays
  <2>1. q.amount \in Nat /\ q.id = <<i, q.id[2]>> /\ (Numbered(i, q) \/ Migrated(i, q))
    BY <1>0 DEF InvoiceOK, PaysOK
  <2>2. q.id[2] # N
    BY <1>4, <2>1 DEF Numbered, Migrated
  <2> QED BY <2>1, <2>2
<1>6. Of("PAYMENT", id) = {}
  <2> SUFFICES ASSUME NEW d \in Of("PAYMENT", id) PROVE FALSE
    OBVIOUS
  <2>1. PICK k \in Issued : \E q \in inv[k].pays : d.id = q.id
    BY DEF Of, BooksInv, PostingOK
  <2>2. PICK q \in inv[k].pays : d.id = q.id
    BY <2>1
  <2>3. q.id = <<k, q.id[2]>> /\ d.id = id
    BY DEF BooksInv, InvoiceOK, PaysOK, Of
  <2>4. k = i
    BY <2>2, <2>3
  <2> QED BY <1>5, <2>2, <2>3, <2>4
<1> HIDE DEF p
<1>7. Of("PAYMENT", id)' = {e}
  <2>1. \A d : d \in Of("PAYMENT", id)' <=> d \in Of("PAYMENT", id) \/ d = e
    BY <1>1, <1>3 DEF Of
  <2>2. \A d : d \in Of("PAYMENT", id)' <=> d \in {e}
    BY <1>6, <2>1
  <2> QED BY <2>2
<1>8. \A t, x : t # "PAYMENT" \/ x # id => Of(t, x)' = Of(t, x)
  <2> SUFFICES ASSUME NEW t, NEW x, t # "PAYMENT" \/ x # id PROVE Of(t, x)' = Of(t, x)
    OBVIOUS
  <2>1. \A d : d \in Of(t, x)' <=> d \in Of(t, x)
    BY <1>1, <1>3 DEF Of
  <2> QED BY <2>1
<1>9. Issued' = Issued
  <2>1. \A k \in Invs : inv'[k].status # "NONE" <=> inv[k].status # "NONE"
    BY <1>0, <1>2
  <2> QED BY <2>1 DEF Issued
<1>10. Monotone
  <2>1. \A k \in Issued : inv[k].pays \subseteq inv'[k].pays
    BY <1>2 DEF Issued
  <2> QED BY <1>0, <1>1, <1>9, <2>1 DEF Monotone
<1>11. PaysOK(i)'
  <2>1. IsFiniteSet(inv'[i].pays) /\ Cardinality(inv'[i].pays) = N + 1
    <3>1. p \notin pays
      BY <1>3, <1>5
    <3> QED BY <1>2, <1>4, <3>1, FS_AddElement, SMTT(40)
  <2>2. \A q, r \in inv'[i].pays : q.id = r.id => q = r
    <3>1. \A q, r \in pays : q.id = r.id => q = r
      BY <1>0 DEF InvoiceOK, PaysOK
    <3> QED BY <1>2, <1>3, <1>5, <3>1
  <2>3. ASSUME NEW q \in pays
        PROVE  q.amount \in Nat /\ q.id = <<i, q.id[2]>> /\ (Numbered(i, q)' \/ Migrated(i, q)')
    <3>1. Of("PAYMENT", q.id)' = Of("PAYMENT", q.id)
      BY <1>5, <1>8
    <3>2. CASE Numbered(i, q)
      <4>1. Single("PAYMENT", q.id, paymentLedger(q.amount))'
        BY <1>10, <3>1, <3>2, SingleKept DEF Numbered
      <4>2. q.id[2] \in 0..(N + 1) - 1
        BY <1>4, <3>2 DEF Numbered
      <4> QED BY <1>5, <2>1, <4>1, <4>2 DEF Numbered
    <3>3. CASE Migrated(i, q)
      <4>1. Silent("PAYMENT", q.id)'
        BY <3>1, <3>3, SilentKept DEF Migrated
      <4> QED BY <1>1, <1>5, <3>3, <4>1 DEF Migrated
    <3> QED BY <1>5, <3>2, <3>3
  <2>4. p.amount \in Nat /\ p.id = <<i, p.id[2]>> /\ Numbered(i, p)'
    <3>1. p.id = id /\ p.amount = n /\ id[2] = N
      BY <1>3
    <3>2. Single("PAYMENT", id, paymentLedger(n))'
      <4>1. now \in 0..now'
        BY <1>0, <1>1
      <4> QED BY <1>7, <4>1 DEF Single, Entry, Rows, paymentLedger
    <3>3. N \in 0..(N + 1) - 1
      BY <1>4
    <3>4. Single("PAYMENT", p.id, paymentLedger(p.amount))'
      BY <3>1, <3>2
    <3>5. p.id[2] \in 0..Cardinality(inv'[i].pays) - 1
      BY <2>1, <3>1, <3>3
    <3> QED BY <3>1, <3>4, <3>5 DEF Numbered
  <2>5. \A a \in Advs : advance'[a].inv = i => \E q \in inv'[i].pays : q.id = <<i, a>>
    BY <1>0, <1>1, <1>2 DEF InvoiceOK, PaysOK
  <2> QED BY <1>2, <2>1, <2>2, <2>3, <2>4, <2>5 DEF PaysOK
<1>12. InvoiceOK(i)'
  <2>0. "PAYMENT" \notin OwnTypes
    BY DEF OwnTypes
  <2>1. \A t \in OwnTypes : Of(t, i)' = Of(t, i)
    BY <1>8, <2>0
  <2>2. SaleOK(i)' /\ CostOK(i)'
    BY <1>0, <1>1, <1>2, <2>1, OwnTypesDiffer DEF InvoiceOK, SaleOK, CostOK, Silent, Single,
       Entry, Rows, invoiceLedger, cogsLedger, VatOn
  <2>3. i \in ghosts' \/ VoidOK(i)'
    <3> SUFFICES ASSUME i \notin ghosts' PROVE VoidOK(i)'
      OBVIOUS
    <3>1. inv[i].status # "VOID" /\ VoidOK(i) /\ inv'[i].status # "VOID"
      BY <1>0, <1>1, <1>2 DEF InvoiceOK
    <3> QED BY <1>1, <1>2, <2>1, <3>1, OwnTypesDiffer DEF VoidOK, Silent
  <2> QED BY <1>0, <1>2, <1>11, <2>2, <2>3 DEF InvoiceOK
<1>13. \A k \in Issued' : InvoiceOK(k)'
  <2> TAKE k \in Issued'
  <2>1. CASE k = i
    BY <1>12, <2>1
  <2>2. CASE k # i
    <3>1. InvoiceOK(k) /\ inv'[k] = inv[k]
      BY <1>2, <1>9, <2>2 DEF BooksInv, Issued
    <3>2. \A t \in OwnTypes : Of(t, k)' = Of(t, k)
      BY <1>8 DEF OwnTypes
    <3>3. ASSUME NEW q \in inv[k].pays PROVE Of("PAYMENT", q.id)' = Of("PAYMENT", q.id)
      <4>1. q.id = <<k, q.id[2]>>
        BY <3>1 DEF InvoiceOK, PaysOK
      <4>2. q.id # id
        BY <2>2, <4>1
      <4> QED BY <1>8, <4>2
    <3>4. /\ flipped' \/ (~flipped /\ garage'.cogs = garage.cogs)
          /\ k \in ghosts => k \in ghosts'
      BY <1>1
    <3> QED BY <1>1, <1>10, <3>1, <3>2, <3>3, <3>4, InvoiceKept
  <2> QED BY <2>1, <2>2
<1>14. \A a \in Advs : AdvanceOK(a)'
  BY <1>1, <1>8, <1>10, AdvanceKept DEF BooksInv
<1>15. PostingOK(e)'
  <2>1. e.at \in 0..now' /\ p \in inv'[i].pays /\ e.id = p.id /\ i \in Issued'
    BY <1>0, <1>1, <1>2, <1>3, <1>9
  <2>2. \E k \in Issued' : \E q \in inv'[k].pays : e.id = q.id
    BY <2>1
  <2> QED BY <1>3, <2>1, <2>2 DEF PostingOK, OwnTypes, ForInvoices, Receivable
<1>16. /\ ledger' = (ledger \ {}) \union {e} /\ IsFiniteSet({e}) /\ \A d \in {e} : PostingOK(d)'
       /\ now' <= LastPeriod
  BY <1>0, <1>1, <1>15, FS_Singleton
<1>17. /\ advance' = [a \in Advs |-> advance'[a]]
       /\ paper' = [d \in Papers |-> paper'[d]] /\ \A d \in Papers : paper'[d].sub \in Nat
       /\ garage' = [cogs |-> garage'.cogs, emirate |-> garage'.emirate]
       /\ garage'.cogs \in BOOLEAN /\ garage'.emirate \in Emirates \union {None}
  BY <1>1 DEF BooksInv
<1>18. inv' = [k \in Invs |-> inv'[k]]
  BY <1>2
<1> QED BY <1>10, <1>13, <1>14, <1>16, <1>17, <1>18, AllKept

LEMMA AdvanceStep ==
    ASSUME BooksInv, NEW a \in Advs, NEW j \in Jobs, NEW n \in Nat, Advance(a, j, n),
           balance' = balance
    PROVE  BooksInv'
<1> PICK e : e = Entry("ADVANCE", a, now, advanceLedger(n))
  OBVIOUS
<1> PICK row : row = [job |-> j, amount |-> n, inv |-> None]
  OBVIOUS
<1>0. /\ advance = [b \in Advs |-> advance[b]] /\ AdvanceOK(a) /\ now \in Nat
      /\ now <= LastPeriod /\ j # None /\ None \notin Invs
  <2>1. now \in 0..LastPeriod /\ advance = [b \in Advs |-> advance[b]] /\ AdvanceOK(a)
    BY DEF BooksInv
  <2> QED BY <2>1, BooksAssumption
<1>1. /\ ledger' = ledger \union {e} /\ advance' = [advance EXCEPT ![a] = row]
      /\ advance[a].job = None /\ inv' = inv /\ paper' = paper /\ garage' = garage
      /\ now' = now /\ flipped' = flipped /\ ghosts' = ghosts
  <2>1. Posting("ADVANCE", a, advanceLedger(n)) = e
    BY DEF Posting, Entry
  <2> QED BY <2>1 DEF Advance
<1>2. /\ advance' = [b \in Advs |-> advance'[b]] /\ advance'[a] = row
      /\ \A b \in Advs \ {a} : advance'[b] = advance[b]
      /\ row.job = j /\ row.amount = n /\ row.inv = None
  BY <1>0, <1>1
<1>3. /\ e.type = "ADVANCE" /\ e.id = a /\ e.at = now /\ e.rows \in BalancedRows
      /\ e.rows["VAT_PAYABLE"] = 0 /\ e.rows["AR"] = 0
  BY AdvanceRows DEF Entry
<1>4. advance[a].inv = None /\ Of("ADVANCE", a) = {} /\ Of("ADVANCE_MIGRATION", a) = {}
  BY <1>0, <1>1 DEF AdvanceOK, Silent
<1>5. Of("ADVANCE", a)' = {e}
  <2>1. \A d : d \in Of("ADVANCE", a)' <=> d \in Of("ADVANCE", a) \/ d = e
    BY <1>1, <1>3 DEF Of
  <2>2. \A d : d \in Of("ADVANCE", a)' <=> d \in {e}
    BY <1>4, <2>1
  <2> QED BY <2>2
<1>6. \A t, x : t # "ADVANCE" \/ x # a => Of(t, x)' = Of(t, x)
  <2> SUFFICES ASSUME NEW t, NEW x, t # "ADVANCE" \/ x # a PROVE Of(t, x)' = Of(t, x)
    OBVIOUS
  <2>1. \A d : d \in Of(t, x)' <=> d \in Of(t, x)
    BY <1>1, <1>3 DEF Of
  <2> QED BY <2>1
<1>7. Issued' = Issued /\ Issued \subseteq Invs
  BY <1>1 DEF Issued
<1>8. Monotone
  <2>1. \A b \in Advs : /\ advance[b].job # None => advance'[b].job # None
                        /\ advance[b].inv \in Issued => advance'[b].inv = advance[b].inv
    BY <1>0, <1>1, <1>2, <1>4, <1>7
  <2> QED BY <1>0, <1>1, <1>7, <2>1 DEF Monotone
<1>9. \A k \in Issued' : InvoiceOK(k)'
  <2> TAKE k \in Issued'
  <2>1. InvoiceOK(k) /\ k # None
    BY <1>0, <1>7 DEF BooksInv
  <2>2. \A t \in OwnTypes : Of(t, k)' = Of(t, k)
    BY <1>6 DEF OwnTypes
  <2>3. \A p \in inv[k].pays : Of("PAYMENT", p.id)' = Of("PAYMENT", p.id)
    BY <1>6
  <2>4. \A b \in Advs : \/ advance'[b] = advance[b]
                        \/ advance[b].inv # k /\ advance'[b].inv # k
    BY <1>2, <1>4, <2>1
  <2>5. flipped' \/ (~flipped /\ garage'.cogs = garage.cogs)
    BY <1>1
  <2> QED BY <1>1, <1>8, <2>1, <2>2, <2>3, <2>4, <2>5, InvoiceKept
<1>10. AdvanceOK(a)'
  <2>1. Single("ADVANCE", a, advanceLedger(n))'
    <3>1. now \in 0..now'
      BY <1>0, <1>1
    <3> QED BY <1>5, <3>1 DEF Single, Entry, Rows, advanceLedger
  <2>2. Silent("ADVANCE_MIGRATION", a)'
    BY <1>4, <1>6 DEF Silent
  <2> QED BY <1>0, <1>2, <2>1, <2>2 DEF AdvanceOK
<1>11. \A b \in Advs : AdvanceOK(b)'
  <2> TAKE b \in Advs
  <2>1. CASE b = a
    BY <1>10, <2>1
  <2>2. CASE b # a
    <3>1. AdvanceOK(b) /\ advance'[b] = advance[b]
      BY <1>2, <2>2 DEF BooksInv
    <3>2. /\ Of("ADVANCE", b)' = Of("ADVANCE", b)
          /\ Of("ADVANCE_MIGRATION", b)' = Of("ADVANCE_MIGRATION", b)
      BY <1>6, <2>2
    <3> QED BY <1>8, <3>1, <3>2, AdvanceKept
  <2> QED BY <2>1, <2>2
<1>12. PostingOK(e)'
  <2>1. e.at \in 0..now' /\ advance'[a].job # None
    BY <1>0, <1>1, <1>2, <1>3
  <2> QED BY <1>3, <2>1 DEF PostingOK, OwnTypes, ForInvoices, Receivable
<1>13. /\ ledger' = (ledger \ {}) \union {e} /\ IsFiniteSet({e}) /\ \A d \in {e} : PostingOK(d)'
       /\ now' <= LastPeriod
  BY <1>0, <1>1, <1>12, FS_Singleton
<1>14. /\ inv' = [k \in Invs |-> inv'[k]]
       /\ paper' = [d \in Papers |-> paper'[d]] /\ \A d \in Papers : paper'[d].sub \in Nat
       /\ garage' = [cogs |-> garage'.cogs, emirate |-> garage'.emirate]
       /\ garage'.cogs \in BOOLEAN /\ garage'.emirate \in Emirates \union {None}
  BY <1>1 DEF BooksInv
<1> QED BY <1>2, <1>8, <1>9, <1>11, <1>13, <1>14, AllKept

\* An invoice is made for a job: its rows, those of its cost, and the migration of the
\* advances taken for the job before it.
LEMMA GenerateStep ==
    ASSUME BooksInv, NEW j \in Jobs, NEW i \in Free, NEW cost \in Costs, Generate(j, i, cost),
           balance' = balance
    PROVE  BooksInv'
<1> PICK mine : mine = {a \in Advs : advance[a].job = j /\ advance[a].inv = None}
  OBVIOUS
<1> PICK sub : sub = Quote[j]
  OBVIOUS
<1> PICK pays : pays = {[id |-> <<i, a>>, amount |-> advance[a].amount] : a \in mine}
  OBVIOUS
<1> PICK e : e = Entry("INVOICE", i, now, invoiceLedger(sub))
  OBVIOUS
<1> PICK c : c = Entry("INVOICE_COGS", i, now, cogsLedger(PartsCost))
  OBVIOUS
<1> PICK C : C = CogsRows(i, cost)
  OBVIOUS
<1> PICK M : M = {Entry("ADVANCE_MIGRATION", a, now, advanceMigrationLedger(advance[a].amount)) :
                      a \in mine}
  OBVIOUS
<1> PICK A : A = {e} \union C \union M
  OBVIOUS
<1>0. /\ advance = [b \in Advs |-> advance[b]] /\ now \in Nat /\ now <= LastPeriod
      /\ inv = [k \in Invs |-> inv[k]] /\ j # None /\ None \notin Invs /\ IsFiniteSet(Advs)
      /\ sub \in Nat /\ PartsCost \in Nat \ {0}
      /\ garage.emirate \in Emirates \union {None}
  <2>1. /\ now \in 0..LastPeriod /\ advance = [b \in Advs |-> advance[b]]
        /\ inv = [k \in Invs |-> inv[k]] /\ garage.emirate \in Emirates \union {None}
    BY DEF BooksInv
  <2>2. Quote[j] \in Nat
    BY BooksAssumption
  <2> QED BY <2>1, <2>2, BooksAssumption
<1>1. /\ i \in Invs /\ i \notin Issued /\ \A t \in OwnTypes : Of(t, i) = {}
      /\ \A x : Of("PAYMENT", <<i, x>>) = {} /\ \A a \in Advs : advance[a].inv # i
  BY FreshSilent
<1>2. /\ ledger' = ledger \union A /\ paper' = paper /\ garage' = garage /\ now' = now
      /\ flipped' = flipped /\ ghosts' = ghosts
      /\ advance' = [a \in Advs |-> IF a \in mine THEN [advance[a] EXCEPT !.inv = i]
                                                  ELSE advance[a]]
  <2>1. Posting("INVOICE", i, invoiceLedger(sub)) = e
    BY DEF Posting, Entry
  <2>2. M = {Posting("ADVANCE_MIGRATION", a, advanceMigrationLedger(advance[a].amount)) : a \in mine}
    BY DEF Posting, Entry
  <2>3. ledger' = ledger \union {Posting("INVOICE", i, invoiceLedger(sub))} \union C
                         \union {Posting("ADVANCE_MIGRATION", a,
                                         advanceMigrationLedger(advance[a].amount)) : a \in mine}
    BY DEF Generate
  <2>4. ledger' = ledger \union A
    BY <2>1, <2>2, <2>3
  <2> QED BY <2>4 DEF Generate
<1>3. PICK new : /\ inv' = [inv EXCEPT ![i] = new]
                 /\ new.status \in {"PAID", "SENT"} /\ new.sub = sub /\ new.cost = cost
                 /\ new.emirate = garage.emirate /\ new.pays = pays
  <2>1. PICK status : /\ status = IF SumFunction([a \in mine |-> advance[a].amount])
                                     >= Quote[j] + VatOn(Quote[j]) THEN "PAID" ELSE "SENT"
    OBVIOUS
  <2>2. PICK new : new = [NoInv EXCEPT !.status = status, !.job = j, !.created = now,
                            !.emirate = garage.emirate, !.sub = sub, !.cost = cost, !.pays = pays]
    OBVIOUS
  <2>3. inv' = [inv EXCEPT ![i] = new]
    BY <2>1, <2>2 DEF Generate
  <2>4. status \in {"PAID", "SENT"}
    BY <2>1
  <2>5. new.status = status /\ new.sub = sub /\ new.cost = cost /\ new.pays = pays
        /\ new.emirate = garage.emirate
    BY <2>2 DEF NoInv
  <2> QED BY <2>3, <2>4, <2>5
<1>4. /\ inv' = [k \in Invs |-> inv'[k]] /\ \A k \in Invs \ {i} : inv'[k] = inv[k]
      /\ inv'[i] = new
  BY <1>0, <1>1, <1>3
<1>5. Issued' = Issued \union {i}
  <2>1. \A k : k \in Issued' <=> k \in Issued \union {i}
    BY <1>1, <1>3, <1>4 DEF Issued
  <2> QED BY <2>1
<1>6. /\ advance' = [a \in Advs |-> advance'[a]]
      /\ \A a \in Advs \ mine : advance'[a] = advance[a]
      /\ \A a \in mine : /\ a \in Advs /\ advance[a].job = j /\ advance[a].inv = None
                         /\ advance[a].amount \in Nat
                         /\ advance'[a].job = j /\ advance'[a].inv = i
                         /\ advance'[a].amount = advance[a].amount
                         /\ Of("ADVANCE_MIGRATION", a) = {}
  <2>1. /\ advance' = [a \in Advs |-> advance'[a]]
        /\ \A a \in Advs \ mine : advance'[a] = advance[a]
    BY <1>2
  <2> SUFFICES ASSUME NEW a \in mine
               PROVE  /\ a \in Advs /\ advance[a].job = j /\ advance[a].inv = None
                      /\ advance[a].amount \in Nat
                      /\ advance'[a].job = j /\ advance'[a].inv = i
                      /\ advance'[a].amount = advance[a].amount
                      /\ Of("ADVANCE_MIGRATION", a) = {}
    BY <2>1
  <2>2. a \in Advs /\ advance[a].job = j /\ advance[a].inv = None
    OBVIOUS
  <2>3. advance[a].amount \in Nat /\ Of("ADVANCE_MIGRATION", a) = {}
    BY <2>2 DEF BooksInv, AdvanceOK, Silent
  <2>4. advance'[a] = [advance[a] EXCEPT !.inv = i]
    BY <1>2, <2>2
  <2>5. advance'[a].job = j /\ advance'[a].inv = i /\ advance'[a].amount = advance[a].amount
    BY <2>2, <2>4
  <2> QED BY <2>2, <2>3, <2>5
<1>7. \A p : p \in pays <=> \E a \in mine : p = [id |-> <<i, a>>, amount |-> advance[a].amount]
  OBVIOUS
<1>8. \A d : d \in M <=> \E a \in mine :
                 d = Entry("ADVANCE_MIGRATION", a, now, advanceMigrationLedger(advance[a].amount))
  OBVIOUS
<1>9. IsFiniteSet(mine) /\ IsFiniteSet(pays) /\ IsFiniteSet(M)
  <2>1. IsFiniteSet(mine)
    <3>1. mine \subseteq Advs
      OBVIOUS
    <3> QED BY <1>0, <3>1, FS_Subset
  <2>2. PICK f : f = [a \in mine |-> [id |-> <<i, a>>, amount |-> advance[a].amount]]
    OBVIOUS
  <2>3. PICK g : g = [a \in mine |-> Entry("ADVANCE_MIGRATION", a, now,
                                           advanceMigrationLedger(advance[a].amount))]
    OBVIOUS
  <2>4. f \in Surjection(mine, pays)
    BY <1>7, <2>2 DEF Surjection
  <2>5. g \in Surjection(mine, M)
    BY <1>8, <2>3 DEF Surjection
  <2> QED BY <2>1, <2>4, <2>5, FS_Surjection
<1>10. C = IF garage.cogs /\ cost \notin {0, None} THEN {c} ELSE {}
  BY CogsRowsAre
<1>11. IsFiniteSet(A)
  <2>1. IsFiniteSet(C) /\ IsFiniteSet({e})
    BY <1>10, OneOrNone, FS_Singleton
  <2>2. IsFiniteSet({e} \union C)
    BY <2>1, FS_Union
  <2> QED BY <1>9, <2>2, FS_Union
<1>12. /\ e.type = "INVOICE" /\ e.id = i /\ e.at = now /\ e.rows \in BalancedRows
       /\ c.type = "INVOICE_COGS" /\ c.id = i /\ c.at = now /\ c.rows \in BalancedRows
       /\ c.rows["VAT_PAYABLE"] = 0 /\ c.rows["AR"] = 0
  BY <1>0, SaleRowsFit, CostRows DEF Entry
<1>13. \A d \in M : /\ d.type = "ADVANCE_MIGRATION" /\ d.id \in mine /\ d.at = now
                    /\ d.rows \in BalancedRows /\ d.rows["VAT_PAYABLE"] = 0
  <2> TAKE d \in M
  <2>1. PICK a \in mine :
            d = Entry("ADVANCE_MIGRATION", a, now, advanceMigrationLedger(advance[a].amount))
    BY <1>8
  <2>2. advance[a].amount \in Int
    BY <1>6
  <2> QED BY <2>1, <2>2, MigrationRows DEF Entry
<1>14. /\ Of("INVOICE", i)' = {e} /\ Of("INVOICE_COGS", i)' = C
       /\ Of("INVOICE_VOID", i)' = {} /\ Of("INVOICE_COGS_ADJUSTMENT", i)' = {}
  <2>0. \A t \in OwnTypes : \A d \in ledger : ~(d.type = t /\ d.id = i)
    BY <1>1 DEF Of
  <2>1. \A d : d \in Of("INVOICE", i)' <=> d \in {e}
    BY <1>2, <1>10, <1>12, <1>13, <2>0, OwnTypesDiffer DEF Of
  <2>2. \A d : d \in Of("INVOICE_COGS", i)' <=> d \in C
    BY <1>2, <1>10, <1>12, <1>13, <2>0, OwnTypesDiffer DEF Of
  <2>3. \A t \in {"INVOICE_VOID", "INVOICE_COGS_ADJUSTMENT"} : \A d : d \notin Of(t, i)'
    BY <1>2, <1>10, <1>12, <1>13, <2>0, OwnTypesDiffer DEF Of
  <2> QED BY <2>1, <2>2, <2>3
<1>15. \A t, x : \/ t \in OwnTypes /\ x = i
                 \/ t = "ADVANCE_MIGRATION" /\ x \in mine
                 \/ Of(t, x)' = Of(t, x)
  <2> SUFFICES ASSUME NEW t, NEW x, t \notin OwnTypes \/ x # i,
                      t # "ADVANCE_MIGRATION" \/ x \notin mine
               PROVE  Of(t, x)' = Of(t, x)
    OBVIOUS
  <2>1. \A d \in A : d.type # t \/ d.id # x
    BY <1>10, <1>12, <1>13, OwnTypesDiffer
  <2>2. \A d : d \in Of(t, x)' <=> d \in Of(t, x)
    BY <1>2, <2>1 DEF Of
  <2> QED BY <2>2
<1>16. \A a \in mine : Of("ADVANCE_MIGRATION", a)' =
                           {Entry("ADVANCE_MIGRATION", a, now,
                                  advanceMigrationLedger(advance[a].amount))}
  <2> TAKE a \in mine
  <2>1. PICK m : m = Entry("ADVANCE_MIGRATION", a, now, advanceMigrationLedger(advance[a].amount))
    OBVIOUS
  <2>2. m \in M /\ m.type = "ADVANCE_MIGRATION" /\ m.id = a
    BY <1>8, <2>1 DEF Entry
  <2>3. \A d \in M : d.id = a => d = m
    <3> TAKE d \in M
    <3>1. PICK b \in mine :
              d = Entry("ADVANCE_MIGRATION", b, now, advanceMigrationLedger(advance[b].amount))
      BY <1>8
    <3>2. d.id = b
      BY <3>1 DEF Entry
    <3> QED BY <2>1, <3>1, <3>2
  <2>4. \A d \in ledger : ~(d.type = "ADVANCE_MIGRATION" /\ d.id = a)
    BY <1>6 DEF Of
  <2>5. \A d : d \in Of("ADVANCE_MIGRATION", a)' <=> d = m
    BY <1>2, <1>10, <1>12, <2>2, <2>3, <2>4 DEF Of
  <2> QED BY <2>1, <2>5
<1>17. Monotone
  <2>1. \A k \in Issued : k \in Issued' /\ inv[k].pays \subseteq inv'[k].pays
    BY <1>1, <1>4, <1>5 DEF Issued
  <2>2. Issued \subseteq Invs
    BY DEF Issued
  <2>3. \A a \in Advs : /\ advance[a].job # None => advance'[a].job # None
                        /\ advance[a].inv \in Issued => advance'[a].inv = advance[a].inv
    <3> TAKE a \in Advs
    <3>1. CASE a \in mine
      BY <1>0, <1>6, <2>2, <3>1
    <3>2. CASE a \notin mine
      BY <1>6, <3>2
    <3> QED BY <3>1, <3>2
  <2>4. now \in Nat /\ now' \in Nat /\ now <= now'
    BY <1>0, <1>2
  <2> QED BY <2>1, <2>3, <2>4 DEF Monotone
<1>18. PaysOK(i)'
  <2>1. inv'[i].pays = pays
    BY <1>3, <1>4
  <2>2. \A p, q \in pays : p.id = q.id => p = q
    BY <1>7
  <2>3. ASSUME NEW p \in pays
        PROVE  p.amount \in Nat /\ p.id = <<i, p.id[2]>> /\ Migrated(i, p)'
    <3>1. PICK a \in mine : p = [id |-> <<i, a>>, amount |-> advance[a].amount]
      BY <1>7
    <3>2. p.id = <<i, a>> /\ p.id[2] = a /\ p.amount = advance[a].amount
      BY <3>1
    <3>3. Of("PAYMENT", <<i, a>>)' = {}
      BY <1>1, <1>15 DEF OwnTypes
    <3>4. Silent("PAYMENT", p.id)'
      BY <3>2, <3>3 DEF Silent
    <3>5. p.id[2] \in Advs /\ advance'[p.id[2]].inv = i /\ advance'[p.id[2]].amount = p.amount
      BY <1>6, <3>2
    <3>6. p.amount \in Nat /\ p.id = <<i, p.id[2]>>
      BY <1>6, <3>2
    <3> QED BY <3>4, <3>5, <3>6 DEF Migrated
  <2>4. \A a \in Advs : advance'[a].inv = i => \E p \in pays : p.id = <<i, a>>
    <3> TAKE a \in Advs
    <3>1. CASE a \in mine
      <4>1. PICK p : p = [id |-> <<i, a>>, amount |-> advance[a].amount]
        OBVIOUS
      <4>2. p \in pays /\ p.id = <<i, a>>
        BY <1>7, <3>1, <4>1
      <4> QED BY <4>2
    <3>2. CASE a \notin mine
      BY <1>1, <1>6, <3>2
    <3> QED BY <3>1, <3>2
  <2> QED BY <1>9, <2>1, <2>2, <2>3, <2>4 DEF PaysOK
<1>19. InvoiceOK(i)'
  <2>1. now \in 0..now'
    BY <1>0, <1>2
  <2>2. SaleOK(i)'
    <3>1. Single("INVOICE", i, invoiceLedger(sub))'
      BY <1>14, <2>1 DEF Single, Entry, Rows, invoiceLedger, VatOn
    <3> QED BY <1>3, <1>4, <3>1 DEF SaleOK
  <2>3. CostOK(i)'
    <3>1. CASE garage.cogs /\ cost \notin {0, None}
      <4>1. Of("INVOICE_COGS", i)' = {c}
        BY <1>10, <1>14, <3>1
      <4> QED BY <2>1, <4>1 DEF CostOK, Single, Entry, Rows, cogsLedger
    <3>2. CASE ~(garage.cogs /\ cost \notin {0, None})
      BY <1>10, <1>14, <3>2 DEF CostOK, Silent
    <3> QED BY <3>1, <3>2
  <2>4. VoidOK(i)'
    <3>1. Silent("INVOICE_COGS", i)' <=> ~garage.cogs \/ cost \in {0, None}
      BY <1>10, <1>14 DEF Silent
    <3>2. Silent("INVOICE_VOID", i)' /\ Silent("INVOICE_COGS_ADJUSTMENT", i)'
      BY <1>14 DEF Silent
    <3>3. inv'[i].status # "VOID" /\ inv'[i].cost = cost /\ garage' = garage
      BY <1>2, <1>3, <1>4
    <3> QED BY <3>1, <3>2, <3>3 DEF VoidOK
  <2> QED BY <1>0, <1>3, <1>4, <1>18, <2>2, <2>3, <2>4 DEF InvoiceOK
<1>20. \A k \in Issued' : InvoiceOK(k)'
  <2> TAKE k \in Issued'
  <2>1. CASE k = i
    BY <1>19, <2>1
  <2>2. CASE k # i
    <3>1. k \in Issued /\ k \in Invs /\ InvoiceOK(k) /\ inv'[k] = inv[k]
      BY <1>4, <1>5, <2>2 DEF BooksInv, Issued
    <3>2. \A t \in OwnTypes : Of(t, k)' = Of(t, k)
      BY <1>15, <2>2 DEF OwnTypes
    <3>3. \A p \in inv[k].pays : Of("PAYMENT", p.id)' = Of("PAYMENT", p.id)
      BY <1>15 DEF OwnTypes
    <3>4. \A a \in Advs : \/ advance'[a] = advance[a]
                          \/ advance[a].inv # k /\ advance'[a].inv # k
      BY <1>0, <1>6, <2>2, <3>1
    <3>5. /\ flipped' \/ (~flipped /\ garage'.cogs = garage.cogs)
          /\ k \in ghosts => k \in ghosts'
      BY <1>2
    <3> QED BY <1>17, <3>1, <3>2, <3>3, <3>4, <3>5, InvoiceKept
  <2> QED BY <2>1, <2>2
<1>21. \A a \in Advs : AdvanceOK(a)'
  <2> TAKE a \in Advs
  <2>0. AdvanceOK(a)
    BY DEF BooksInv
  <2>1. Of("ADVANCE", a)' = Of("ADVANCE", a)
    BY <1>15 DEF OwnTypes
  <2>2. CASE a \notin mine
    <3>1. advance'[a] = advance[a] /\ Of("ADVANCE_MIGRATION", a)' = Of("ADVANCE_MIGRATION", a)
      BY <1>6, <1>15, <2>2 DEF OwnTypes
    <3> QED BY <1>17, <2>0, <2>1, <3>1, AdvanceKept
  <2>3. CASE a \in mine
    <3>1. PICK n : n = advance[a].amount
      OBVIOUS
    <3>2. Single("ADVANCE", a, advanceLedger(n))
      BY <1>0, <1>6, <2>0, <2>3, <3>1 DEF AdvanceOK
    <3>3. Single("ADVANCE", a, advanceLedger(n))'
      BY <1>17, <2>1, <3>2, SingleKept
    <3>4. Single("ADVANCE_MIGRATION", a, advanceMigrationLedger(n))'
      <4>1. now \in 0..now'
        BY <1>0, <1>2
      <4>2. Of("ADVANCE_MIGRATION", a)' =
                {Entry("ADVANCE_MIGRATION", a, now, advanceMigrationLedger(n))}
        BY <1>16, <2>3, <3>1
      <4> QED BY <4>1, <4>2 DEF Single, Entry, Rows, advanceMigrationLedger
    <3>5. /\ advance'[a].amount = n /\ n \in Nat /\ advance'[a].job = j /\ j # None
          /\ advance'[a].inv = i /\ i # None /\ i \in Issued'
      BY <1>0, <1>1, <1>5, <1>6, <2>3, <3>1
    <3> QED BY <3>3, <3>4, <3>5 DEF AdvanceOK
  <2> QED BY <2>2, <2>3
<1>22. \A d \in A : PostingOK(d)'
  <2> TAKE d \in A
  <2>1. now \in 0..now' /\ i \in Issued'
    BY <1>0, <1>2, <1>5
  <2>2. CASE d = e
    BY <1>12, <2>1, <2>2 DEF PostingOK, OwnTypes, ForInvoices, Receivable
  <2>3. CASE d \in C
    <3>1. d = c
      BY <1>10, <2>3
    <3> QED BY <1>12, <2>1, <3>1 DEF PostingOK, OwnTypes, ForInvoices, Receivable
  <2>4. CASE d \in M
    <3>1. /\ d.type = "ADVANCE_MIGRATION" /\ d.id \in Advs /\ d.at \in 0..now'
          /\ d.rows \in BalancedRows /\ d.rows["VAT_PAYABLE"] = 0
          /\ advance'[d.id].inv \in Issued'
      BY <1>6, <1>13, <2>1, <2>4
    <3> QED BY <3>1 DEF PostingOK, OwnTypes, ForInvoices, Receivable
  <2> QED BY <2>2, <2>3, <2>4
<1>23. ledger' = (ledger \ {}) \union A /\ now' <= LastPeriod
  BY <1>0, <1>2
<1>24. /\ paper' = [d \in Papers |-> paper'[d]] /\ \A d \in Papers : paper'[d].sub \in Nat
       /\ garage' = [cogs |-> garage'.cogs, emirate |-> garage'.emirate]
       /\ garage'.cogs \in BOOLEAN /\ garage'.emirate \in Emirates \union {None}
  BY <1>2 DEF BooksInv
<1>25. inv' = [k \in Invs |-> inv'[k]] /\ advance' = [a \in Advs |-> advance'[a]]
  BY <1>4, <1>6
<1> QED BY <1>11, <1>17, <1>20, <1>21, <1>22, <1>23, <1>24, <1>25, AllKept

-----------------------------------------------------------------------------
(* The invariant of the books.                                             *)

LEMMA BooksInitOK == BooksInit => BooksInv
<1> SUFFICES ASSUME BooksInit PROVE BooksInv
  OBVIOUS
<1>1. /\ now = 0 /\ ledger = {} /\ inv = [i \in Invs |-> NoInv]
      /\ advance = [a \in Advs |-> [job |-> None, amount |-> 0, inv |-> None]]
      /\ paper = [d \in Papers |-> NoPaper] /\ garage \in [cogs: BOOLEAN, emirate: {None}]
      /\ balance = [c \in Customers |-> {}]
  BY DEF BooksInit, Init
<1>2. Issued = {}
  BY <1>1 DEF Issued, NoInv
<1>3. \A t, x : Silent(t, x)
  BY <1>1 DEF Silent, Of
<1>4. \A a \in Advs : AdvanceOK(a)
  BY <1>1, <1>3 DEF AdvanceOK
<1>5. /\ now \in 0..LastPeriod /\ IsFiniteSet(ledger)
      /\ \A c \in Customers : IsFiniteSet(balance[c])
  BY <1>1, BooksAssumption, FS_EmptySet
<1>6. \A d \in Papers : paper[d].sub \in Nat
  BY <1>1 DEF NoPaper
<1>7. /\ garage = [cogs |-> garage.cogs, emirate |-> garage.emirate]
      /\ garage.cogs \in BOOLEAN /\ garage.emirate \in Emirates \union {None}
  BY <1>1
<1> QED BY <1>1, <1>2, <1>4, <1>5, <1>6, <1>7 DEF BooksInv

\* An import adds at most one opening balance a step.
LEMMA BalancesStayFinite ==
    ASSUME ImportTypeOK, Next, \A c \in Customers : IsFiniteSet(balance[c])
    PROVE  \A c \in Customers : IsFiniteSet(balance'[c])
<1>1. CASE balance' = balance
  BY <1>1
<1>2. ASSUME NEW r \in Runs, BalanceRow(r), balance' # balance
      PROVE  \A c \in Customers : IsFiniteSet(balance'[c])
  <2>1. PICK c : balance' = [balance EXCEPT ![c] = @ \union {<<run[r].batch, run[r].i>>}]
    BY <1>2 DEF BalanceRow
  <2>2. balance = [d \in Customers |-> balance[d]]
    BY DEF ImportTypeOK
  <2>3. PICK x : x = <<run[r].batch, run[r].i>>
    OBVIOUS
  <2> TAKE d \in Customers
  <2>4. balance'[d] = balance[d] \/ balance'[d] = balance[d] \union {x}
    BY <2>1, <2>2, <2>3
  <2> QED BY <2>4, FS_AddElement
<1>3. balance' = balance \/ \E r \in Runs : BalanceRow(r)
  BY Zenon DEF Next, Preview, CommitRead, DiscardRead, Load, CustomerRow, VendorRow, ItemRow,
         Committed, Report, Discard, Kill, Edit, tables
<1> QED BY <1>1, <1>2, <1>3

\* The imports leave the books alone but for the opening balances.
LEMMA ImportKeepsBooks ==
    ASSUME BooksInv, UNCHANGED bookVars, \A c \in Customers : IsFiniteSet(balance'[c])
    PROVE  BooksInv'
<1>1. /\ now' = now /\ ledger' = ledger /\ inv' = inv /\ advance' = advance /\ paper' = paper
      /\ garage' = garage /\ ghosts' = ghosts /\ flipped' = flipped
  BY DEF bookVars
<1>2. Issued' = Issued /\ now \in Nat /\ now <= LastPeriod
  BY <1>1, BooksAssumption DEF Issued, BooksInv
<1>3. Monotone
  BY <1>1, <1>2 DEF Monotone
<1>4. \A t, x : Of(t, x)' = Of(t, x)
  BY <1>1 DEF Of
<1>5. \A i \in Issued' : InvoiceOK(i)'
  <2> TAKE i \in Issued'
  <2>1. InvoiceOK(i)
    BY <1>2 DEF BooksInv
  <2>2. flipped' \/ (~flipped /\ garage'.cogs = garage.cogs)
    BY <1>1
  <2> QED BY <1>1, <1>3, <1>4, <2>1, <2>2, InvoiceKept
<1>6. \A a \in Advs : AdvanceOK(a)'
  BY <1>1, <1>3, <1>4, AdvanceKept DEF BooksInv
<1>7. \A e \in ledger' : PostingOK(e)'
  BY <1>1, <1>3, PostingKept DEF BooksInv
<1>8. /\ now' \in 0..LastPeriod /\ IsFiniteSet(ledger')
      /\ inv' = [i \in Invs |-> inv'[i]] /\ advance' = [a \in Advs |-> advance'[a]]
      /\ paper' = [d \in Papers |-> paper'[d]] /\ \A d \in Papers : paper'[d].sub \in Nat
      /\ garage' = [cogs |-> garage'.cogs, emirate |-> garage'.emirate]
      /\ garage'.cogs \in BOOLEAN /\ garage'.emirate \in Emirates \union {None}
  BY <1>1 DEF BooksInv
<1> QED BY <1>5, <1>6, <1>7, <1>8 DEF BooksInv

LEMMA BookStepOK ==
    ASSUME BooksInv, BookStep, balance' = balance
    PROVE  BooksInv'
<1>1. ASSUME NEW j \in Jobs, NEW i \in Free, NEW cost \in Costs, Generate(j, i, cost)
      PROVE  BooksInv'
  BY <1>1, GenerateStep
<1>2. ASSUME NEW i \in Issued, NEW sub \in Subtotals, NEW cost \in Costs, Rebook(i, sub, cost)
      PROVE  BooksInv'
  BY <1>2, RebookStep
<1>3. ASSUME NEW i \in Issued, Send(i) PROVE BooksInv'
  BY <1>3, SendStep
<1>4. ASSUME NEW i \in Issued, Void(i) PROVE BooksInv'
  BY <1>4, VoidStep
<1>5. ASSUME NEW i \in Issued, NEW k \in Free, Reissue(i, k) PROVE BooksInv'
  BY <1>5, ReissueStep
<1>6. ASSUME NEW i \in Issued, NEW n \in Amounts \ {0}, n > 0, Pay(i, n) PROVE BooksInv'
  BY <1>6, AmountIsNat, PayStep
<1>7. ASSUME NEW a \in Advs, NEW j \in Jobs, NEW n \in {1, Quote[j] + VatOn(Quote[j])},
             Advance(a, j, n)
      PROVE  BooksInv'
  <2>1. Quote[j] \in Nat
    BY BooksAssumption
  <2>2. VatOn(Quote[j]) \in Nat
    BY <2>1, VatIsNat
  <2>3. n \in Nat
    BY <2>1, <2>2
  <2> QED BY <1>7, <2>3, AdvanceStep
<1>8. ASSUME NEW d \in Papers, NEW kind \in {"EXPENSE", "SUPPLIER_BILL"}, NEW sub \in Subtotals,
             Spending(d, kind, sub)
      PROVE  BooksInv'
  BY <1>8, SpendingStep
<1>9. ASSUME NEW d \in Papers, Unspend(d) PROVE BooksInv'
  BY <1>9, UnspendStep
<1>10. CASE \/ FlipCogs \/ Tick \/ \E m \in Emirates : SetEmirate(m)
            \/ \E j \in Jobs : Deliver(j) \/ \E c \in Live : Transfer(j, c)
  BY <1>10, QuietSteps
<1> QED BY <1>1, <1>2, <1>3, <1>4, <1>5, <1>6, <1>7, <1>8, <1>9, <1>10 DEF BookStep

LEMMA BooksStep ==
    ImportInv /\ BooksInv /\ [BooksNext]_<<vars, bookVars>> => ImportInv' /\ BooksInv'
<1> SUFFICES ASSUME ImportInv, BooksInv, [BooksNext]_<<vars, bookVars>>
             PROVE  ImportInv' /\ BooksInv'
  OBVIOUS
<1>1. UNCHANGED vars => balance' = balance
  BY DEF vars, tables
<1>2. ImportInv'
  BY ImportStep DEF BooksNext
<1>3. CASE BookStep /\ UNCHANGED vars
  BY <1>1, <1>2, <1>3, BookStepOK
<1>4. CASE Next /\ UNCHANGED bookVars
  <2>1. \A c \in Customers : IsFiniteSet(balance'[c])
    BY <1>4, BalancesStayFinite DEF BooksInv, ImportInv
  <2> QED BY <1>2, <1>4, <2>1, ImportKeepsBooks
<1>5. CASE UNCHANGED <<vars, bookVars>>
  <2>1. \A c \in Customers : IsFiniteSet(balance'[c])
    BY <1>1, <1>5 DEF BooksInv
  <2> QED BY <1>2, <1>5, <2>1, ImportKeepsBooks
<1> QED BY <1>3, <1>4, <1>5 DEF BooksNext

-----------------------------------------------------------------------------
(* Periods that are over.                                                  *)

\* The profit and loss and the VAT return of a period, of the postings of the period
\* alone: these, and those that charge VAT or adjust it, by emirate.
PostedAt(p) == {e \in ledger : e.at = p}
ChargedIn(p, m)  ==
    {e \in PostedAt(p) : /\ EmirateOf(e.id) = m
                         /\ \/ e.type = "INVOICE"
                            \/ e.type = "INVOICE_VOID" /\ inv[e.id].created = p}
AdjustedIn(p, m) ==
    {e \in PostedAt(p) : /\ EmirateOf(e.id) = m
                         /\ e.type = "INVOICE_VOID" /\ inv[e.id].created # p}

PnlOf(es) ==
    [revenue |-> -Balance("SALES", es), cogs |-> Balance("COGS", es),
     expenses |-> Balance("EXPENSES", es),
     netProfit |-> (-Balance("SALES", es) - Balance("COGS", es)) - Balance("EXPENSES", es)]

VatOf(charged, adjusted, es) ==
    [standardVat   |-> [m \in Emirates \union {None} |-> -Balance("VAT_PAYABLE", charged[m])],
     adjustmentVat |-> [m \in Emirates \union {None} |-> Balance("VAT_PAYABLE", adjusted[m])],
     inputVat      |-> Balance("VAT_INPUT", es),
     netPayable    |-> SumFunction([m \in Emirates \union {None} |->
                           -Balance("VAT_PAYABLE", charged[m])
                               - Balance("VAT_PAYABLE", adjusted[m])])
                           - Balance("VAT_INPUT", es)]

Charged(p)  == [m \in Emirates \union {None} |-> ChargedIn(p, m)]
Adjusted(p) == [m \in Emirates \union {None} |-> AdjustedIn(p, m)]

OfPeriods ==
    \A p : /\ Pnl(p) = PnlOf(PostedAt(p))
           /\ VatSummary(p) = VatOf(Charged(p), Adjusted(p), PostedAt(p))

\* Opening balances are on none of their accounts.
LEMMA PeriodBalance ==
    ASSUME BooksInv, NEW p,
           NEW a \in {"SALES", "COGS", "EXPENSES", "VAT_PAYABLE", "VAT_INPUT"}
    PROVE  Balance(a, In(p)) = Balance(a, PostedAt(p))
<1>1. In(p) \in SUBSET Posted /\ PostedAt(p) \in SUBSET In(p)
  BY DEF In, PostedAt, Posted
<1>2. Rowed(In(p)) /\ a \in Accounts
  BY <1>1, PostedRowed, RowedPart, AccountsAre
<1>3. \A e \in In(p) \ PostedAt(p) : e.rows[a] = 0
  <2> TAKE e \in In(p) \ PostedAt(p)
  <2>1. e \in Openings
    BY DEF In, PostedAt, Posted
  <2> QED BY <2>1, OpeningsRowed
<1> QED BY <1>1, <1>2, <1>3, BalanceOfPart

LEMMA PnlOfPeriod ==
    ASSUME BooksInv, NEW p
    PROVE  Pnl(p) = PnlOf(PostedAt(p))
<1>1. In(p) \in SUBSET Posted
  BY DEF In
<1>2. Rowed(In(p))
  BY <1>1, PostedRowed, RowedPart
<1>3. /\ BalanceOf(OfType("REVENUE"), In(p)) = Balance("SALES", In(p))
      /\ BalanceOf(OfType("EXPENSE") \ {"COGS"}, In(p)) = Balance("EXPENSES", In(p))
  BY <1>2, ByType
<1>4. /\ Balance("SALES", In(p)) = Balance("SALES", PostedAt(p))
      /\ Balance("COGS", In(p)) = Balance("COGS", PostedAt(p))
      /\ Balance("EXPENSES", In(p)) = Balance("EXPENSES", PostedAt(p))
  BY PeriodBalance
<1> QED BY <1>3, <1>4 DEF Pnl, PnlOf

LEMMA VatOfPeriod ==
    ASSUME BooksInv, NEW p
    PROVE  VatSummary(p) = VatOf(Charged(p), Adjusted(p), PostedAt(p))
<1> DEFINE all == Emirates \union {None}
           own == {e \in In(p) : e.type = "INVOICE"}
                     \union {e \in In(p) : e.type = "INVOICE_VOID" /\ inv[e.id].created = p}
           S(m) == {e \in own : EmirateOf(e.id) = m}
           E(m) == {e \in Earlier(p) : EmirateOf(e.id) = m}
           v == Balance("VAT_INPUT", In(p))
<1>1. VatSummary(p) =
          [standardVat   |-> [m \in all |-> -Balance("VAT_PAYABLE", S(m))],
           adjustmentVat |-> [m \in all |-> Balance("VAT_PAYABLE", E(m))],
           inputVat      |-> v,
           netPayable    |-> SumFunction([m \in all |-> -Balance("VAT_PAYABLE", S(m))
                                                            - Balance("VAT_PAYABLE", E(m))]) - v]
  BY DEF VatSummary
<1>2. \A e \in In(p) : e.type \in {"INVOICE", "INVOICE_VOID"} => e \in PostedAt(p)
  BY OpeningsRowed DEF In, PostedAt, Posted
<1>3. PostedAt(p) \subseteq In(p)
  BY DEF In, PostedAt, Posted
<1>4. \A m \in all : S(m) = Charged(p)[m]
  <2> TAKE m \in all
  <2>1. \A e : e \in S(m) <=> e \in ChargedIn(p, m)
    BY <1>2, <1>3 DEF ChargedIn
  <2>2. S(m) = ChargedIn(p, m)
    BY <2>1
  <2> QED BY <2>2 DEF Charged
<1>5. \A m \in all : E(m) = Adjusted(p)[m]
  <2> TAKE m \in all
  <2>1. \A e : e \in E(m) <=> e \in AdjustedIn(p, m)
    BY <1>2, <1>3 DEF AdjustedIn, Earlier
  <2>2. E(m) = AdjustedIn(p, m)
    BY <2>1
  <2> QED BY <2>2 DEF Adjusted
<1>6. v = Balance("VAT_INPUT", PostedAt(p))
  BY PeriodBalance
<1> HIDE DEF S, E, v
<1>7. /\ [m \in all |-> -Balance("VAT_PAYABLE", S(m))]
            = [m \in all |-> -Balance("VAT_PAYABLE", Charged(p)[m])]
      /\ [m \in all |-> Balance("VAT_PAYABLE", E(m))]
            = [m \in all |-> Balance("VAT_PAYABLE", Adjusted(p)[m])]
      /\ [m \in all |-> -Balance("VAT_PAYABLE", S(m)) - Balance("VAT_PAYABLE", E(m))]
            = [m \in all |-> -Balance("VAT_PAYABLE", Charged(p)[m])
                                 - Balance("VAT_PAYABLE", Adjusted(p)[m])]
  BY <1>4, <1>5
<1> QED BY <1>1, <1>6, <1>7 DEF VatOf

LEMMA PeriodsSuffice == BooksInv => OfPeriods
BY PnlOfPeriod, VatOfPeriod DEF OfPeriods

\* What is written is dated now, only edits of an invoice delete, and what a period's
\* VAT return takes from an invoice does not change.
WritesNow ==
    /\ \A e \in ledger' : e \in ledger \/ e.at = now
    /\ \A e \in ledger : \/ e \in ledger'
                         \/ \E i \in Issued : e \in Of("INVOICE", i) \union Of("INVOICE_COGS", i)
    /\ \A i \in Issued : inv'[i].created = inv[i].created /\ inv'[i].emirate = inv[i].emirate

LEMMA DatedNow == \A type, id, f : Posting(type, id, f).at = now
BY DEF Posting

LEMMA CogsDatedNow == \A i, cost : \A e \in CogsRows(i, cost) : e.at = now
BY DatedNow DEF CogsRows

LEMMA GenerateWrites ==
    ASSUME BooksInv, NEW j \in Jobs, NEW i \in Free, NEW cost \in Costs, Generate(j, i, cost)
    PROVE  WritesNow
<1> PICK mine : mine = {a \in Advs : advance[a].job = j /\ advance[a].inv = None}
  OBVIOUS
<1> DEFINE M == {Posting("ADVANCE_MIGRATION", a, advanceMigrationLedger(advance[a].amount)) :
                     a \in mine}
<1>1. ledger' = ledger \union {Posting("INVOICE", i, invoiceLedger(Quote[j]))}
                       \union CogsRows(i, cost) \union M
  BY DEF Generate
<1>2. \A e \in M : e.at = now
  BY DatedNow
<1> HIDE DEF M
<1>3. (\A e \in ledger' : e \in ledger \/ e.at = now) /\ \A e \in ledger : e \in ledger'
  BY <1>1, <1>2, DatedNow, CogsDatedNow
<1>4. PICK new : inv' = [inv EXCEPT ![i] = new]
  BY DEF Generate
<1>5. inv = [k \in Invs |-> inv[k]] /\ \A k \in Issued : k \in Invs /\ k # i
  BY DEF BooksInv, Issued, Free
<1>6. \A k \in Issued : inv'[k] = inv[k]
  BY <1>4, <1>5
<1> QED BY <1>3, <1>6 DEF WritesNow

LEMMA RebookWrites ==
    ASSUME BooksInv, NEW i \in Issued, NEW sub, NEW cost, Rebook(i, sub, cost)
    PROVE  WritesNow
<1>1. i \in Invs /\ inv = [k \in Invs |-> inv[k]] /\ Issued \subseteq Invs
  BY DEF BooksInv, Issued
<1> PICK R : R = Of("INVOICE", i) \union IF garage.cogs THEN Of("INVOICE_COGS", i) ELSE {}
  OBVIOUS
<1>2. ledger' = (ledger \ R) \union {Posting("INVOICE", i, invoiceLedger(sub))}
                             \union CogsRows(i, cost)
  BY DEF Rebook
<1>3. \A e \in R : e \in Of("INVOICE", i) \union Of("INVOICE_COGS", i)
  OBVIOUS
<1>4. \A k \in Issued : inv'[k].created = inv[k].created /\ inv'[k].emirate = inv[k].emirate
  BY <1>1, RebookChanges
<1>5. \A e \in ledger' : e \in ledger \/ e.at = now
  BY <1>2, DatedNow, CogsDatedNow
<1>6. \A e \in ledger : e \in ledger' \/ e \in Of("INVOICE", i) \union Of("INVOICE_COGS", i)
  BY <1>2, <1>3
<1> QED BY <1>4, <1>5, <1>6 DEF WritesNow

LEMMA VoidWrites ==
    ASSUME BooksInv, NEW i \in Issued, Void(i)
    PROVE  WritesNow
<1>1. i \in Invs /\ inv = [k \in Invs |-> inv[k]] /\ Issued \subseteq Invs
  BY DEF BooksInv, Issued
<1> DEFINE M == {Posting("INVOICE_COGS_ADJUSTMENT", i, Minus(cogsLedger(e.rows.COGS))) :
                     e \in Of("INVOICE_COGS", i)}
<1>2. ledger' = ledger \union {Posting("INVOICE_VOID", i, voidReversalLedger(inv[i].sub))}
                       \union M
  BY DEF Void
<1>3. \A e \in M : e.at = now
  BY DatedNow
<1> HIDE DEF M
<1>4. \A k \in Issued : inv'[k].created = inv[k].created /\ inv'[k].emirate = inv[k].emirate
  BY <1>1, VoidChanges
<1> QED BY <1>2, <1>3, <1>4, DatedNow DEF WritesNow

LEMMA PayWrites ==
    ASSUME BooksInv, NEW i \in Issued, NEW n, Pay(i, n)
    PROVE  WritesNow
<1>1. i \in Invs /\ inv = [k \in Invs |-> inv[k]] /\ Issued \subseteq Invs
  BY DEF BooksInv, Issued
<1>2. PICK x, f : ledger' = ledger \union {Posting("PAYMENT", x, f)}
  BY DEF Pay
<1>3. \A k \in Issued : inv'[k].created = inv[k].created /\ inv'[k].emirate = inv[k].emirate
  BY <1>1, PayChanges
<1> QED BY <1>2, <1>3, DatedNow DEF WritesNow

LEMMA ReissueWrites ==
    ASSUME BooksInv, NEW i \in Issued, NEW k \in Free, Reissue(i, k)
    PROVE  WritesNow
<1>1. ledger' = ledger
  BY DEF Reissue
<1>2. PICK new : inv' = [inv EXCEPT ![k] = new]
  BY DEF Reissue
<1>3. inv = [l \in Invs |-> inv[l]] /\ \A l \in Issued : l \in Invs /\ l # k
  BY DEF BooksInv, Issued, Free
<1>4. \A l \in Issued : inv'[l] = inv[l]
  BY <1>2, <1>3
<1> QED BY <1>1, <1>4 DEF WritesNow

\* The steps that leave the invoices alone.
LEMMA OneWrites ==
    ASSUME inv' = inv, ledger' = ledger \/ \E t, x, f : ledger' = ledger \union {Posting(t, x, f)}
    PROVE  WritesNow
BY DatedNow DEF WritesNow

LEMMA StepWrites ==
    ASSUME BooksInv, [BooksNext]_<<vars, bookVars>>
    PROVE  WritesNow
<1>1. CASE UNCHANGED bookVars
  BY <1>1, OneWrites DEF bookVars
<1>2. CASE BookStep
  <2>1. ASSUME NEW i \in Issued, Send(i) PROVE WritesNow
    BY <2>1, OneWrites DEF Send
  <2>2. ASSUME NEW a \in Advs, NEW j \in Jobs, NEW n, Advance(a, j, n) PROVE WritesNow
    BY <2>2, OneWrites DEF Advance
  <2>3. ASSUME NEW d \in Papers, NEW kind, NEW sub, Spending(d, kind, sub) PROVE WritesNow
    BY <2>3, OneWrites DEF Spending
  <2>4. ASSUME NEW d \in Papers, Unspend(d) PROVE WritesNow
    BY <2>4, OneWrites DEF Unspend
  <2>5. CASE \/ FlipCogs \/ Tick \/ \E m \in Emirates : SetEmirate(m)
             \/ \E j \in Jobs : Deliver(j) \/ \E c \in Live : Transfer(j, c)
    BY <2>5, OneWrites DEF FlipCogs, Tick, SetEmirate, Deliver, Transfer
  <2> QED BY <1>2, <2>1, <2>2, <2>3, <2>4, <2>5, GenerateWrites, RebookWrites, VoidWrites,
             PayWrites, ReissueWrites DEF BookStep
<1> QED BY <1>1, <1>2 DEF BooksNext

\* A step that deletes nothing of a period before now leaves its reports alone.
LEMMA PeriodStays ==
    ASSUME BooksInv, OfPeriods, OfPeriods', WritesNow, NEW p \in 0..now - 1,
           \A e \in ledger : e.at = p => e \in ledger'
    PROVE  Pnl(p)' = Pnl(p) /\ VatSummary(p)' = VatSummary(p)
<1>1. PostedAt(p)' = PostedAt(p)
  <2>1. now \in Nat /\ p # now
    BY BooksAssumption DEF BooksInv
  <2>2. \A e : e \in PostedAt(p)' <=> e \in PostedAt(p)
    BY <2>1 DEF WritesNow, PostedAt
  <2> QED BY <2>2
<1>2. \A e \in PostedAt(p) : e.type \in ForInvoices =>
          inv'[e.id].created = inv[e.id].created /\ inv'[e.id].emirate = inv[e.id].emirate
  BY DEF PostedAt, BooksInv, PostingOK, WritesNow, OwnTypes, ForInvoices
<1>3. \A m \in Emirates \union {None} :
          ChargedIn(p, m)' = ChargedIn(p, m) /\ AdjustedIn(p, m)' = AdjustedIn(p, m)
  <2> TAKE m \in Emirates \union {None}
  <2>1. \A e : e \in ChargedIn(p, m)' <=> e \in ChargedIn(p, m)
    BY <1>1, <1>2 DEF ChargedIn, EmirateOf, ForInvoices
  <2>2. \A e : e \in AdjustedIn(p, m)' <=> e \in AdjustedIn(p, m)
    BY <1>1, <1>2 DEF AdjustedIn, EmirateOf, ForInvoices
  <2> QED BY <2>1, <2>2
<1>4. Charged(p)' = Charged(p) /\ Adjusted(p)' = Adjusted(p)
  BY <1>3 DEF Charged, Adjusted
<1>5. /\ Pnl(p) = PnlOf(PostedAt(p)) /\ Pnl(p)' = PnlOf(PostedAt(p)')
      /\ VatSummary(p) = VatOf(Charged(p), Adjusted(p), PostedAt(p))
      /\ VatSummary(p)' = VatOf(Charged(p)', Adjusted(p)', PostedAt(p)')
  BY DEF OfPeriods
<1> QED BY <1>1, <1>4, <1>5

LEMMA PeriodsStand ==
    ASSUME BooksInv, OfPeriods, OfPeriods', [BooksNext]_<<vars, bookVars>>, NEW p \in 0..(now - 1)
    PROVE  \/ Pnl(p)' = Pnl(p) /\ VatSummary(p)' = VatSummary(p)
           \/ \E i \in Issued : \E e \in Of("INVOICE", i) \union Of("INVOICE_COGS", i) :
                 e.at = p /\ e \notin ledger'
<1>1. WritesNow
  BY StepWrites
<1>2. CASE \A e \in ledger : e.at = p => e \in ledger'
  BY <1>1, <1>2, PeriodStays
<1>3. ASSUME NEW e \in ledger, e.at = p, e \notin ledger'
      PROVE  \E i \in Issued : \E d \in Of("INVOICE", i) \union Of("INVOICE_COGS", i) :
                 d.at = p /\ d \notin ledger'
  BY <1>1, <1>3 DEF WritesNow
<1> QED BY <1>2, <1>3

-----------------------------------------------------------------------------
(* Theorems.                                                               *)

\* The imports alone (src/app/actions/import.ts), however many requests commit,
\* crash and start again: no file enters an opening balance twice, and none leaves a
\* row out without saying so.
THEOREM ImportsOnce == Spec => []ImportedOnce
<1>1. Spec => []ImportInv
  BY ImportInit, ImportStep, PTL DEF Spec
<1> QED BY <1>1, ImportSuffices, PTL

\* The invariants of the imports and of the books hold together.
THEOREM BooksKept == BooksSpec => [](ImportInv /\ BooksInv)
<1>1. BooksInit => ImportInv /\ BooksInv
  BY ImportInit, BooksInitOK DEF BooksInit
<1> QED BY <1>1, BooksStep, PTL DEF BooksSpec

\* The imports are as good with the garage at work beside them.
THEOREM ImportsOnceAtWork == BooksSpec => []ImportedOnce
BY BooksKept, ImportSuffices, PTL

\* A customer's statement, the ageing of the dashboard and the list of who owes say of
\* every invoice what the ledger says (customer-statement.ts, owner-dashboard.ts).
THEOREM StatementsMatch == BooksSpec => []StatementsMatchLedger
BY BooksKept, StatementsSuffice, PTL

\* The balance sheet balances at every date, its profit is that of the periods before,
\* and the VAT returns and the receivables add up to their accounts (statements.ts,
\* pnl.ts, vat-summary.ts).
THEOREM ReportsAlwaysAddUp == BooksSpec => []ReportsAddUp
BY BooksKept, ReportsSuffice, PTL

\* A void leaves nothing of the sale on any account (voidInvoiceAction).
THEOREM VoidsUndoSales == BooksSpec => []VoidUndoesSale
BY BooksKept, VoidSuffices, PTL

\* A period that is over keeps its VAT return and its profit and loss, until an edit
\* deletes a row of it (recomputeInvoice in src/app/actions/billing.ts).
THEOREM PeriodsOverStand == BooksSpec => ClosedPeriodsStand
<1>1. BooksInv /\ OfPeriods /\ OfPeriods' /\ [BooksNext]_<<vars, bookVars>> =>
          [\A p \in 0..(now - 1) :
              \/ Pnl(p)' = Pnl(p) /\ VatSummary(p)' = VatSummary(p)
              \/ \E i \in Issued : \E e \in Of("INVOICE", i) \union Of("INVOICE_COGS", i) :
                    e.at = p /\ e \notin ledger']_<<vars, bookVars>>
  BY PeriodsStand
<1> QED BY <1>1, BooksKept, PeriodsSuffice, PTL DEF BooksSpec, ClosedPeriodsStand

=============================================================================
