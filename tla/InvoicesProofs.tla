--------------------------- MODULE InvoicesProofs ---------------------------
(* Safety of Invoices, proved for every value of the constants.            *)
EXTENDS Invoices, SumLemmas

ReqRows == [pc: PCs, inv: SUBSET Invs, adv: SUBSET Advs, ests: SUBSET Ests,
            first: SUBSET Ests, amount: Nat, seen: InvoiceRows]

Blank(i) == invoice[i] = NoInvoice /\ ar[i] = NoAr

\* Rows that were never made are blank, a correction corrects a row that was, and the
\* invoices made from estimates, and no other, are linked to one.
RowsOK ==
    /\ \A i \in Invs \ Issued : Blank(i)
    /\ \A i \in Invs : invoice[i].prev \subseteq Issued
    /\ \A i \in Invs : invoice[i].made # {} => invoice[i].prev = {}
    /\ \A i \in Issued : invoice[i].prev = {} => invoice[i].made # {}
    /\ Issued # {} => \E i \in Issued : invoice[i].prev = {}
    /\ \A i \in Invs : invoice[i].status = "SENT" => invoice[i].prev = {}
    /\ card.delivered => card.sent

\* What a request may rely on at its next call.
RequestOK(r) ==
    /\ req[r].inv \subseteq Issued /\ \A i, j \in req[r].inv : i = j
    /\ req[r].pc = "create" => req[r].first # {}
    /\ req[r].pc = "topup" => /\ req[r].ests \intersect req[r].seen.has = {}
                             /\ \A i \in req[r].inv : invoice[i].made # {}
    /\ req[r].pc = "void" => req[r].seen.status \in {"DRAFT", "SENT"}
    /\ req[r].pc = "reissue" => \A i \in req[r].inv :
          invoice[i].status = "VOID" \/ <<"ghost", i>> \in slips

\* There is no second invoice of estimates and no void was written to.
Orderly == Single /\ \A i \in Invs : <<"ghost", i>> \notin slips

OneCorrection == \A i, j, k \in Invs : k \in invoice[i].prev /\ k \in invoice[j].prev => i = j
OnePrimary ==
    \A i, j \in Invs, e \in Ests : e \in invoice[i].made /\ e \in invoice[j].made => i = j

\* The invoices of a card are a chain: one was made from estimates, each void has at
\* most one correction, and only the last may be alive.
Succession ==
    /\ OneCorrection /\ OnePrimary
    /\ Orderly =>
          /\ \A i, j \in Issued : ~Replaced(i) /\ ~Replaced(j) => i = j
          /\ \A i \in Invs : Replaced(i) => invoice[i].status = "VOID"
          /\ \A r \in Requests : req[r].pc = "post" =>
                \A i \in req[r].inv : ~Replaced(i)

\* A request that is to make an invoice will link it to the oldest approved estimate,
\* and be refused if there is an invoice of estimates.
Due(r) ==
    /\ req[r].first = Oldest(Approved)
    /\ \A i \in Issued : invoice[i].prev = {} => invoice[i].made = req[r].first

\* As long as no approval is turned, there is one invoice of estimates at most, and
\* its estimate is approved.
Primary ==
    Steady =>
       /\ Single
       /\ \A i \in Issued : invoice[i].made \subseteq Approved
       /\ \A r \in Requests : req[r].pc = "create" => Due(r)

\* An estimate's lines are only on the invoice made from estimates, and once there
\* unless the cashier took them off.
LinesOnce(i) ==
    \A e \in Ests :
        /\ invoice[i].times[e] > 0 => i \in Issued /\ invoice[i].prev = {}
        /\ <<"reprice", i>> \notin slips /\ invoice[i].times[e] > 0 => e \in invoice[i].has
        /\ <<"reprice", i>> \notin slips /\ <<"topup", i>> \notin slips
              => invoice[i].times[e] <= 1

Recomputing(i) == \E r \in Requests :
    i \in req[r].inv /\ req[r].pc \in {"discount", "recompute", "total"}

TotalOK(i) == <<"total", i>> \notin slips /\ ~Recomputing(i) => invoice[i].total = invoice[i].sum

\* The ledger holds an invoice's total, with two exceptions: nothing before a
\* correction is posted, and the reversal as well once it is void.  A card that is
\* sent has no correction that is not posted, nor has a request that is to void it.
Posted(i) ==
    /\ invoice[i].status # "VOID" =>
          /\ ar[i].reversed = 0
          /\ ar[i].posted # invoice[i].total => ar[i].posted = 0 /\ invoice[i].prev # {}
    /\ invoice[i].status = "VOID" =>
          ar[i].reversed = invoice[i].total /\ ar[i].posted = invoice[i].total
    /\ invoice[i].status = "DRAFT" /\ card.sent => ar[i].posted = invoice[i].total
    /\ \A r \in Requests : req[r].pc = "void" /\ i \in req[r].inv
                              => ar[i].posted = invoice[i].total

Trusted(i) == Orderly /\ <<"post", i>> \notin slips /\ <<"void", i>> \notin slips

LedgerOK(i) == Trusted(i) => Posted(i)

IInv ==
    /\ TypeOK /\ RowsOK /\ DepositsFollowAdvances /\ NumbersGapless /\ Succession /\ Primary
    /\ \A r \in Requests : RequestOK(r)
    /\ \A i \in Issued : TotalOK(i) /\ LedgerOK(i)
    /\ \A i \in Invs : LinesOnce(i)

-----------------------------------------------------------------------------
(* Requests and what they read.                                            *)

LEMMA IdleFacts ==
    /\ Idle \in ReqRows /\ Idle.pc = "idle" /\ Idle.inv = {} /\ NoInvoice \in InvoiceRows
    /\ NoInvoice.status = "NONE" /\ NoInvoice.prev = {} /\ NoInvoice.made = {}
    /\ NoInvoice.times = [e \in Ests |-> 0]
<1>1. NoInvoice \in InvoiceRows
  BY DEF NoInvoice, InvoiceRows, Statuses
<1>2. Idle \in ReqRows
  BY <1>1 DEF Idle, ReqRows, PCs
<1> QED BY <1>1, <1>2 DEF Idle, NoInvoice

LEMMA SpendType ==
    ASSUME budget \in [Sorts -> Nat], NEW k \in Sorts, Spend(k)
    PROVE  budget' \in [Sorts -> Nat]
BY DEF Spend

\* No request but r goes on.
OnlyMoves(r) ==
    /\ req' \in [Requests -> ReqRows]
    /\ \A x \in Requests \ {r} : req'[x] = req[x]

LEMMA MoveFacts ==
    ASSUME TypeOK, NEW r \in Requests, NEW q \in ReqRows, req' = [req EXCEPT ![r] = q]
    PROVE  OnlyMoves(r) /\ req'[r] = q
BY DEF TypeOK, ReqRows, OnlyMoves

LEMMA FinishFacts ==
    ASSUME TypeOK, NEW r \in Requests, Finish(r)
    PROVE  OnlyMoves(r) /\ req'[r] = Idle
BY MoveFacts, IdleFacts DEF Finish

LEMMA GotoFacts ==
    ASSUME TypeOK, NEW r \in Requests, NEW pc \in PCs, Goto(r, pc)
    PROVE  /\ OnlyMoves(r) /\ req'[r].pc = pc
           /\ req'[r].inv = req[r].inv /\ req'[r].ests = req[r].ests
           /\ req'[r].seen = req[r].seen /\ req'[r].amount = req[r].amount
<1> DEFINE q == [req[r] EXCEPT !.pc = pc]
<1>1. req[r] \in ReqRows
  BY DEF TypeOK, ReqRows
<1>2. /\ q \in ReqRows /\ q.pc = pc /\ q.inv = req[r].inv /\ q.ests = req[r].ests
      /\ q.seen = req[r].seen /\ q.amount = req[r].amount
  BY <1>1 DEF ReqRows
<1>3. req' = [req EXCEPT ![r] = q]
  BY DEF Goto
<1> HIDE DEF q
<1> QED BY <1>2, <1>3, MoveFacts

LEMMA BeginFacts ==
    ASSUME TypeOK, NEW r \in Requests, NEW pc \in PCs, NEW i \in Invs, NEW n \in Nat,
           Begin(r, pc, i, n)
    PROVE  /\ OnlyMoves(r) /\ req[r].pc = "idle" /\ req'[r].pc = pc
           /\ req'[r].inv = {i} /\ req'[r].seen = invoice[i] /\ req'[r].amount = n
<1> DEFINE q == [Idle EXCEPT !.pc = pc, !.inv = {i}, !.amount = n, !.seen = invoice[i]]
<1>1. invoice[i] \in InvoiceRows
  BY DEF TypeOK
<1>2. q \in ReqRows /\ q.pc = pc /\ q.inv = {i} /\ q.seen = invoice[i] /\ q.amount = n
  BY <1>1, IdleFacts DEF ReqRows
<1>3. req' = [req EXCEPT ![r] = q] /\ req[r].pc = "idle"
  BY DEF Begin, Free
<1> HIDE DEF q
<1> QED BY <1>2, <1>3, MoveFacts

LEMMA BlindFacts ==
    ASSUME NEW what, NEW i, NEW seen
    PROVE  /\ invoice[i] # seen => <<what, i>> \in Blind(what, i, seen)
           /\ invoice[i].status = "VOID" => <<"ghost", i>> \in Blind(what, i, seen)
BY DEF Blind, Ghost, When

\* Invoices stay, and so does what each of them corrects.
LEMMA TrustKept ==
    ASSUME slips \subseteq slips',
           \A i \in Issued : i \in Issued' /\ invoice'[i].prev = invoice[i].prev
    PROVE  (Orderly' => Orderly) /\ \A i \in Invs : Trusted(i)' => Trusted(i)
<1>1. Single' => Single
  BY DEF Single
<1>2. Orderly' => Orderly
  BY <1>1 DEF Orderly
<1> QED BY <1>2 DEF Trusted

LEMMA SameEstimates ==
    ASSUME UNCHANGED estimate
    PROVE  Approved' = Approved /\ Offered' = Offered /\ Oldest(Approved)' = Oldest(Approved)
<1>1. Approved' = Approved /\ Offered' = Offered
  BY DEF Approved, Offered
<1> QED BY <1>1 DEF Oldest

\* No invoice is made, no estimate turned, and no request let in to make one.
LEMMA SamePrimary ==
    ASSUME IInv, UNCHANGED estimate, slips \subseteq slips', Issued' = Issued,
           \A i \in Issued : invoice'[i].prev = invoice[i].prev /\ invoice'[i].made = invoice[i].made,
           \A x \in Requests : req'[x] = req[x] \/ req'[x].pc # "create"
                                 \/ (Steady' => Due(x)')
    PROVE  Primary'
<1> SUFFICES ASSUME Steady'
             PROVE  /\ Single' /\ \A i \in Issued : invoice'[i].made \subseteq Approved'
                    /\ \A x \in Requests : req'[x].pc = "create" => Due(x)'
  BY DEF Primary
<1>1. Steady
  BY DEF Steady
<1>2. /\ Single /\ \A i \in Issued : invoice[i].made \subseteq Approved
      /\ \A x \in Requests : req[x].pc = "create" => Due(x)
  BY <1>1 DEF IInv, Primary
<1>3. Single' /\ \A i \in Issued : invoice'[i].made \subseteq Approved'
  BY <1>2, SameEstimates DEF Single
<1>4. ASSUME NEW x \in Requests, req'[x] = req[x], req[x].pc = "create" PROVE Due(x)'
  <2>1. Due(x)
    BY <1>2, <1>4
  <2> QED BY <1>4, <2>1, SameEstimates DEF Due
<1> QED BY <1>3, <1>4

-----------------------------------------------------------------------------
(* Steps that leave the documents alone.                                   *)

\* What must be true of a request that goes on while the documents stay.
Moved(x) ==
    /\ req'[x].inv \subseteq Issued /\ \A i, j \in req'[x].inv : i = j
    /\ req'[x].pc = "create" => req'[x].first # {} /\ (Steady => Due(x)')
    /\ req'[x].pc = "topup" => /\ req'[x].ests \intersect req'[x].seen.has = {}
                              /\ \A i \in req'[x].inv : invoice[i].made # {}
    /\ req'[x].pc = "reissue" => \A i \in req'[x].inv : invoice[i].status = "VOID"
    /\ req'[x].pc = "void" =>
          /\ req'[x].seen.status \in {"DRAFT", "SENT"}
          /\ \A i \in req'[x].inv : Trusted(i) => ar[i].posted = invoice[i].total
    /\ req'[x].pc = "post" => \A i \in req'[x].inv : Orderly' => ~Replaced(i)
    /\ req[x].pc \in {"discount", "recompute", "total"} =>
          \A i \in req[x].inv : \/ <<"total", i>> \in slips'
                                \/ /\ i \in req'[x].inv
                                   /\ req'[x].pc \in {"discount", "recompute", "total"}

LEMMA Quiet ==
    ASSUME IInv, UNCHANGED docVars, slips \subseteq slips',
           estimate' \in [Ests -> EstimateRows], UNCHANGED estimate \/ Primary',
           budget' \in [Sorts -> Nat],
           req' \in [Requests -> ReqRows], \A x \in Requests : req'[x] = req[x] \/ Moved(x),
           card' \in [sent: BOOLEAN, delivered: BOOLEAN], card'.delivered => card'.sent,
           \A i \in Issued : Trusted(i)' /\ invoice[i].status = "DRAFT" /\ card'.sent
                                => ar[i].posted = invoice[i].total
    PROVE  IInv'
<1> USE DEF docVars
<1>0. Issued' = Issued /\ TakenAdv' = TakenAdv /\ \A i \in Invs : Replaced(i)' = Replaced(i)
  BY DEF Issued, TakenAdv, Replaced
<1>1. TypeOK'
  BY DEF IInv, TypeOK, ReqRows
<1>2. RowsOK'
  BY <1>0 DEF IInv, RowsOK, Blank
<1>3. DepositsFollowAdvances' /\ NumbersGapless'
  BY <1>0 DEF IInv, DepositsFollowAdvances, NumbersGapless
<1>4. (Orderly' => Orderly) /\ \A i \in Invs : Trusted(i)' => Trusted(i)
  BY <1>0, TrustKept
<1>10. Primary'
  <2> SUFFICES ASSUME UNCHANGED estimate PROVE Primary'
    OBVIOUS
  <2>1. Steady' => Steady
    BY DEF Steady
  <2> QED BY <1>0, <2>1, SamePrimary DEF Moved
<1>5. Succession'
  <2>1. OneCorrection' /\ OnePrimary'
    BY DEF IInv, Succession, OneCorrection, OnePrimary
  <2>3. Orderly' => /\ \A i, j \in Issued' : ~Replaced(i)' /\ ~Replaced(j)' => i = j
                    /\ \A i \in Invs : Replaced(i)' => invoice'[i].status = "VOID"
    <3>1. Orderly' => /\ \A i, j \in Issued : ~Replaced(i) /\ ~Replaced(j) => i = j
                      /\ \A i \in Invs : Replaced(i) => invoice[i].status = "VOID"
      BY <1>4 DEF IInv, Succession
    <3> QED BY <1>0, <3>1 DEF Issued
  <2>4. ASSUME Orderly', NEW x \in Requests, req'[x].pc = "post", NEW i \in req'[x].inv
        PROVE  ~Replaced(i)'
    <3>1. req[x].inv \subseteq Invs /\ i \in Invs
      BY DEF IInv, TypeOK, ReqRows
    <3>2. ~Replaced(i)
      BY <1>4, <2>4 DEF IInv, Succession, Moved
    <3> QED BY <1>0, <3>1, <3>2
  <2> QED BY <1>0, <2>1, <2>3, <2>4 DEF Succession
<1>6. \A x \in Requests : RequestOK(x)'
  BY <1>0 DEF IInv, RequestOK, Moved
<1>7. ASSUME NEW i \in Issued PROVE TotalOK(i)'
  <2>1. <<"total", i>> \notin slips' /\ Recomputing(i) => Recomputing(i)'
    BY DEF Recomputing, Moved
  <2> QED BY <2>1 DEF IInv, TotalOK
<1>8. ASSUME NEW i \in Issued PROVE LedgerOK(i)'
  <2> SUFFICES ASSUME Trusted(i)' PROVE Posted(i)'
    BY DEF LedgerOK
  <2>1. Trusted(i)
    BY <1>4 DEF Issued
  <2>2. Posted(i)
    BY <2>1 DEF IInv, LedgerOK
  <2>3. ASSUME NEW x \in Requests, req'[x].pc = "void", i \in req'[x].inv
        PROVE  ar[i].posted = invoice[i].total
    BY <2>1, <2>2, <2>3 DEF Posted, Moved
  <2> QED BY <2>2, <2>3 DEF Posted
<1>9. \A i \in Invs : LinesOnce(i)'
  BY <1>0 DEF IInv, LinesOnce
<1> QED BY <1>0, <1>1, <1>2, <1>3, <1>5, <1>6, <1>7, <1>8, <1>9, <1>10 DEF IInv

LEMMA QuietStep ==
    ASSUME IInv, UNCHANGED <<docVars, card, estimate>>, slips \subseteq slips',
           budget' \in [Sorts -> Nat],
           NEW r \in Requests, OnlyMoves(r), Moved(r)
    PROVE  IInv'
<1>1. \A i \in Issued : Trusted(i)' /\ invoice[i].status = "DRAFT" /\ card'.sent
                           => ar[i].posted = invoice[i].total
  <2> SUFFICES ASSUME NEW i \in Issued, Trusted(i)', invoice[i].status = "DRAFT", card.sent
               PROVE  ar[i].posted = invoice[i].total
    OBVIOUS
  <2>1. Trusted(i)
    BY TrustKept DEF docVars, Issued
  <2> QED BY <2>1 DEF IInv, LedgerOK, Posted
<1>2. /\ card' \in [sent: BOOLEAN, delivered: BOOLEAN] /\ (card'.delivered => card'.sent)
      /\ estimate' \in [Ests -> EstimateRows]
  BY DEF IInv, TypeOK, RowsOK
<1>3. req' \in [Requests -> ReqRows] /\ \A x \in Requests : req'[x] = req[x] \/ Moved(x)
  BY DEF OnlyMoves
<1> QED BY <1>1, <1>2, <1>3, Quiet

\* A request that ends, having nothing left to write of an invoice's total.
LEMMA EndStep ==
    ASSUME IInv, UNCHANGED <<docVars, card, estimate>>, slips \subseteq slips',
           budget' \in [Sorts -> Nat], NEW r \in Requests, Finish(r),
           req[r].pc \in {"discount", "recompute", "total"}
              => \A i \in req[r].inv : <<"total", i>> \in slips'
    PROVE  IInv'
<1>1. TypeOK
  BY DEF IInv
<1>2. OnlyMoves(r) /\ req'[r] = Idle
  BY <1>1, FinishFacts
<1>3. Moved(r)
  BY <1>2, IdleFacts DEF Moved
<1> QED BY <1>1, <1>2, <1>3, QuietStep

LEMMA KillStep ==
    ASSUME IInv, NEW r \in Requests, Kill(r)
    PROVE  IInv'
<1>1. slips \subseteq slips' /\ UNCHANGED <<docVars, card, estimate>> /\ Finish(r)
  BY DEF Kill
<1>2. req[r].pc \in {"discount", "recompute", "total"}
         => \A i \in req[r].inv : <<"total", i>> \in slips'
  BY DEF Kill
<1>3. budget' \in [Sorts -> Nat]
  BY SpendType DEF Kill, Sorts, IInv, TypeOK
<1> QED BY <1>1, <1>2, <1>3, EndStep

\* A request reads an invoice that there is.
LEMMA ReadStep ==
    ASSUME IInv, NEW r \in Requests, NEW i \in Issued, NEW n \in Nat, NEW k \in Sorts,
           NEW pc \in {"edit", "send", "pay", "void", "reissue"}, Begin(r, pc, i, n), Spend(k),
           UNCHANGED <<estimate, docVars, card, slips>>,
           pc = "void" => invoice[i].status \in {"DRAFT", "SENT"} /\ card.delivered,
           pc = "reissue" => invoice[i].status = "VOID"
    PROVE  IInv'
<1>1. TypeOK /\ RowsOK /\ i \in Invs /\ pc \in PCs
  BY DEF IInv, TypeOK, Issued, PCs
<1>2. budget' \in [Sorts -> Nat]
  BY <1>1, SpendType DEF TypeOK
<1>3. /\ OnlyMoves(r) /\ req[r].pc = "idle" /\ req'[r].pc = pc /\ req'[r].inv = {i}
      /\ req'[r].seen = invoice[i]
  BY <1>1, BeginFacts
<1>4. pc = "void" /\ Trusted(i) => ar[i].posted = invoice[i].total
  <2> SUFFICES ASSUME pc = "void", Trusted(i) PROVE ar[i].posted = invoice[i].total
    OBVIOUS
  <2>1. Posted(i) /\ card.sent /\ (invoice[i].status = "SENT" => invoice[i].prev = {})
    BY <1>1 DEF IInv, LedgerOK, RowsOK
  <2> QED BY <2>1 DEF Posted
<1>5. Moved(r)
  BY <1>3, <1>4 DEF Moved
<1> QED BY <1>1, <1>2, <1>3, <1>5, QuietStep

LEMMA GenerateReadStep ==
    ASSUME IInv, NEW r \in Requests, GenerateRead(r)
    PROVE  IInv'
<1>1. /\ TypeOK /\ UNCHANGED <<estimate, docVars, card, slips>>
      /\ Approved \subseteq Ests /\ Offered \subseteq Ests /\ req[r].pc = "idle"
  BY DEF IInv, GenerateRead, Approved, Offered, Free
<1>2. budget' \in [Sorts -> Nat]
  BY <1>1, SpendType DEF TypeOK, GenerateRead, Sorts
<1> SUFFICES OnlyMoves(r) /\ Moved(r)
  BY <1>1, <1>2, QuietStep
<1> DEFINE linked == {e \in Approved : Made(e) # {}}
<1>3. CASE linked = {}
  <2>0. PICK e \in Oldest(Approved) :
           req' = [req EXCEPT ![r] = [Idle EXCEPT !.pc = "create", !.ests = Offered,
                                                  !.first = {e}]]
    BY <1>3 DEF GenerateRead
  <2> DEFINE q == [Idle EXCEPT !.pc = "create", !.ests = Offered, !.first = {e}]
  <2>4. e \in Ests /\ Oldest(Approved) = {e}
    <3>1. e \in Approved /\ \A f \in Oldest(Approved) : e <= f /\ f <= e /\ e \in Nat /\ f \in Nat
      BY <1>1, InvoicesAssumption DEF Oldest
    <3>2. \A f \in Oldest(Approved) : f = e
      BY <3>1
    <3> QED BY <1>1, <3>1, <3>2
  <2>1. q \in ReqRows /\ q.pc = "create" /\ q.inv = {} /\ q.first = {e}
    BY <1>1, <2>4, IdleFacts DEF ReqRows, PCs
  <2>2. req' = [req EXCEPT ![r] = q]
    BY <2>0
  <2> HIDE DEF q
  <2>3. OnlyMoves(r) /\ req'[r] = q
    BY <1>1, <2>1, <2>2, MoveFacts
  <2>5. ASSUME Steady PROVE Due(r)'
    <3>1. Oldest(Approved)' = {e} /\ Issued' = Issued /\ UNCHANGED invoice
      BY <1>1, <2>4, SameEstimates DEF docVars, Issued
    <3>2. ASSUME NEW i \in Issued, invoice[i].prev = {} PROVE FALSE
      <4>1. invoice[i].made # {} /\ invoice[i].made \subseteq Approved /\ i \in Invs
        BY <2>5, <3>2 DEF IInv, RowsOK, Primary, Issued
      <4> QED BY <1>3, <4>1 DEF Made
    <3> QED BY <2>1, <2>3, <3>1, <3>2 DEF Due
  <2> QED BY <1>1, <2>1, <2>3, <2>5 DEF Moved
<1>4. CASE linked # {}
  <2>9. PICK e \in Oldest(linked) : \E i \in Made(e) :
           /\ req[r].pc = "idle"
           /\ req' = [req EXCEPT ![r] = [Idle EXCEPT !.pc = "topup", !.inv = {i},
                                                     !.ests = Missing(i), !.seen = invoice[i]]]
    BY <1>1, <1>4 DEF GenerateRead
  <2>0. PICK i \in Made(e) :
           /\ req[r].pc = "idle"
           /\ req' = [req EXCEPT ![r] = [Idle EXCEPT !.pc = "topup", !.inv = {i},
                                                     !.ests = Missing(i), !.seen = invoice[i]]]
    BY <2>9
  <2> DEFINE q == [Idle EXCEPT !.pc = "topup", !.inv = {i}, !.ests = Missing(i),
                               !.seen = invoice[i]]
  <2>1. i \in Invs /\ invoice[i].made # {} /\ invoice[i] \in InvoiceRows
    BY <1>1 DEF Made, TypeOK
  <2>2. i \in Issued
    BY <2>1, IdleFacts DEF IInv, RowsOK, Blank, Issued
  <2>3. Missing(i) \subseteq Ests /\ Missing(i) \intersect invoice[i].has = {}
    BY <1>1 DEF Missing
  <2>4. /\ q \in ReqRows /\ q.pc = "topup" /\ q.inv = {i} /\ q.ests = Missing(i)
        /\ q.seen = invoice[i]
    BY <2>1, <2>3, IdleFacts DEF ReqRows, PCs
  <2> HIDE DEF q
  <2>5. OnlyMoves(r) /\ req'[r] = q
    BY <1>1, <2>0, <2>4, MoveFacts DEF q
  <2> QED BY <2>0, <2>1, <2>2, <2>3, <2>4, <2>5 DEF Moved
<1> QED BY <1>3, <1>4

LEMMA AdvanceReadStep ==
    ASSUME IInv, NEW r \in Requests, NEW a \in Advs, NEW n \in 0..MaxTotal, AdvanceRead(r, a, n)
    PROVE  IInv'
<1>1. /\ TypeOK /\ UNCHANGED <<estimate, docVars, card, slips>> /\ n \in Nat
      /\ Offered \in SUBSET Ests
  BY InvoicesAssumption DEF IInv, AdvanceRead, Offered, Approved
<1>2. budget' \in [Sorts -> Nat]
  BY <1>1, SpendType DEF TypeOK, AdvanceRead, Sorts
<1>3. PICK had \in 0..MaxTotal :
         req' = [req EXCEPT ![r] = [Idle EXCEPT !.pc = "advance", !.adv = {a}, !.amount = n,
                                                !.ests = Offered, !.seen.sum = had]]
  BY DEF AdvanceRead
<1> DEFINE q == [Idle EXCEPT !.pc = "advance", !.adv = {a}, !.amount = n,
                             !.ests = Offered, !.seen.sum = had]
<1>4. had \in Nat
  BY InvoicesAssumption
<1>5. [NoInvoice EXCEPT !.sum = had] \in InvoiceRows
  BY <1>4, IdleFacts DEF InvoiceRows
<1>6. q \in ReqRows /\ q.pc = "advance" /\ q.inv = {}
  BY <1>1, <1>5, IdleFacts DEF ReqRows, PCs, Idle
<1> HIDE DEF q
<1>7. OnlyMoves(r) /\ req'[r] = q /\ req[r].pc = "idle"
  BY <1>1, <1>3, <1>6, MoveFacts DEF q, AdvanceRead, Free
<1>8. Moved(r)
  BY <1>6, <1>7 DEF Moved
<1> QED BY <1>1, <1>2, <1>7, <1>8, QuietStep

LEMMA RecomputeReadStep ==
    ASSUME IInv, NEW r \in Requests, RecomputeRead(r)
    PROVE  IInv'
<1>1. PICK i \in req[r].inv :
         /\ req[r].pc = "recompute"
         /\ req' = [req EXCEPT ![r].pc = "total", ![r].seen = invoice[i]]
         /\ UNCHANGED <<estimate, docVars, card, slips, budget>>
  BY DEF RecomputeRead
<1>2. /\ TypeOK /\ req[r] \in ReqRows /\ invoice[i] \in InvoiceRows /\ req[r].inv \subseteq Issued
      /\ budget' \in [Sorts -> Nat]
  BY <1>1 DEF IInv, TypeOK, ReqRows, RequestOK
<1>7. \A j, k \in req[r].inv : j = k
  BY DEF IInv, RequestOK
<1> DEFINE q == [req[r] EXCEPT !.pc = "total", !.seen = invoice[i]]
<1>3. q \in ReqRows /\ q.pc = "total" /\ q.inv = req[r].inv
  BY <1>2 DEF ReqRows, PCs
<1>4. req' = [req EXCEPT ![r] = q]
  BY <1>1
<1> HIDE DEF q
<1>5. OnlyMoves(r) /\ req'[r] = q
  BY <1>2, <1>3, <1>4, MoveFacts
<1>6. Moved(r)
  BY <1>1, <1>2, <1>3, <1>5, <1>7 DEF Moved
<1> QED BY <1>1, <1>2, <1>5, <1>6, QuietStep

\* The estimates change, and nothing else does.
LEMMA EstimateStep ==
    ASSUME IInv, UNCHANGED <<docVars, card, req>>, slips \subseteq slips',
           estimate' \in [Ests -> EstimateRows], Primary', budget' \in [Sorts -> Nat]
    PROVE  IInv'
<1>3. \A i \in Issued : Trusted(i)' /\ invoice[i].status = "DRAFT" /\ card'.sent
                           => ar[i].posted = invoice[i].total
  <2> SUFFICES ASSUME NEW i \in Issued, Trusted(i)', invoice[i].status = "DRAFT", card.sent
               PROVE  ar[i].posted = invoice[i].total
    OBVIOUS
  <2>1. Trusted(i)
    BY TrustKept DEF docVars, Issued
  <2> QED BY <2>1 DEF IInv, LedgerOK, Posted
<1>4. /\ card' \in [sent: BOOLEAN, delivered: BOOLEAN] /\ (card'.delivered => card'.sent)
      /\ req' \in [Requests -> ReqRows]
  BY DEF IInv, TypeOK, RowsOK, ReqRows
<1> QED BY <1>3, <1>4, Quiet

\* An estimate is approved, or its approval taken back: if the invoices' own stay
\* approved, and no request is misled, all is as before.
LEMMA TurnStep ==
    ASSUME IInv, NEW e \in Ests, Approve(e) \/ Decline(e)
    PROVE  IInv'
<1>1. /\ TypeOK /\ UNCHANGED <<docVars, card, req>> /\ slips \subseteq slips'
      /\ Misled(e) \subseteq slips' /\ (Spend("approve") \/ Spend("decline"))
      /\ estimate \in [Ests -> EstimateRows]
  BY DEF IInv, TypeOK, Approve, Decline
<1>2. budget' \in [Sorts -> Nat]
  BY <1>1, SpendType DEF TypeOK, Sorts
<1>3. /\ estimate' \in [Ests -> EstimateRows]
      /\ \A f \in Ests \ {e} : estimate'[f] = estimate[f]
      /\ Decline(e) \/ estimate'[e].approved
  BY <1>1 DEF Approve, Decline, EstimateRows
<1>4. Primary'
  <2> SUFFICES ASSUME Steady' PROVE Primary'
    BY DEF Primary
  <2>1. Steady /\ <<"turned", e>> \notin slips'
    BY <1>1 DEF Steady
  <2>2. Issued' = Issued /\ UNCHANGED <<invoice, req>> /\ (Decline(e) => Made(e) = {})
    BY <1>1, <2>1 DEF docVars, Issued, Decline, When
  <2>3. ASSUME NEW i \in Issued PROVE invoice[i].made \subseteq Approved'
    <3>1. invoice[i].made \subseteq Approved /\ i \in Invs
      BY <2>1 DEF IInv, Primary, Issued
    <3>2. Decline(e) => e \notin invoice[i].made
      BY <2>2, <3>1 DEF Made
    <3> QED BY <1>3, <3>1, <3>2 DEF Approved
  <2>4. ASSUME NEW x \in Requests, req[x].pc = "create"
        PROVE  Due(x)'
    <3>1. Due(x)
      BY <2>1, <2>4 DEF IInv, Primary
    <3>2. req[x].first = Oldest(Approved)'
      BY <1>1, <2>1, <2>4 DEF Misled, When
    <3> QED BY <2>2, <3>1, <3>2 DEF Due
  <2>5. Single'
    BY <2>1, <2>2 DEF IInv, Primary, Single
  <2> QED BY <2>2, <2>3, <2>4, <2>5 DEF Primary
<1> QED BY <1>1, <1>2, <1>3, <1>4, EstimateStep

LEMMA ToggleStep ==
    ASSUME IInv, NEW e \in Ests, Toggle(e)
    PROVE  IInv'
<1>1. /\ TypeOK /\ UNCHANGED <<docVars, card, req>> /\ slips \subseteq slips'
      /\ Spend("toggle") /\ estimate \in [Ests -> EstimateRows]
      /\ estimate' = [estimate EXCEPT ![e].off = ~@]
  BY DEF IInv, TypeOK, Toggle
<1>2. budget' \in [Sorts -> Nat]
  BY <1>1, SpendType DEF TypeOK, Sorts
<1>3. /\ estimate' \in [Ests -> EstimateRows]
      /\ \A f \in Ests : estimate'[f].approved = estimate[f].approved
  BY <1>1 DEF EstimateRows
<1>4. Approved' = Approved /\ Oldest(Approved)' = Oldest(Approved)
  <2>1. Approved' = Approved
    BY <1>3 DEF Approved
  <2> QED BY <2>1 DEF Oldest
<1>5. Primary'
  <2> SUFFICES ASSUME Steady' PROVE Primary'
    BY DEF Primary
  <2>1. Steady /\ Issued' = Issued /\ UNCHANGED <<invoice, req>>
    BY <1>1 DEF Steady, docVars, Issued
  <2>2. /\ Single /\ \A i \in Issued : invoice[i].made \subseteq Approved
        /\ \A x \in Requests : req[x].pc = "create" => Due(x)
    BY <2>1 DEF IInv, Primary
  <2>3. \A x \in Requests : Due(x) => Due(x)'
    BY <1>4, <2>1 DEF Due
  <2> QED BY <1>4, <2>1, <2>2, <2>3 DEF Primary, Single
<1> QED BY <1>1, <1>2, <1>3, <1>5, EstimateStep

LEMMA DeliverStep ==
    ASSUME IInv, Deliver
    PROVE  IInv'
<1>1. /\ TypeOK /\ UNCHANGED <<estimate, docVars, req, slips>>
      /\ estimate' \in [Ests -> EstimateRows]
      /\ card.sent /\ card' = [card EXCEPT !.delivered = TRUE]
  BY DEF IInv, TypeOK, Deliver
<1>2. budget' \in [Sorts -> Nat]
  BY <1>1, SpendType DEF TypeOK, Deliver, Sorts
<1>3. \A i \in Issued : Trusted(i)' /\ invoice[i].status = "DRAFT" /\ card'.sent
                           => ar[i].posted = invoice[i].total
  <2> SUFFICES ASSUME NEW i \in Issued, Trusted(i)', invoice[i].status = "DRAFT"
               PROVE  ar[i].posted = invoice[i].total
    OBVIOUS
  <2>1. Trusted(i)
    BY <1>1, TrustKept DEF docVars, Issued
  <2> QED BY <1>1, <2>1 DEF IInv, LedgerOK, Posted
<1>4. /\ card' \in [sent: BOOLEAN, delivered: BOOLEAN] /\ card'.sent
      /\ req' \in [Requests -> ReqRows]
  BY <1>1 DEF IInv, TypeOK, RowsOK, ReqRows
<1> QED BY <1>1, <1>2, <1>3, <1>4, Quiet

\* A send that ends at its count: the invoice has its rows, or had them from the start.
LEMMA SendCountStep ==
    ASSUME IInv, NEW r \in Requests, SendCount(r)
    PROVE  IInv'
<1>1. PICK k \in req[r].inv : SendCount(r)!(k)
  BY DEF SendCount
<1>2. /\ TypeOK /\ k \in Issued /\ k \in Invs /\ req[r].inv \subseteq Issued
      /\ req[r] \in ReqRows /\ budget' \in [Sorts -> Nat] /\ estimate' \in [Ests -> EstimateRows]
  BY <1>1 DEF IInv, TypeOK, ReqRows, RequestOK, Issued
<1>3. /\ slips \subseteq slips' /\ (Orderly' => Orderly /\ invoice[k].status # "VOID")
      /\ UNCHANGED <<docVars, estimate>> /\ \A i \in Issued : Trusted(i)' => Trusted(i)
  <2>1. slips \subseteq slips' /\ UNCHANGED <<docVars, estimate>>
    BY <1>1
  <2>2. (Orderly' => Orderly) /\ \A i \in Issued : Trusted(i)' => Trusted(i)
    BY <2>1, TrustKept DEF docVars, Issued
  <2>3. Orderly' => invoice[k].status # "VOID"
    BY <1>1, <1>2, BlindFacts DEF Orderly
  <2> QED BY <2>1, <2>2, <2>3
<1>4. Orderly' => /\ ~Replaced(k)
                  /\ \A i \in Issued : invoice[i].status = "DRAFT" => i = k
  BY <1>2, <1>3 DEF IInv, Succession, Issued
<1>5. CASE invoice[k].prev # {} /\ ar[k].posted = 0
  <2>1. Goto(r, "post") /\ UNCHANGED <<docVars, card>>
    BY <1>1, <1>5
  <2>2. OnlyMoves(r) /\ req'[r].pc = "post" /\ req'[r].inv = req[r].inv
    BY <1>2, <2>1, GotoFacts DEF PCs
  <2>3. \A i, j \in req[r].inv : i = j
    BY DEF IInv, RequestOK
  <2>4. Moved(r)
    BY <1>1, <1>2, <1>4, <2>2, <2>3 DEF Moved
  <2> QED BY <1>2, <1>3, <2>1, <2>2, <2>4, QuietStep
<1>6. CASE ~(invoice[k].prev # {} /\ ar[k].posted = 0)
  <2>1. /\ Finish(r) /\ card' = [card EXCEPT !.sent = TRUE]
        /\ UNCHANGED <<estimate, docVars, budget>>
    BY <1>1, <1>6
  <2>2. OnlyMoves(r) /\ req'[r] = Idle
    BY <1>2, <2>1, FinishFacts
  <2>3. Moved(r)
    BY <1>1, <2>2, IdleFacts DEF Moved
  <2>4. ASSUME NEW i \in Issued, Trusted(i)', invoice[i].status = "DRAFT"
        PROVE  ar[i].posted = invoice[i].total
    <3>1. Trusted(i) /\ i = k
      BY <1>3, <1>4, <2>4 DEF Trusted
    <3>2. Posted(k)
      BY <1>2, <3>1 DEF IInv, LedgerOK
    <3> QED BY <1>6, <2>4, <3>1, <3>2 DEF Posted
  <2>5. card' \in [sent: BOOLEAN, delivered: BOOLEAN] /\ card'.sent
    BY <1>2, <2>1 DEF TypeOK
  <2>6. req' \in [Requests -> ReqRows] /\ \A x \in Requests : req'[x] = req[x] \/ Moved(x)
    BY <2>2, <2>3 DEF OnlyMoves
  <2> QED BY <1>2, <1>3, <2>1, <2>4, <2>5, <2>6, Quiet
<1> QED BY <1>5, <1>6

-----------------------------------------------------------------------------
(* Steps that write one invoice.                                           *)

LEMMA RowStep ==
    ASSUME IInv, NEW r \in Requests, NEW i \in req[r].inv,
           UNCHANGED <<estimate, seq, advance, deposit, budget>>, slips \subseteq slips',
           invoice' \in [Invs -> InvoiceRows], ar' \in [Invs -> [posted: Nat, reversed: Nat]],
           \A j \in Invs \ {i} : invoice'[j] = invoice[j] /\ ar'[j] = ar[j],
           invoice'[i].number = invoice[i].number, invoice'[i].made = invoice[i].made,
           invoice'[i].prev = invoice[i].prev, invoice'[i].status # "NONE",
           invoice'[i].status = "SENT" => invoice[i].status = "SENT",
           invoice[i].status = "VOID" => \/ invoice'[i].status = "VOID"
                                         \/ <<"ghost", i>> \in slips',
           OnlyMoves(r), req'[r].pc \in {"idle", "recompute", "discount"},
           req'[r].inv \subseteq {i},
           TotalOK(i)', LedgerOK(i)', LinesOnce(i)',
           card' \in [sent: BOOLEAN, delivered: BOOLEAN], card'.delivered => card'.sent,
           \A j \in Issued \ {i} : Trusted(j)' /\ invoice[j].status = "DRAFT" /\ card'.sent
                                => ar[j].posted = invoice[j].total
    PROVE  IInv'
<1>1. /\ TypeOK /\ req \in [Requests -> ReqRows] /\ req' \in [Requests -> ReqRows]
      /\ req[r].inv \subseteq Issued /\ \A j \in req[r].inv : j = i
      /\ i \in Issued /\ i \in Invs /\ Issued \subseteq Invs
  BY DEF IInv, TypeOK, ReqRows, RequestOK, Issued, OnlyMoves
<1>2. \A j \in Invs : /\ invoice'[j].number = invoice[j].number
                      /\ invoice'[j].made = invoice[j].made /\ invoice'[j].prev = invoice[j].prev
                      /\ invoice'[j].status = "NONE" <=> invoice[j].status = "NONE"
                      /\ invoice[j].status = "VOID" => \/ invoice'[j].status = "VOID"
                                                       \/ <<"ghost", j>> \in slips'
                      /\ invoice'[j].status = "SENT" => invoice[j].status = "SENT"
  BY <1>1 DEF Issued
<1>3. Issued' = Issued /\ TakenAdv' = TakenAdv /\ \A j \in Invs : Replaced(j)' <=> Replaced(j)
  BY <1>2 DEF Issued, TakenAdv, Replaced
<1>4. (Orderly' => Orderly) /\ \A j \in Invs : Trusted(j)' => Trusted(j)
  BY <1>1, <1>2, <1>3, TrustKept
<1>13. Primary'
  BY <1>1, <1>2, <1>3, SamePrimary DEF OnlyMoves
<1>5. TypeOK'
  BY <1>1 DEF TypeOK, ReqRows
<1>6. RowsOK'
  <2>1. \A j \in Invs \ Issued' : Blank(j)'
    <3>1. ASSUME NEW j \in Invs \ Issued PROVE Blank(j)'
      BY <1>1 DEF IInv, RowsOK, Blank
    <3> QED BY <1>3, <3>1
  <2>2. \A j \in Invs : invoice'[j].prev \subseteq Issued'
    BY <1>2, <1>3 DEF IInv, RowsOK
  <2>4. \A j \in Issued' : invoice'[j].prev = {} => invoice'[j].made # {}
    BY <1>1, <1>2, <1>3 DEF IInv, RowsOK
  <2>3. \A j \in Invs : /\ invoice'[j].made # {} => invoice'[j].prev = {}
                        /\ invoice'[j].status = "SENT" => invoice'[j].prev = {}
    BY <1>2 DEF IInv, RowsOK
  <2>5. Issued' # {} => \E j \in Issued' : invoice'[j].prev = {}
    BY <1>1, <1>2, <1>3 DEF IInv, RowsOK
  <2> QED BY <2>1, <2>2, <2>3, <2>4, <2>5 DEF RowsOK
<1>7. DepositsFollowAdvances'
  BY <1>3 DEF IInv, DepositsFollowAdvances
<1>8. NumbersGapless'
  <2>1. {invoice'[j].number : j \in Issued'} = {invoice[j].number : j \in Issued}
    BY <1>1, <1>2, <1>3
  <2> QED BY <1>1, <1>2, <1>3, <2>1 DEF IInv, NumbersGapless
<1>9. Succession'
  <2>1. OneCorrection' /\ OnePrimary'
    BY <1>2 DEF IInv, Succession, OneCorrection, OnePrimary
  <2>3. Orderly' => /\ \A j, k \in Issued' : ~Replaced(j)' /\ ~Replaced(k)' => j = k
                    /\ \A j \in Invs : Replaced(j)' => invoice'[j].status = "VOID"
    <3>1. Orderly' => /\ \A j, k \in Issued : ~Replaced(j) /\ ~Replaced(k) => j = k
                      /\ \A j \in Invs : Replaced(j) => invoice[j].status = "VOID"
      BY <1>4 DEF IInv, Succession
    <3>2. Orderly' => \A j \in Invs : <<"ghost", j>> \notin slips'
      BY DEF Orderly
    <3> QED BY <1>1, <1>2, <1>3, <3>1, <3>2
  <2>4. ASSUME Orderly', NEW x \in Requests, req'[x].pc = "post", NEW j \in req'[x].inv
        PROVE  ~Replaced(j)'
    <3>1. x # r /\ req'[x] = req[x] /\ j \in Invs
      BY <1>1, <2>4 DEF OnlyMoves, ReqRows
    <3> QED BY <1>3, <1>4, <2>4, <3>1 DEF IInv, Succession
  <2> QED BY <2>1, <2>3, <2>4 DEF Succession
<1>10. ASSUME NEW x \in Requests PROVE RequestOK(x)'
  <2>1. CASE x = r
    BY <1>1, <1>3, <2>1 DEF RequestOK
  <2>2. CASE x # r
    <3>1. req'[x] = req[x] /\ req[x].inv \subseteq Invs /\ RequestOK(x)
      BY <1>1, <2>2 DEF OnlyMoves, ReqRows, IInv
    <3> QED BY <1>2, <1>3, <3>1 DEF RequestOK
  <2> QED BY <2>1, <2>2
<1>11. ASSUME NEW j \in Issued, j # i PROVE TotalOK(j)' /\ LedgerOK(j)' /\ LinesOnce(j)'
  <2>1. j \in Invs /\ invoice'[j] = invoice[j] /\ ar'[j] = ar[j]
    BY <1>1, <1>11
  <2>2. Recomputing(j) => Recomputing(j)'
    BY <1>1, <1>11 DEF Recomputing, OnlyMoves
  <2>3. TotalOK(j)'
    BY <2>1, <2>2 DEF IInv, TotalOK
  <2>4. LedgerOK(j)'
    <3> SUFFICES ASSUME Trusted(j)' PROVE Posted(j)'
      BY DEF LedgerOK
    <3>1. Trusted(j)
      BY <1>4, <2>1
    <3>2. Posted(j)
      BY <3>1 DEF IInv, LedgerOK
    <3>3. ASSUME NEW x \in Requests, req'[x].pc = "void", j \in req'[x].inv
          PROVE  ar[j].posted = invoice[j].total
      <4>1. req'[x] = req[x]
        BY <3>3 DEF OnlyMoves
      <4> QED BY <3>2, <3>3, <4>1 DEF Posted
    <3>4. invoice[j].status = "DRAFT" /\ card'.sent => ar[j].posted = invoice[j].total
      BY <1>11
    <3> QED BY <2>1, <3>2, <3>3, <3>4 DEF Posted
  <2>5. LinesOnce(j)'
    BY <1>3, <2>1 DEF IInv, LinesOnce
  <2> QED BY <2>3, <2>4, <2>5
<1>12. ASSUME NEW j \in Invs PROVE LinesOnce(j)'
  <2>1. CASE j \in Issued
    BY <1>11, <2>1
  <2>2. CASE j \notin Issued
    <3>1. invoice'[j] = invoice[j]
      BY <1>1, <2>2
    <3> QED BY <1>3, <3>1 DEF IInv, LinesOnce
  <2> QED BY <2>1, <2>2
<1> QED BY <1>3, <1>5, <1>6, <1>7, <1>8, <1>9, <1>10, <1>11, <1>12, <1>13 DEF IInv

\* A write to one row keeps the rows there are, and what they correct.
LEMMA RowKept ==
    ASSUME IInv, NEW i \in Issued, \A j \in Invs \ {i} : invoice'[j] = invoice[j],
           invoice'[i].prev = invoice[i].prev, invoice'[i].status # "NONE"
    PROVE  \A j \in Issued : j \in Issued' /\ invoice'[j].prev = invoice[j].prev
BY DEF Issued

\* The card stays as it is, and with it what is known of a card that is sent.
LEMMA SameCard ==
    ASSUME IInv, UNCHANGED card, slips \subseteq slips',
           \A j \in Issued : j \in Issued' /\ invoice'[j].prev = invoice[j].prev
    PROVE  /\ card' \in [sent: BOOLEAN, delivered: BOOLEAN] /\ (card'.delivered => card'.sent)
           /\ \A j \in Issued : Trusted(j)' /\ invoice[j].status = "DRAFT" /\ card'.sent
                                => ar[j].posted = invoice[j].total
<1>1. card' \in [sent: BOOLEAN, delivered: BOOLEAN] /\ (card'.delivered => card'.sent)
  BY DEF IInv, TypeOK, RowsOK
<1>2. ASSUME NEW j \in Issued, Trusted(j)', invoice[j].status = "DRAFT", card.sent
      PROVE  ar[j].posted = invoice[j].total
  <2>1. Trusted(j)
    BY <1>2, TrustKept DEF Issued
  <2> QED BY <1>2, <2>1 DEF IInv, LedgerOK, Posted
<1> QED BY <1>1, <1>2

\* A ledger that stays as it is goes on to hold a total that does.
LEMMA SameLedger ==
    ASSUME IInv, NEW r \in Requests, NEW i \in Issued, OnlyMoves(r), req'[r].pc # "void",
           slips \subseteq slips', UNCHANGED card,
           \A j \in Issued : j \in Issued' /\ invoice'[j].prev = invoice[j].prev, ar'[i] = ar[i],
           invoice'[i].total = invoice[i].total, invoice'[i].prev = invoice[i].prev,
           invoice'[i].status = "DRAFT" => invoice[i].status = "DRAFT",
           invoice'[i].status = "VOID" <=> invoice[i].status = "VOID"
    PROVE  LedgerOK(i)'
<1> SUFFICES ASSUME Trusted(i)' PROVE Posted(i)'
  BY DEF LedgerOK
<1>1. Trusted(i)
  BY TrustKept DEF Issued
<1>2. Posted(i)
  BY <1>1 DEF IInv, LedgerOK
<1>3. ASSUME NEW x \in Requests, req'[x].pc = "void", i \in req'[x].inv
      PROVE  ar[i].posted = invoice[i].total
  <2>1. req'[x] = req[x]
    BY <1>3 DEF OnlyMoves
  <2> QED BY <1>2, <1>3, <2>1 DEF Posted
<1> QED BY <1>2, <1>3 DEF Posted

LEMMA TopUpStep ==
    ASSUME IInv, NEW r \in Requests, TopUp(r)
    PROVE  IInv'
<1>1. PICK i \in req[r].inv, n \in 0..MaxTotal : TopUp(r)!(i, n)
  BY DEF TopUp
<1>2. /\ TypeOK /\ req[r] \in ReqRows /\ i \in Issued /\ i \in Invs /\ n \in Nat
      /\ req[r].inv \subseteq Issued /\ \A j \in req[r].inv : j = i
      /\ req[r].ests \subseteq Ests /\ invoice[i] \in InvoiceRows
      /\ invoice \in [Invs -> InvoiceRows] /\ RequestOK(r)
  BY InvoicesAssumption DEF IInv, TypeOK, ReqRows, RequestOK, Issued
<1> DEFINE row == invoice[i]
<1> DEFINE more == [e \in Ests |-> IF e \in req[r].ests THEN row.times[e] + 1 ELSE row.times[e]]
<1> DEFINE new == [row EXCEPT !.sum = n, !.has = @ \union req[r].ests, !.times = more]
<1>3. more \in [Ests -> Nat]
  BY <1>2 DEF InvoiceRows
<1>4. /\ new \in InvoiceRows /\ new.status = row.status /\ new.number = row.number
      /\ new.made = row.made /\ new.prev = row.prev /\ new.total = row.total
      /\ new.has = row.has \union req[r].ests /\ new.times = more
  <2> HIDE DEF more
  <2> QED BY <1>2, <1>3 DEF InvoiceRows
<1>5. invoice' = [invoice EXCEPT ![i] = new]
  BY <1>1, <1>2 DEF InvoiceRows
<1> HIDE DEF new
<1>6. /\ invoice' \in [Invs -> InvoiceRows] /\ invoice'[i] = new
      /\ \A j \in Invs \ {i} : invoice'[j] = invoice[j]
  BY <1>2, <1>4, <1>5
<1>7. /\ OnlyMoves(r) /\ req'[r].pc = "recompute" /\ req'[r].inv = req[r].inv
  BY <1>1, <1>2, GotoFacts DEF PCs
<1>8. slips \subseteq slips' /\ UNCHANGED <<estimate, ar, seq, advance, deposit, card, budget>>
  BY <1>1
<1>20. \A j \in Issued : j \in Issued' /\ invoice'[j].prev = invoice[j].prev
  BY <1>2, <1>4, <1>6, RowKept DEF Issued
<1>9. TotalOK(i)'
  BY <1>7 DEF TotalOK, Recomputing
<1>10. LedgerOK(i)'
  BY <1>2, <1>4, <1>6, <1>7, <1>8, <1>20, SameLedger
<1>11. LinesOnce(i)'
  <2>1. i \in Issued' /\ row.prev = {}
    BY <1>1, <1>2, <1>4, <1>6 DEF RequestOK, IInv, RowsOK, Issued, InvoiceRows
  <2>2. LinesOnce(i) /\ row.times \in [Ests -> Nat]
    BY <1>2 DEF IInv, InvoiceRows
  <2>3. ASSUME NEW e \in Ests, <<"reprice", i>> \notin slips', more[e] > 0
        PROVE  e \in new.has
    BY <1>4, <1>8, <2>2, <2>3 DEF LinesOnce
  <2>4. ASSUME NEW e \in Ests, <<"reprice", i>> \notin slips', <<"topup", i>> \notin slips'
        PROVE  more[e] <= 1
    <3>1. invoice[i] = req[r].seen
      BY <1>1, <2>4, BlindFacts
    <3>2. e \in req[r].ests => e \notin row.has
      BY <1>1, <1>2, <3>1 DEF RequestOK
    <3> QED BY <1>8, <2>2, <2>4, <3>2 DEF LinesOnce
  <2> HIDE DEF more
  <2> QED BY <1>4, <1>6, <2>1, <2>3, <2>4 DEF LinesOnce
<1> HIDE DEF more
<1>12. invoice[i].status # "NONE"
  BY <1>2 DEF Issued
<1> QED BY <1>2, <1>4, <1>6, <1>7, <1>8, <1>9, <1>10, <1>11, <1>12, <1>20,
       SameCard, RowStep DEF TypeOK, IInv

LEMMA EditWriteStep ==
    ASSUME IInv, NEW r \in Requests, EditWrite(r)
    PROVE  IInv'
<1>1. PICK i \in req[r].inv, n \in 0..MaxTotal, gone \in SUBSET Ests : EditWrite(r)!(i, n, gone)
  BY DEF EditWrite
<1>2. /\ TypeOK /\ req[r] \in ReqRows /\ i \in Issued /\ i \in Invs /\ n \in Nat
      /\ \A j \in req[r].inv : j = i
      /\ invoice[i] \in InvoiceRows /\ invoice \in [Invs -> InvoiceRows]
  BY InvoicesAssumption DEF IInv, TypeOK, ReqRows, RequestOK, Issued
<1> DEFINE row == invoice[i]
<1> DEFINE new == [row EXCEPT !.sum = n, !.has = @ \ gone]
<1>3. /\ new \in InvoiceRows /\ new.status = row.status /\ new.number = row.number
      /\ new.made = row.made /\ new.prev = row.prev /\ new.total = row.total
      /\ new.has = row.has \ gone /\ new.times = row.times
  BY <1>2 DEF InvoiceRows
<1>4. invoice' = [invoice EXCEPT ![i] = new]
  BY <1>1, <1>2 DEF InvoiceRows
<1> HIDE DEF new
<1>5. /\ invoice' \in [Invs -> InvoiceRows] /\ invoice'[i] = new
      /\ \A j \in Invs \ {i} : invoice'[j] = invoice[j]
  BY <1>2, <1>3, <1>4
<1>6. /\ OnlyMoves(r) /\ req'[r].pc \in {"recompute", "discount"} /\ req'[r].inv = req[r].inv
  <2>1. PICK pc \in {"recompute", "discount"} : Goto(r, pc)
    BY <1>1
  <2>2. pc \in PCs
    BY DEF PCs
  <2> QED BY <1>2, <2>1, <2>2, GotoFacts
<1>7. /\ slips \subseteq slips' /\ UNCHANGED <<estimate, ar, seq, advance, deposit, card, budget>>
      /\ gone # {} => <<"reprice", i>> \in slips'
  BY <1>1
<1>20. \A j \in Issued : j \in Issued' /\ invoice'[j].prev = invoice[j].prev
  BY <1>2, <1>3, <1>5, RowKept DEF Issued
<1>8. TotalOK(i)'
  BY <1>6 DEF TotalOK, Recomputing
<1>9. LedgerOK(i)'
  BY <1>2, <1>3, <1>5, <1>6, <1>7, <1>20, SameLedger
<1>10. LinesOnce(i)'
  <2>1. LinesOnce(i) /\ i \in Issued'
    BY <1>2, <1>3, <1>5 DEF IInv, Issued
  <2>2. <<"reprice", i>> \notin slips' => new.has = row.has
    BY <1>3, <1>7
  <2> QED BY <1>3, <1>5, <1>7, <2>1, <2>2 DEF LinesOnce
<1>11. invoice[i].status # "NONE"
  BY <1>2 DEF Issued
<1> QED BY <1>2, <1>3, <1>5, <1>6, <1>7, <1>8, <1>9, <1>10, <1>11, <1>20,
       SameCard, RowStep DEF TypeOK, IInv

\* A row's lines stay.
LEMMA SameLines ==
    ASSUME IInv, NEW i \in Issued, slips \subseteq slips', i \in Issued',
           invoice'[i].prev = invoice[i].prev, invoice'[i].has = invoice[i].has,
           invoice'[i].times = invoice[i].times
    PROVE  LinesOnce(i)'
<1>1. LinesOnce(i)
  BY DEF IInv, Issued
<1> QED BY <1>1 DEF LinesOnce

LEMMA RecomputeWriteStep ==
    ASSUME IInv, NEW r \in Requests, RecomputeWrite(r)
    PROVE  IInv'
<1>1. PICK i \in req[r].inv : RecomputeWrite(r)!(i)
  BY DEF RecomputeWrite
<1>2. /\ TypeOK /\ req[r] \in ReqRows /\ i \in Issued /\ i \in Invs
      /\ \A j \in req[r].inv : j = i /\ req[r].seen \in InvoiceRows
      /\ invoice[i] \in InvoiceRows /\ invoice \in [Invs -> InvoiceRows]
      /\ ar \in [Invs -> [posted: Nat, reversed: Nat]]
  BY DEF IInv, TypeOK, ReqRows, RequestOK, Issued
<1> DEFINE row == invoice[i]
<1> DEFINE n == req[r].seen.sum
<1> DEFINE new == [row EXCEPT !.total = n]
<1>0. n \in Nat
  BY <1>1, <1>2 DEF InvoiceRows
<1>3. /\ new \in InvoiceRows /\ new.status = row.status /\ new.number = row.number
      /\ new.made = row.made /\ new.prev = row.prev /\ new.total = n /\ new.sum = row.sum
      /\ new.has = row.has /\ new.times = row.times
  BY <1>0, <1>2 DEF InvoiceRows
<1>4. invoice' = [invoice EXCEPT ![i] = new] /\ ar' = [ar EXCEPT ![i].posted = n]
  BY <1>1, <1>2 DEF InvoiceRows
<1> HIDE DEF new
<1>5. /\ invoice' \in [Invs -> InvoiceRows] /\ invoice'[i] = new
      /\ \A j \in Invs \ {i} : invoice'[j] = invoice[j] /\ ar'[j] = ar[j]
  BY <1>2, <1>3, <1>4
<1>6. /\ ar' \in [Invs -> [posted: Nat, reversed: Nat]] /\ ar'[i].posted = n
      /\ ar'[i].reversed = ar[i].reversed
  BY <1>0, <1>2, <1>4
<1>7. /\ OnlyMoves(r) /\ req'[r].pc = "idle" /\ req'[r].inv = {}
  BY <1>1, <1>2, FinishFacts, IdleFacts
<1>8. /\ slips \subseteq slips' /\ UNCHANGED <<estimate, seq, advance, deposit, card, budget>>
      /\ invoice[i] # req[r].seen => <<"total", i>> \in slips'
      /\ invoice[i].status = "VOID" => <<"ghost", i>> \in slips'
  BY <1>1, BlindFacts
<1>20. \A j \in Issued : j \in Issued' /\ invoice'[j].prev = invoice[j].prev
  BY <1>2, <1>3, <1>5, RowKept DEF Issued
<1>9. TotalOK(i)'
  BY <1>3, <1>5, <1>8 DEF TotalOK
<1>10. LedgerOK(i)'
  <2> SUFFICES ASSUME Trusted(i)' PROVE Posted(i)'
    BY DEF LedgerOK
  <2>1. Trusted(i) /\ invoice[i].status # "VOID"
    BY <1>2, <1>8, <1>20, TrustKept DEF Trusted, Orderly
  <2>2. ar[i].reversed = 0
    BY <1>2, <2>1 DEF IInv, LedgerOK, Posted
  <2> QED BY <1>3, <1>5, <1>6, <2>1, <2>2 DEF Posted
<1>11. invoice[i].status # "NONE" /\ i \in Issued'
  BY <1>2, <1>3, <1>5 DEF Issued
<1>12. LinesOnce(i)'
  BY <1>2, <1>3, <1>5, <1>8, <1>11, SameLines
<1>13. /\ card' \in [sent: BOOLEAN, delivered: BOOLEAN] /\ (card'.delivered => card'.sent)
       /\ \A j \in Issued : Trusted(j)' /\ invoice[j].status = "DRAFT" /\ card'.sent
                               => ar[j].posted = invoice[j].total
  BY <1>8, <1>20, SameCard
<1>213. /\ invoice'[i].number = invoice[i].number /\ invoice'[i].made = invoice[i].made
       /\ invoice'[i].prev = invoice[i].prev
  BY <1>3, <1>5
<1> QED BY <1>2, <1>3, <1>5, <1>6, <1>7, <1>8, <1>9, <1>10, <1>11, <1>12, <1>13, <1>213, RowStep

LEMMA SendPostStep ==
    ASSUME IInv, NEW r \in Requests, SendPost(r)
    PROVE  IInv'
<1>1. PICK i \in req[r].inv : SendPost(r)!(i)
  BY DEF SendPost
<1>2. /\ TypeOK /\ req[r] \in ReqRows /\ i \in Issued /\ i \in Invs
      /\ \A j \in req[r].inv : j = i /\ req[r].seen \in InvoiceRows
      /\ invoice[i] \in InvoiceRows /\ invoice \in [Invs -> InvoiceRows]
      /\ ar \in [Invs -> [posted: Nat, reversed: Nat]]
  BY DEF IInv, TypeOK, ReqRows, RequestOK, Issued
<1> DEFINE n == req[r].seen.total
<1>3. n \in Nat
  BY <1>1, <1>2 DEF InvoiceRows
<1>4. /\ ar' = [ar EXCEPT ![i].posted = @ + n] /\ UNCHANGED invoice
      /\ card' = [card EXCEPT !.sent = TRUE] /\ req[r].pc = "post"
  BY <1>1
<1>5. /\ ar' \in [Invs -> [posted: Nat, reversed: Nat]] /\ ar'[i].posted = ar[i].posted + n
      /\ ar'[i].reversed = ar[i].reversed /\ \A j \in Invs \ {i} : ar'[j] = ar[j]
  <2> HIDE DEF n
  <2>1. ar[i].posted \in Nat /\ ar[i].posted + n \in Nat
    BY <1>2, <1>3
  <2> QED BY <1>2, <1>4, <2>1
<1>6. /\ OnlyMoves(r) /\ req'[r].pc = "idle" /\ req'[r].inv = {}
  BY <1>1, <1>2, FinishFacts, IdleFacts
<1>7. /\ slips \subseteq slips' /\ UNCHANGED <<estimate, seq, advance, deposit, budget>>
      /\ <<"post", i>> \notin slips' => ar[i].posted = 0 /\ invoice[i].total = n
  BY <1>1 DEF Slip, When
<1>20. (Orderly' => Orderly) /\ \A j \in Invs : Trusted(j)' => Trusted(j)
  BY <1>4, <1>7, TrustKept DEF Issued
<1>8. TotalOK(i)'
  <2>1. Recomputing(i) => Recomputing(i)'
    BY <1>4, <1>6 DEF Recomputing, OnlyMoves
  <2> QED BY <1>2, <1>4, <1>7, <2>1 DEF IInv, TotalOK
<1>9. LedgerOK(i)'
  <2> SUFFICES ASSUME Trusted(i)' PROVE Posted(i)'
    BY DEF LedgerOK
  <2>1. Trusted(i) /\ <<"post", i>> \notin slips'
    BY <1>2, <1>20 DEF Trusted
  <2>2. Posted(i) /\ ar[i].posted = 0 /\ ar'[i].posted = invoice[i].total
    BY <1>2, <1>3, <1>5, <1>7, <2>1 DEF IInv, LedgerOK
  <2> QED BY <1>4, <1>5, <2>2 DEF Posted
<1>10. ASSUME NEW j \in Issued \ {i}, Trusted(j)' PROVE invoice[j].status # "DRAFT"
  <2>1. Orderly
    BY <1>10, <1>20 DEF Trusted
  <2>2. ~Replaced(i)
    BY <1>2, <1>4, <2>1 DEF IInv, Succession
  <2>3. Replaced(j)
    BY <1>2, <2>1, <2>2 DEF IInv, Succession
  <2> QED BY <2>1, <2>3 DEF IInv, Succession, Issued
<1>11. card' \in [sent: BOOLEAN, delivered: BOOLEAN] /\ card'.sent
  BY <1>2, <1>4 DEF TypeOK
<1>12. invoice[i].status # "NONE" /\ i \in Issued'
  BY <1>2, <1>4 DEF Issued
<1>13. LinesOnce(i)'
  BY <1>2, <1>4, <1>7, <1>12, SameLines
<1> QED BY <1>2, <1>4, <1>5, <1>6, <1>7, <1>8, <1>9, <1>10, <1>11, <1>12, <1>13, RowStep

LEMMA PayWriteStep ==
    ASSUME IInv, NEW r \in Requests, PayWrite(r)
    PROVE  IInv'
<1>1. PICK i \in req[r].inv : PayWrite(r)!(i)
  BY DEF PayWrite
<1>2. /\ TypeOK /\ req[r] \in ReqRows /\ i \in Issued /\ i \in Invs
      /\ \A j \in req[r].inv : j = i /\ req[r].amount \in Nat
      /\ invoice[i] \in InvoiceRows /\ invoice \in [Invs -> InvoiceRows]
  BY DEF IInv, TypeOK, ReqRows, RequestOK, Issued
<1> DEFINE row == invoice[i]
<1> DEFINE settled == req[r].seen.paid + req[r].amount >= req[r].seen.total
<1> DEFINE status == IF settled THEN "PAID" ELSE row.status
<1> DEFINE n == row.paid + req[r].amount
<1> DEFINE new == [row EXCEPT !.paid = n, !.status = status]
<1>0. /\ n \in Nat /\ status \in Statuses /\ (status = "PAID" \/ status = row.status)
      /\ req[r].pc = "pay"
  BY <1>1, <1>2 DEF InvoiceRows, Statuses
<1>4. invoice' = [invoice EXCEPT ![i] = new]
  BY <1>1, <1>2 DEF InvoiceRows
<1> HIDE DEF settled, status, n
<1>3. /\ new \in InvoiceRows /\ new.status = status /\ new.number = row.number
      /\ new.made = row.made /\ new.prev = row.prev /\ new.total = row.total
      /\ new.sum = row.sum /\ new.has = row.has /\ new.times = row.times
  BY <1>0, <1>2 DEF InvoiceRows
<1> HIDE DEF new
<1>5. /\ invoice' \in [Invs -> InvoiceRows] /\ invoice'[i] = new
      /\ \A j \in Invs \ {i} : invoice'[j] = invoice[j]
  BY <1>2, <1>3, <1>4
<1>7. /\ OnlyMoves(r) /\ req'[r].pc = "idle" /\ req'[r].inv = {}
  BY <1>1, <1>2, FinishFacts, IdleFacts
<1>8. /\ slips \subseteq slips' /\ UNCHANGED <<estimate, ar, seq, advance, deposit, card, budget>>
      /\ invoice[i].status = "VOID" => <<"ghost", i>> \in slips'
  BY <1>1, BlindFacts
<1>20. \A j \in Issued : j \in Issued' /\ invoice'[j].prev = invoice[j].prev
  BY <1>0, <1>2, <1>3, <1>5, RowKept DEF Issued
<1>9. TotalOK(i)'
  <2>1. Recomputing(i) => Recomputing(i)'
    BY <1>0, <1>7 DEF Recomputing, OnlyMoves
  <2> QED BY <1>2, <1>3, <1>5, <1>8, <2>1 DEF IInv, TotalOK
<1>10. LedgerOK(i)'
  <2>1. CASE invoice[i].status = "VOID"
    BY <1>2, <1>8, <2>1 DEF LedgerOK, Trusted, Orderly
  <2>2. CASE invoice[i].status # "VOID"
    <3>1. status # "VOID" /\ (status = "DRAFT" => row.status = "DRAFT")
      BY <1>0, <2>2
    <3> QED BY <1>2, <1>3, <1>5, <1>7, <1>8, <1>20, <2>2, <3>1, SameLedger
  <2> QED BY <2>1, <2>2
<1>11. /\ invoice'[i].status # "NONE" /\ i \in Issued'
       /\ invoice'[i].status = "SENT" => invoice[i].status = "SENT"
       /\ invoice[i].status = "VOID" => <<"ghost", i>> \in slips'
  BY <1>0, <1>2, <1>3, <1>5, <1>8 DEF Issued
<1>12. LinesOnce(i)'
  BY <1>2, <1>3, <1>5, <1>8, <1>11, SameLines
<1>13. ar' \in [Invs -> [posted: Nat, reversed: Nat]] /\ \A j \in Invs \ {i} : ar'[j] = ar[j]
  BY <1>2, <1>8 DEF TypeOK
<1>14. /\ card' \in [sent: BOOLEAN, delivered: BOOLEAN] /\ (card'.delivered => card'.sent)
       /\ \A j \in Issued : Trusted(j)' /\ invoice[j].status = "DRAFT" /\ card'.sent
                               => ar[j].posted = invoice[j].total
  BY <1>8, <1>20, SameCard
<1>214. /\ invoice'[i].number = invoice[i].number /\ invoice'[i].made = invoice[i].made
       /\ invoice'[i].prev = invoice[i].prev
  BY <1>3, <1>5
<1> QED BY <1>2, <1>3, <1>5, <1>7, <1>8, <1>9, <1>10, <1>11, <1>12, <1>13, <1>14, <1>214, RowStep

LEMMA VoidWriteStep ==
    ASSUME IInv, NEW r \in Requests, VoidWrite(r)
    PROVE  IInv'
<1>1. PICK i \in req[r].inv : VoidWrite(r)!(i)
  BY DEF VoidWrite
<1>2. /\ TypeOK /\ req[r] \in ReqRows /\ i \in Issued /\ i \in Invs
      /\ \A j \in req[r].inv : j = i /\ req[r].seen \in InvoiceRows
      /\ invoice[i] \in InvoiceRows /\ invoice \in [Invs -> InvoiceRows]
      /\ ar \in [Invs -> [posted: Nat, reversed: Nat]] /\ RequestOK(r)
  BY DEF IInv, TypeOK, ReqRows, RequestOK, Issued
<1> DEFINE row == invoice[i]
<1> DEFINE n == req[r].seen.total
<1> DEFINE new == [row EXCEPT !.status = "VOID"]
<1>0. n \in Nat
  BY <1>1, <1>2 DEF InvoiceRows
<1>3. /\ new \in InvoiceRows /\ new.status = "VOID" /\ new.number = row.number
      /\ new.made = row.made /\ new.prev = row.prev /\ new.total = row.total
      /\ new.sum = row.sum /\ new.has = row.has /\ new.times = row.times
  BY <1>2 DEF InvoiceRows, Statuses
<1>4. /\ invoice' = [invoice EXCEPT ![i] = new] /\ ar' = [ar EXCEPT ![i].reversed = @ + n]
      /\ req[r].pc = "void"
  BY <1>1, <1>2 DEF InvoiceRows
<1> HIDE DEF new
<1>5. /\ invoice' \in [Invs -> InvoiceRows] /\ invoice'[i] = new
      /\ \A j \in Invs \ {i} : invoice'[j] = invoice[j]
  BY <1>2, <1>3, <1>4
<1>6. /\ ar' \in [Invs -> [posted: Nat, reversed: Nat]] /\ ar'[i].posted = ar[i].posted
      /\ ar'[i].reversed = ar[i].reversed + n /\ \A j \in Invs \ {i} : ar'[j] = ar[j]
  <2> HIDE DEF n
  <2>1. ar[i].reversed \in Nat /\ ar[i].reversed + n \in Nat
    BY <1>0, <1>2
  <2> QED BY <1>2, <1>4, <2>1
<1>7. /\ OnlyMoves(r) /\ req'[r].pc = "idle" /\ req'[r].inv = {}
  BY <1>1, <1>2, FinishFacts, IdleFacts
<1>8. /\ slips \subseteq slips' /\ UNCHANGED <<estimate, seq, advance, deposit, card, budget>>
      /\ <<"void", i>> \notin slips' => invoice[i] = req[r].seen
  BY <1>1 DEF Slip, When
<1>20. \A j \in Issued : j \in Issued' /\ invoice'[j].prev = invoice[j].prev
  BY <1>2, <1>3, <1>5, RowKept DEF Issued
<1>9. TotalOK(i)'
  <2>1. Recomputing(i) => Recomputing(i)'
    BY <1>4, <1>7 DEF Recomputing, OnlyMoves
  <2> QED BY <1>2, <1>3, <1>5, <1>8, <2>1 DEF IInv, TotalOK
<1>10. LedgerOK(i)'
  <2> SUFFICES ASSUME Trusted(i)' PROVE Posted(i)'
    BY DEF LedgerOK
  <2>1. Trusted(i) /\ invoice[i] = req[r].seen
    BY <1>2, <1>8, <1>20, TrustKept DEF Trusted
  <2>2. Posted(i) /\ invoice[i].status \in {"DRAFT", "SENT"}
    BY <1>2, <1>4, <2>1 DEF IInv, LedgerOK, RequestOK
  <2>3. ar[i].posted = invoice[i].total /\ ar'[i].reversed = invoice[i].total
    BY <1>0, <1>4, <1>6, <2>1, <2>2 DEF Posted
  <2> QED BY <1>3, <1>5, <1>6, <2>3 DEF Posted
<1>11. invoice'[i].status = "VOID" /\ i \in Issued'
  BY <1>2, <1>3, <1>5 DEF Issued
<1>12. LinesOnce(i)'
  BY <1>2, <1>3, <1>5, <1>8, <1>11, SameLines
<1>13. /\ card' \in [sent: BOOLEAN, delivered: BOOLEAN] /\ (card'.delivered => card'.sent)
       /\ \A j \in Issued : Trusted(j)' /\ invoice[j].status = "DRAFT" /\ card'.sent
                               => ar[j].posted = invoice[j].total
  BY <1>8, <1>20, SameCard
<1>213. /\ invoice'[i].number = invoice[i].number /\ invoice'[i].made = invoice[i].made
       /\ invoice'[i].prev = invoice[i].prev
  BY <1>3, <1>5
<1> QED BY <1>2, <1>3, <1>5, <1>6, <1>7, <1>8, <1>9, <1>10, <1>11, <1>12, <1>13, <1>213, RowStep

LEMMA AdvanceWriteStep ==
    ASSUME IInv, NEW r \in Requests, AdvanceWrite(r)
    PROVE  IInv'
<1>1. PICK a \in req[r].adv : AdvanceWrite(r)!(a)
  BY DEF AdvanceWrite
<1> DEFINE n == req[r].amount
<1>2. /\ TypeOK /\ req[r] \in ReqRows /\ a \in Advs /\ n \in Nat /\ req[r].pc = "advance"
      /\ advance \in [Advs -> [amount: Nat, migrated: BOOLEAN]] /\ deposit \in [Advs -> Nat]
  BY <1>1 DEF IInv, TypeOK, ReqRows
<1>3. /\ UNCHANGED <<estimate, invoice, ar, seq, card, budget>> /\ slips \subseteq slips'
      /\ advance' = [advance EXCEPT ![a] = [amount |-> n, migrated |-> FALSE]]
      /\ deposit' = [deposit EXCEPT ![a] = @ + n]
      /\ Issued # {} => <<"advance", a>> \in slips'
  BY <1>1 DEF When
<1>4. OnlyMoves(r) /\ req'[r].pc = "idle" /\ req'[r].inv = {}
  BY <1>1, <1>2, FinishFacts, IdleFacts
<1>5. advance[a].amount = 0 /\ deposit[a] = 0
  <2>1. advance[a].amount = 0
    BY <1>1, <1>2 DEF TakenAdv
  <2> QED BY <1>2, <2>1 DEF IInv, DepositsFollowAdvances
<1>6. /\ advance' \in [Advs -> [amount: Nat, migrated: BOOLEAN]] /\ deposit' \in [Advs -> Nat]
      /\ advance'[a].amount = n /\ advance'[a].migrated = FALSE /\ deposit'[a] = n
      /\ \A b \in Advs \ {a} : advance'[b] = advance[b] /\ deposit'[b] = deposit[b]
  <2> HIDE DEF n
  <2> QED BY <1>2, <1>3, <1>5
<1> HIDE DEF n
<1>7. Issued' = Issued /\ \A j \in Invs : Replaced(j)' <=> Replaced(j)
  BY <1>3 DEF Issued, Replaced
<1>17. \A j \in Issued : j \in Issued' /\ invoice'[j].prev = invoice[j].prev
  BY <1>3, <1>7
<1>8. Orderly' => Orderly
  BY <1>3, <1>17, TrustKept
<1>18. Primary'
  BY <1>3, <1>4, <1>7, SamePrimary DEF OnlyMoves
<1>9. TypeOK'
  BY <1>2, <1>3, <1>4, <1>6 DEF TypeOK, OnlyMoves, ReqRows
<1>10. RowsOK'
  BY <1>3, <1>7 DEF IInv, RowsOK, Blank
<1>11. DepositsFollowAdvances'
  <2> SUFFICES ASSUME NEW b \in Advs
               PROVE  /\ deposit'[b] = IF advance'[b].migrated THEN 0 ELSE advance'[b].amount
                      /\ advance'[b].amount > 0 /\ Issued # {} /\ <<"advance", b>> \notin slips'
                            => advance'[b].migrated
    BY <1>7 DEF DepositsFollowAdvances, TakenAdv
  <2>1. CASE b = a
    BY <1>3, <1>6, <2>1
  <2>2. CASE b # a
    BY <1>3, <1>6, <2>2 DEF IInv, DepositsFollowAdvances, TakenAdv
  <2> QED BY <2>1, <2>2
<1>12. NumbersGapless'
  BY <1>3, <1>7 DEF IInv, NumbersGapless
<1>13. Succession'
  <2>1. OneCorrection' /\ OnePrimary'
    BY <1>3 DEF IInv, Succession, OneCorrection, OnePrimary
  <2>3. Orderly' => /\ \A j, k \in Issued' : ~Replaced(j)' /\ ~Replaced(k)' => j = k
                    /\ \A j \in Invs : Replaced(j)' => invoice'[j].status = "VOID"
    <3>1. Orderly' => /\ \A j, k \in Issued : ~Replaced(j) /\ ~Replaced(k) => j = k
                      /\ \A j \in Invs : Replaced(j) => invoice[j].status = "VOID"
      BY <1>8 DEF IInv, Succession
    <3> QED BY <1>3, <1>7, <3>1 DEF Issued
  <2>4. ASSUME Orderly', NEW x \in Requests, req'[x].pc = "post", NEW j \in req'[x].inv
        PROVE  ~Replaced(j)'
    <3>1. x # r /\ req'[x] = req[x] /\ j \in Invs
      BY <1>2, <1>4, <2>4 DEF OnlyMoves, ReqRows
    <3> QED BY <1>7, <1>8, <2>4, <3>1 DEF IInv, Succession
  <2> QED BY <2>1, <2>3, <2>4 DEF Succession
<1>14. ASSUME NEW x \in Requests PROVE RequestOK(x)'
  <2>1. CASE x = r
    BY <1>4, <2>1 DEF RequestOK
  <2>2. CASE x # r
    BY <1>3, <1>4, <1>7, <2>2 DEF OnlyMoves, IInv, RequestOK
  <2> QED BY <2>1, <2>2
<1>15. ASSUME NEW j \in Issued PROVE TotalOK(j)' /\ LedgerOK(j)'
  <2>1. Recomputing(j) => Recomputing(j)'
    BY <1>2, <1>4 DEF Recomputing, OnlyMoves
  <2>2. TotalOK(j)'
    BY <1>3, <2>1 DEF IInv, TotalOK
  <2>3. LedgerOK(j)'
    BY <1>3, <1>4, <1>17, SameLedger
  <2> QED BY <2>2, <2>3
<1>16. ASSUME NEW j \in Invs PROVE LinesOnce(j)'
  BY <1>3, <1>7 DEF IInv, LinesOnce
<1> QED BY <1>7, <1>9, <1>10, <1>11, <1>12, <1>13, <1>14, <1>15, <1>16,
          <1>18 DEF IInv

-----------------------------------------------------------------------------
(* Steps that make an invoice.                                             *)

LEMMA OneMore == ASSUME NEW n \in Nat PROVE 1..(n + 1) = (1..n) \union {n + 1}
OBVIOUS

LEMMA NewRowStep ==
    ASSUME IInv, NEW r \in Requests, NEW i \in Invs \ Issued,
           UNCHANGED <<estimate, budget>>, slips \subseteq slips',
           invoice' \in [Invs -> InvoiceRows], ar' \in [Invs -> [posted: Nat, reversed: Nat]],
           \A j \in Invs \ {i} : invoice'[j] = invoice[j] /\ ar'[j] = ar[j],
           invoice'[i].number = seq + 1, seq' = seq + 1,
           invoice'[i].status \in {"DRAFT", "SENT", "PAID"}, invoice'[i].prev \subseteq Issued,
           invoice'[i].made # {} \/ invoice'[i].status = "SENT" => invoice'[i].prev = {},
           invoice'[i].prev = {} => invoice'[i].made # {},
           invoice'[i].total = invoice'[i].sum \/ <<"total", i>> \in slips',
           ar'[i].reversed = 0,
           ar'[i].posted # invoice'[i].total =>
              ar'[i].posted = 0 /\ invoice'[i].prev # {} /\ card'.sent = FALSE,
           advance' \in [Advs -> [amount: Nat, migrated: BOOLEAN]], deposit' \in [Advs -> Nat],
           DepositsFollowAdvances', Succession', Primary', LinesOnce(i)',
           OnlyMoves(r), req'[r] = Idle, req[r].pc \notin {"discount", "recompute", "total"},
           card' \in [sent: BOOLEAN, delivered: BOOLEAN], card'.delivered => card'.sent,
           card'.sent => card.sent
    PROVE  IInv'
<1>1. /\ TypeOK /\ req \in [Requests -> ReqRows] /\ req' \in [Requests -> ReqRows]
      /\ i \in Invs /\ Issued \subseteq Invs /\ seq \in Nat
      /\ \A x \in Requests : req[x].inv \subseteq Issued
  BY DEF IInv, TypeOK, ReqRows, RequestOK, Issued, OnlyMoves
<1>2. Issued' = Issued \union {i}
  BY <1>1 DEF Issued
<1>3. \A j \in Issued : j # i /\ invoice'[j] = invoice[j] /\ ar'[j] = ar[j]
  BY <1>1
<1>4. \A j \in Issued : Trusted(j)' => Trusted(j)
  BY <1>1, <1>2, <1>3, TrustKept
<1>5. TypeOK'
  BY <1>1 DEF TypeOK, ReqRows
<1>6. RowsOK'
  <2>1. \A j \in Invs \ Issued' : Blank(j)'
    <3>1. ASSUME NEW j \in Invs \ Issued, j # i PROVE Blank(j)'
      BY <3>1 DEF IInv, RowsOK, Blank
    <3> QED BY <1>2, <3>1
  <2>2. \A j \in Invs : /\ invoice'[j].prev \subseteq Issued'
                        /\ invoice'[j].made # {} => invoice'[j].prev = {}
                        /\ invoice'[j].status = "SENT" => invoice'[j].prev = {}
    BY <1>2 DEF IInv, RowsOK
  <2>3. \A j \in Issued' : invoice'[j].prev = {} => invoice'[j].made # {}
    BY <1>2, <1>3 DEF IInv, RowsOK
  <2>4. \E j \in Issued' : invoice'[j].prev = {}
    <3>1. CASE Issued = {}
      BY <1>2, <3>1
    <3>2. CASE Issued # {}
      BY <1>2, <1>3, <3>2 DEF IInv, RowsOK
    <3> QED BY <3>1, <3>2
  <2> QED BY <2>1, <2>2, <2>3, <2>4 DEF RowsOK
<1>7. NumbersGapless'
  <2>1. {invoice[j].number : j \in Issued} = 1..seq
    BY DEF IInv, NumbersGapless
  <2>2. {invoice'[j].number : j \in Issued'} = {invoice[j].number : j \in Issued} \union {seq + 1}
    BY <1>2, <1>3
  <2>3. 1..(seq + 1) = (1..seq) \union {seq + 1}
    BY <1>1, OneMore
  <2>4. \A j \in Issued : invoice[j].number # seq + 1
    <3>1. \A m \in 1..seq : m # seq + 1
      BY <1>1
    <3> QED BY <2>1, <3>1
  <2>5. \A j, k \in Issued' : invoice'[j].number = invoice'[k].number => j = k
    BY <1>2, <1>3, <2>4 DEF IInv, NumbersGapless
  <2> QED BY <2>1, <2>2, <2>3, <2>5 DEF NumbersGapless
<1>8. ASSUME NEW x \in Requests PROVE RequestOK(x)'
  <2>1. CASE x = r
    BY <2>1, IdleFacts DEF RequestOK
  <2>2. CASE x # r
    <3>1. req'[x] = req[x] /\ RequestOK(x) /\ req[x].inv \subseteq Issued
      BY <1>1, <2>2 DEF OnlyMoves, IInv
    <3>2. \A j \in req[x].inv : invoice'[j] = invoice[j]
      BY <1>3, <3>1
    <3> QED BY <1>2, <3>1, <3>2 DEF RequestOK
  <2> QED BY <2>1, <2>2
<1>9. ASSUME NEW j \in Issued PROVE TotalOK(j)' /\ LedgerOK(j)' /\ LinesOnce(j)'
  <2>1. j \in Invs /\ invoice'[j] = invoice[j] /\ ar'[j] = ar[j] /\ j \in Issued'
    BY <1>1, <1>2, <1>3
  <2>2. Recomputing(j) => Recomputing(j)'
    BY DEF Recomputing, OnlyMoves
  <2>3. TotalOK(j)'
    BY <2>1, <2>2 DEF IInv, TotalOK
  <2>4. LedgerOK(j)'
    <3> SUFFICES ASSUME Trusted(j)' PROVE Posted(j)'
      BY DEF LedgerOK
    <3>1. Trusted(j)
      BY <1>4
    <3>2. Posted(j)
      BY <3>1 DEF IInv, LedgerOK
    <3>3. ASSUME NEW x \in Requests, req'[x].pc = "void", j \in req'[x].inv
          PROVE  ar[j].posted = invoice[j].total
      <4>1. req'[x] = req[x]
        BY <3>3, IdleFacts DEF OnlyMoves
      <4> QED BY <3>2, <3>3, <4>1 DEF Posted
    <3> QED BY <2>1, <3>2, <3>3 DEF Posted
  <2>5. LinesOnce(j)'
    BY <2>1 DEF IInv, LinesOnce
  <2> QED BY <2>3, <2>4, <2>5
<1>10. TotalOK(i)' /\ LedgerOK(i)'
  <2>1. TotalOK(i)'
    BY DEF TotalOK
  <2>2. ASSUME NEW x \in Requests PROVE i \notin req'[x].inv
    BY <1>1, IdleFacts DEF OnlyMoves
  <2>3. Posted(i)'
    BY <2>2 DEF Posted
  <2> QED BY <2>1, <2>3 DEF LedgerOK
<1>11. ASSUME NEW j \in Invs PROVE LinesOnce(j)'
  <2>1. CASE j \in Issued'
    BY <1>2, <1>9, <2>1
  <2>2. CASE j \notin Issued'
    <3>1. invoice'[j] = invoice[j] /\ j \notin Issued
      BY <1>2, <2>2
    <3> QED BY <2>2, <3>1 DEF IInv, LinesOnce
  <2> QED BY <2>1, <2>2
<1> QED BY <1>2, <1>5, <1>6, <1>7, <1>8, <1>9, <1>10, <1>11 DEF IInv

LEMMA BillFacts ==
    ASSUME NEW first \in SUBSET Ests, NEW es \in SUBSET Ests, NEW n \in Nat, NEW paid \in Nat, seq \in Nat
    PROVE  Bill(first, es, n, paid) \in InvoiceRows /\ Bill(first, es, n, paid).status \in {"SENT", "PAID"}
<1> DEFINE once == [e \in Ests |-> IF e \in es THEN 1 ELSE 0]
<1> DEFINE status == IF paid >= n THEN "PAID" ELSE "SENT"
<1>1. /\ once \in [Ests -> Nat] /\ status \in {"SENT", "PAID"} /\ status \in Statuses
      /\ seq + 1 \in Nat
  BY DEF Statuses
<1>2. Bill(first, es, n, paid) =
         [status |-> status, number |-> seq + 1, made |-> first, prev |-> {}, sum |-> n,
          total |-> n, paid |-> paid, has |-> es, times |-> once]
  BY DEF Bill
<1> HIDE DEF once, status
<1>3. Bill(first, es, n, paid) \in InvoiceRows
  BY <1>1, <1>2 DEF InvoiceRows
<1>4. Bill(first, es, n, paid).status = status
  BY <1>2
<1> QED BY <1>1, <1>3, <1>4

LEMMA CorrectionFacts ==
    ASSUME NEW i \in Invs, NEW seen \in InvoiceRows, seq \in Nat
    PROVE  /\ Correction(i, seen) \in InvoiceRows /\ Correction(i, seen).status = "DRAFT"
           /\ Correction(i, seen).number = seq + 1 /\ Correction(i, seen).prev = {i}
           /\ Correction(i, seen).made = {} /\ Correction(i, seen).sum = seen.sum
           /\ Correction(i, seen).total = seen.total
           /\ \A e \in Ests : Correction(i, seen).times[e] = 0
<1> DEFINE sum == seen.sum
<1> DEFINE total == seen.total
<1> DEFINE number == seq + 1
<1>1. /\ sum \in Nat /\ total \in Nat /\ number \in Nat /\ {i} \in SUBSET Invs
      /\ "DRAFT" \in Statuses
  BY DEF InvoiceRows, Statuses
<1>2. Correction(i, seen) = [NoInvoice EXCEPT !.status = "DRAFT", !.number = number,
                                !.prev = {i}, !.sum = sum, !.total = total]
  BY DEF Correction
<1> HIDE DEF sum, total, number
<1>3. Correction(i, seen) \in InvoiceRows
  BY <1>1, <1>2, IdleFacts DEF InvoiceRows
<1>4. /\ Correction(i, seen).status = "DRAFT" /\ Correction(i, seen).number = number
      /\ Correction(i, seen).prev = {i} /\ Correction(i, seen).made = {}
      /\ Correction(i, seen).sum = sum /\ Correction(i, seen).total = total
      /\ Correction(i, seen).times = [e \in Ests |-> 0]
  BY <1>2, IdleFacts DEF InvoiceRows
<1> QED BY <1>3, <1>4 DEF sum, total, number

LEMMA CreateStep ==
    ASSUME IInv, NEW r \in Requests, Create(r)
    PROVE  IInv'
<1> DEFINE open == {a \in TakenAdv : ~advance[a].migrated}
<1> DEFINE first == req[r].first
<1>1. /\ TypeOK /\ RowsOK /\ req[r] \in ReqRows /\ req[r].pc = "create" /\ ~CardLocked /\ Finish(r)
      /\ UNCHANGED <<estimate, card, budget>> /\ req[r].ests \subseteq Ests /\ first \subseteq Ests
      /\ first # {} /\ seq \in Nat
      /\ invoice \in [Invs -> InvoiceRows] /\ ar \in [Invs -> [posted: Nat, reversed: Nat]]
      /\ advance \in [Advs -> [amount: Nat, migrated: BOOLEAN]] /\ deposit \in [Advs -> Nat]
  BY DEF IInv, TypeOK, ReqRows, RequestOK, Create
<1>2. CASE \E e \in first : Made(e) # {}
  <2>1. UNCHANGED <<docVars, slips>>
    BY <1>2 DEF Create
  <2>2. budget' \in [Sorts -> Nat]
    BY <1>1 DEF TypeOK
  <2> QED BY <1>1, <2>1, <2>2, EndStep
<1>3. CASE ~\E e \in first : Made(e) # {}
  <2>1. PICK i \in Invs \ Issued, n \in 0..MaxTotal, paid \in 0..MaxTotal :
           /\ seq' = seq + 1
           /\ invoice' = [invoice EXCEPT ![i] = Bill(first, req[r].ests, n, paid)]
           /\ ar' = [ar EXCEPT ![i].posted = n]
           /\ advance' = [a \in Advs |-> Migrated(a)]
           /\ deposit' = [a \in Advs |-> IF a \in open THEN deposit[a] - advance[a].amount
                                                       ELSE deposit[a]]
           /\ Slip("billed", i, n < Worths(Offered))
    BY <1>3 DEF Create
  <2>2. n \in Nat /\ paid \in Nat
    BY InvoicesAssumption
  <2> DEFINE new == Bill(first, req[r].ests, n, paid)
  <2>4. /\ new \in InvoiceRows /\ new.status \in {"SENT", "PAID"} /\ new.number = seq + 1
        /\ new.prev = {} /\ new.sum = n /\ new.total = n /\ new.has = req[r].ests
        /\ new.made = first
        /\ \A e \in Ests : new.times[e] = IF e \in req[r].ests THEN 1 ELSE 0
    <3>1. new \in InvoiceRows /\ new.status \in {"SENT", "PAID"}
      BY <1>1, <2>2, BillFacts
    <3>2. /\ new.number = seq + 1 /\ new.prev = {} /\ new.sum = n /\ new.total = n
          /\ new.has = req[r].ests /\ new.made = first
      BY DEF Bill
    <3>3. \A e \in Ests : new.times[e] = IF e \in req[r].ests THEN 1 ELSE 0
      BY DEF Bill
    <3> QED BY <3>1, <3>2, <3>3, Zenon
  <2> HIDE DEF new
  <2>5. /\ invoice' \in [Invs -> InvoiceRows] /\ invoice'[i] = new
        /\ \A j \in Invs \ {i} : invoice'[j] = invoice[j]
    BY <1>1, <2>1, <2>4 DEF new
  <2>6. /\ ar' \in [Invs -> [posted: Nat, reversed: Nat]] /\ ar'[i].posted = n
        /\ ar'[i].reversed = 0 /\ \A j \in Invs \ {i} : ar'[j] = ar[j]
    <3>1. ar[i].reversed = 0
      BY <1>1 DEF RowsOK, Blank, NoAr
    <3> QED BY <1>1, <2>1, <2>2, <3>1
  <2>7. slips \subseteq slips' /\ (Steady' => Steady)
    BY <2>1 DEF Slip, Steady
  <2>8. OnlyMoves(r) /\ req'[r] = Idle
    BY <1>1, FinishFacts
  <2>9. /\ advance' \in [Advs -> [amount: Nat, migrated: BOOLEAN]] /\ deposit' \in [Advs -> Nat]
        /\ DepositsFollowAdvances'
    <3>1. ASSUME NEW a \in Advs
          PROVE  /\ advance'[a] \in [amount: Nat, migrated: BOOLEAN] /\ deposit'[a] \in Nat
                 /\ advance'[a].amount > 0 => advance'[a].migrated
                 /\ deposit'[a] = IF advance'[a].migrated THEN 0 ELSE advance'[a].amount
      <4>0. /\ deposit[a] = (IF advance[a].migrated THEN 0 ELSE advance[a].amount)
            /\ advance[a] \in [amount: Nat, migrated: BOOLEAN] /\ deposit[a] \in Nat
        BY <1>1 DEF IInv, DepositsFollowAdvances
      <4>1. advance'[a] = Migrated(a)
        BY <2>1
      <4>2. CASE a \in open
        <5>1. deposit'[a] = deposit[a] - advance[a].amount /\ advance[a].amount > 0
          BY <2>1, <4>2 DEF TakenAdv
        <5>2. advance'[a].migrated = TRUE /\ advance'[a].amount = advance[a].amount
          BY <4>0, <4>1, <5>1 DEF Migrated
        <5>3. advance'[a] \in [amount: Nat, migrated: BOOLEAN]
          BY <4>0, <4>1 DEF Migrated
        <5> QED BY <4>0, <4>2, <5>1, <5>2, <5>3
      <4>3. CASE a \notin open /\ advance[a].amount > 0
        <5>1. deposit'[a] = deposit[a] /\ advance[a].migrated
          BY <2>1, <4>3 DEF TakenAdv
        <5>2. advance'[a].migrated = TRUE /\ advance'[a].amount = advance[a].amount
          BY <4>0, <4>1, <4>3 DEF Migrated
        <5>3. advance'[a] \in [amount: Nat, migrated: BOOLEAN]
          BY <4>0, <4>1 DEF Migrated
        <5> QED BY <4>0, <5>1, <5>2, <5>3
      <4>4. CASE a \notin open /\ ~(advance[a].amount > 0)
        <5>1. deposit'[a] = deposit[a] /\ advance'[a] = advance[a]
          BY <2>1, <4>1, <4>4 DEF Migrated
        <5> QED BY <4>0, <4>4, <5>1
      <4> QED BY <4>2, <4>3, <4>4
    <3>2. advance' = [a \in Advs |-> advance'[a]] /\ deposit' = [a \in Advs |-> deposit'[a]]
      BY <2>1
    <3>3. advance' \in [Advs -> [amount: Nat, migrated: BOOLEAN]] /\ deposit' \in [Advs -> Nat]
      BY <3>1, <3>2
    <3> QED BY <3>1, <3>3 DEF DepositsFollowAdvances, TakenAdv
  <2>10. Issued' = Issued \union {i} /\ \A j \in Invs : Replaced(j)' <=> Replaced(j)
    <3>1. invoice[i].prev = {} /\ i \in Invs
      BY <1>1, IdleFacts DEF RowsOK, Blank
    <3> QED BY <2>4, <2>5, <3>1 DEF Issued, Replaced
  <2>14. \A j \in Issued : j \in Invs /\ i # j /\ invoice'[j] = invoice[j]
    BY <2>5 DEF Issued
  <2>15. Primary'
    <3> SUFFICES ASSUME Steady' PROVE Primary'
      BY DEF Primary
    <3>1. /\ \A j \in Issued : invoice[j].made \subseteq Approved
          /\ \A x \in Requests : req[x].pc = "create" => Due(x)
      BY <2>7 DEF IInv, Primary
    <3>2. UNCHANGED estimate /\ Approved' = Approved /\ Oldest(Approved)' = Oldest(Approved)
      BY <1>1, SameEstimates
    <3>3. first = Oldest(Approved) /\ first \subseteq Approved
      BY <1>1, <3>1 DEF Due, Oldest
    <3>4. \A j \in Issued : invoice[j].prev # {}
      <4>1. \A j \in Issued : invoice[j].prev = {} => invoice[j].made = first
        BY <1>1, <3>1 DEF Due
      <4> QED BY <1>1, <1>3, <2>14, <4>1 DEF Made
    <3>5. Single'
      BY <2>10, <2>14, <3>4 DEF Single
    <3>6. \A j \in Issued' : invoice'[j].made \subseteq Approved'
      BY <2>4, <2>5, <2>10, <2>14, <3>1, <3>2, <3>3
    <3>7. ASSUME NEW x \in Requests, req'[x].pc = "create" PROVE Due(x)'
      <4>1. req'[x] = req[x] /\ Due(x)
        BY <2>8, <3>1, <3>7, IdleFacts DEF OnlyMoves
      <4>2. req'[x].first = Oldest(Approved)'
        BY <3>2, <4>1 DEF Due
      <4>3. \A j \in Issued' : invoice'[j].prev = {} => invoice'[j].made = req[x].first
        BY <2>4, <2>5, <2>10, <2>14, <3>3, <3>4, <4>1 DEF Due
      <4> QED BY <4>1, <4>2, <4>3 DEF Due
    <3> QED BY <3>5, <3>6, <3>7 DEF Primary
  <2>11. Succession'
    <3>1. OneCorrection' /\ OnePrimary'
      <4>1. OneCorrection'
        BY <2>4, <2>5 DEF IInv, Succession, OneCorrection
      <4>2. \A j \in Invs, e \in first : e \notin invoice[j].made
        BY <1>1, <1>3 DEF Made
      <4>3. OnePrimary'
        BY <2>4, <2>5, <4>2 DEF IInv, Succession, OnePrimary
      <4> QED BY <4>1, <4>3
    <3>2. Orderly' => Orderly /\ \A j \in Issued : invoice[j].prev # {}
      <4>1. \A j \in Issued : j \in Issued' /\ invoice'[j].prev = invoice[j].prev
        BY <2>10, <2>14
      <4>2. Orderly' => Orderly /\ Single'
        BY <2>7, <4>1, TrustKept DEF Orderly
      <4> QED BY <2>4, <2>5, <2>10, <2>14, <4>2 DEF Single
    <3>3. Orderly' => /\ Issued' = {i} /\ \A j \in Invs : ~Replaced(j)
      <4>1. Orderly' => Issued = {}
        BY <1>1, <3>2 DEF RowsOK
      <4>2. Issued = {} => \A j \in Invs : ~Replaced(j)
        BY <1>1, IdleFacts DEF RowsOK, Replaced, Blank
      <4> QED BY <2>10, <4>1, <4>2
    <3>4. \A x \in Requests : req'[x].pc # "post"
      BY <1>1, <2>8, IdleFacts DEF CardLocked, OnlyMoves
    <3> QED BY <2>10, <3>1, <3>2, <3>3, <3>4 DEF Succession
  <2>12. LinesOnce(i)'
    <3>1. \A e \in Ests : new.times[e] \in 0..1 /\ (new.times[e] > 0 => e \in req[r].ests)
      BY <2>4
    <3> QED BY <2>4, <2>5, <2>10, <3>1 DEF LinesOnce
  <2>13. /\ card' \in [sent: BOOLEAN, delivered: BOOLEAN] /\ (card'.delivered => card'.sent)
         /\ (card'.sent => card.sent) /\ UNCHANGED <<estimate, budget>>
    BY <1>1 DEF TypeOK, RowsOK
  <2> QED BY <1>1, <2>1, <2>4, <2>5, <2>6, <2>7, <2>8, <2>9, <2>11, <2>12, <2>13, <2>15,
          NewRowStep
<1> QED BY <1>2, <1>3

LEMMA ReissueWriteStep ==
    ASSUME IInv, NEW r \in Requests, ReissueWrite(r)
    PROVE  IInv'
<1>1. PICK i \in req[r].inv : ReissueWrite(r)!(i)
  BY DEF ReissueWrite
<1>2. /\ TypeOK /\ RowsOK /\ req[r] \in ReqRows /\ req[r].pc = "reissue" /\ ~CardLocked
      /\ Finish(r) /\ UNCHANGED <<estimate, ar, advance, deposit, budget>>
      /\ seq \in Nat /\ i \in Issued /\ i \in Invs /\ req[r].seen \in InvoiceRows
      /\ req[r].inv \subseteq Invs /\ \A j \in req[r].inv : j = i
      /\ invoice \in [Invs -> InvoiceRows] /\ ar \in [Invs -> [posted: Nat, reversed: Nat]]
      /\ RequestOK(r)
  BY <1>1 DEF IInv, TypeOK, ReqRows, RequestOK, Issued
<1>3. CASE Replaced(i)
  <2>1. UNCHANGED <<docVars, card, slips>>
    BY <1>1, <1>2, <1>3 DEF docVars
  <2>2. budget' \in [Sorts -> Nat]
    BY <1>2 DEF TypeOK
  <2> QED BY <1>2, <2>1, <2>2, EndStep
<1>4. CASE ~Replaced(i)
  <2>1. PICK k \in Invs \ Issued :
           /\ seq' = seq + 1
           /\ invoice' = [invoice EXCEPT ![k] = Correction(i, req[r].seen)]
           /\ card' = [sent |-> FALSE, delivered |-> FALSE]
           /\ Slip("total", k, req[r].seen.sum # req[r].seen.total)
    BY <1>1, <1>4
  <2> DEFINE new == Correction(i, req[r].seen)
  <2>2. /\ new \in InvoiceRows /\ new.status = "DRAFT" /\ new.number = seq + 1
        /\ new.prev = {i} /\ new.made = {} /\ new.sum = req[r].seen.sum
        /\ new.total = req[r].seen.total /\ \A e \in Ests : new.times[e] = 0
    BY <1>2, CorrectionFacts
  <2>3. invoice' = [invoice EXCEPT ![k] = new]
    BY <2>1
  <2> HIDE DEF new
  <2>4. /\ invoice' \in [Invs -> InvoiceRows] /\ invoice'[k] = new
        /\ \A j \in Invs \ {k} : invoice'[j] = invoice[j]
    BY <1>2, <2>2, <2>3
  <2>5. /\ ar' \in [Invs -> [posted: Nat, reversed: Nat]] /\ ar'[k].posted = 0
        /\ ar'[k].reversed = 0 /\ \A j \in Invs \ {k} : ar'[j] = ar[j]
    BY <1>2 DEF RowsOK, Blank, NoAr
  <2>6. slips \subseteq slips' /\ (new.total = new.sum \/ <<"total", k>> \in slips')
    BY <2>1, <2>2 DEF Slip, When
  <2>7. OnlyMoves(r) /\ req'[r] = Idle
    BY <1>2, FinishFacts
  <2>8. Issued' = Issued \union {k} /\ k # i
    BY <1>2, <2>2, <2>4 DEF Issued
  <2>9. \A j \in Invs : Replaced(j)' <=> (Replaced(j) \/ j = i)
    <3>1. invoice[k].prev = {} /\ k \in Invs
      BY <1>2, IdleFacts DEF RowsOK, Blank
    <3> QED BY <1>2, <2>2, <2>4, <3>1 DEF Replaced
  <2>10. DepositsFollowAdvances'
    BY <1>2, <2>6, <2>8 DEF IInv, DepositsFollowAdvances, TakenAdv
  <2>11. Succession'
    <3>0. k \in Invs /\ k \notin Issued /\ Issued \subseteq Invs
      BY DEF Issued
    <3>1. OneCorrection'
      <4>1. \A j \in Invs : i \notin invoice[j].prev
        BY <1>4 DEF Replaced
      <4> QED BY <2>2, <2>4, <4>1 DEF IInv, Succession, OneCorrection
    <3>2. OnePrimary'
      BY <2>2, <2>4 DEF IInv, Succession, OnePrimary
    <3>3. Orderly' => Orderly /\ invoice[i].status = "VOID"
      <4>1. \A j \in Issued : j \in Issued' /\ invoice'[j].prev = invoice[j].prev
        BY <2>4, <2>8, <3>0
      <4>2. Orderly' => Orderly
        BY <2>6, <4>1, TrustKept
      <4> QED BY <1>2, <4>2 DEF Orderly, RequestOK
    <3>4. Orderly => /\ \A j \in Issued : ~Replaced(j) => j = i
                     /\ \A j \in Invs : Replaced(j) => invoice[j].status = "VOID"
      BY <1>2, <1>4 DEF IInv, Succession
    <3>5. ASSUME Orderly'
          PROVE  /\ \A j, m \in Issued' : ~Replaced(j)' /\ ~Replaced(m)' => j = m
                 /\ \A j \in Invs : Replaced(j)' => invoice'[j].status = "VOID"
      <4>1. ~Replaced(k)
        BY <1>2, <3>0 DEF RowsOK, Replaced
      <4>2. \A j \in Issued' : ~Replaced(j)' => j = k
        BY <2>8, <2>9, <3>0, <3>3, <3>4, <3>5
      <4>3. \A j \in Invs : Replaced(j)' => invoice[j].status = "VOID" /\ j # k
        BY <1>2, <2>8, <2>9, <3>3, <3>4, <3>5, <4>1
      <4> QED BY <2>4, <4>2, <4>3
    <3>6. \A x \in Requests : req'[x].pc # "post"
      BY <1>2, <2>7, IdleFacts DEF CardLocked, OnlyMoves
    <3> QED BY <3>1, <3>2, <3>5, <3>6 DEF Succession
  <2>16. Primary'
    <3> SUFFICES ASSUME Steady' PROVE Primary'
      BY DEF Primary
    <3>1. Steady
      BY <2>6 DEF Steady
    <3>2. /\ Single /\ \A j \in Issued : invoice[j].made \subseteq Approved
          /\ \A x \in Requests : req[x].pc = "create" => Due(x)
      BY <3>1 DEF IInv, Primary
    <3>3. UNCHANGED estimate /\ Approved' = Approved /\ Oldest(Approved)' = Oldest(Approved)
      BY <1>2, SameEstimates
    <3>4. \A j \in Issued : j # k /\ invoice'[j] = invoice[j]
      BY <2>4 DEF Issued
    <3>5. Single' /\ \A j \in Issued' : invoice'[j].made \subseteq Approved'
      BY <2>2, <2>4, <2>8, <3>2, <3>3, <3>4 DEF Single
    <3>6. ASSUME NEW x \in Requests, req'[x].pc = "create" PROVE Due(x)'
      <4>1. req'[x] = req[x] /\ Due(x)
        BY <2>7, <3>2, <3>6, IdleFacts DEF OnlyMoves
      <4>2. req'[x].first = Oldest(Approved)'
        BY <3>3, <4>1 DEF Due
      <4>3. \A j \in Issued' : invoice'[j].prev = {} => invoice'[j].made = req'[x].first
        BY <2>2, <2>4, <2>8, <3>4, <4>1 DEF Due
      <4> QED BY <4>2, <4>3 DEF Due
    <3> QED BY <3>5, <3>6 DEF Primary
  <2>12. LinesOnce(k)'
    <3>1. \A e \in Ests : invoice'[k].times[e] = 0
      BY <2>2, <2>4
    <3> QED BY <3>1 DEF LinesOnce
  <2>13. /\ card' \in [sent: BOOLEAN, delivered: BOOLEAN] /\ card'.sent = FALSE
         /\ card'.delivered = FALSE
    BY <2>1
  <2>14. advance' \in [Advs -> [amount: Nat, migrated: BOOLEAN]] /\ deposit' \in [Advs -> Nat]
    BY <1>2 DEF TypeOK
  <2>15. /\ invoice'[k].prev \subseteq Issued /\ invoice'[k].prev # {}
         /\ invoice'[k].made = {} /\ invoice'[k].status = "DRAFT"
         /\ invoice'[k].number = seq + 1 /\ seq' = seq + 1
         /\ \/ invoice'[k].total = invoice'[k].sum
            \/ <<"total", k>> \in slips'
    BY <1>2, <2>1, <2>2, <2>4, <2>6
  <2> QED BY <1>2, <2>4, <2>5, <2>6, <2>7, <2>10, <2>11, <2>12, <2>13, <2>14, <2>15, <2>16,
          NewRowStep
<1> QED BY <1>3, <1>4

-----------------------------------------------------------------------------
(* The theorems.                                                           *)

LEMMA InitInv == Init => IInv
<1> SUFFICES ASSUME Init PROVE IInv
  OBVIOUS
<1>0. PICK w \in Wordings :
         estimate = [e \in Ests |-> [approved |-> FALSE, off |-> FALSE, text |-> w[e]]]
  BY DEF Init
<1>1. /\ estimate \in [Ests -> EstimateRows] /\ Approved = {} /\ seq = 0 /\ slips = {}
      /\ invoice = [i \in Invs |-> NoInvoice] /\ ar = [i \in Invs |-> NoAr]
      /\ advance = [a \in Advs |-> NoAdvance] /\ deposit = [a \in Advs |-> 0]
      /\ card = [sent |-> FALSE, delivered |-> FALSE] /\ req = [r \in Requests |-> Idle]
      /\ budget \in [Sorts -> Nat]
  <2>1. w \in [Ests -> Texts]
    BY InvoicesAssumption
  <2>2. estimate \in [Ests -> EstimateRows] /\ Approved = {}
    BY <1>0, <2>1 DEF EstimateRows, Approved
  <2> QED BY <2>2, InvoicesAssumption DEF Init
<1>2. Issued = {} /\ TakenAdv = {} /\ \A i \in Invs : ~Replaced(i)
  BY <1>1, IdleFacts DEF Issued, TakenAdv, NoAdvance, Replaced
<1>3. TypeOK
  BY <1>1, IdleFacts DEF TypeOK, ReqRows, NoAr, NoAdvance
<1>4. RowsOK
  BY <1>1, <1>2, IdleFacts DEF RowsOK, Blank
<1>5. DepositsFollowAdvances
  BY <1>1, <1>2 DEF DepositsFollowAdvances, NoAdvance
<1>6. NumbersGapless
  BY <1>1, <1>2 DEF NumbersGapless
<1>7. Succession /\ Primary
  <2>1. OneCorrection /\ OnePrimary /\ Single
    BY <1>1, <1>2, IdleFacts DEF OneCorrection, OnePrimary, Single
  <2> QED BY <1>1, <1>2, <2>1, IdleFacts DEF Succession, Primary
<1>8. \A r \in Requests : RequestOK(r)
  BY <1>1, IdleFacts DEF RequestOK
<1>9. \A i \in Invs : LinesOnce(i)
  BY <1>1, IdleFacts DEF LinesOnce
<1> QED BY <1>2, <1>3, <1>4, <1>5, <1>6, <1>7, <1>8, <1>9 DEF IInv

LEMMA BeginStep ==
    ASSUME IInv, NEW r \in Requests, NEW i \in Invs,
           \/ EditRead(r, i) \/ SendRead(r, i) \/ VoidRead(r, i) \/ ReissueRead(r, i)
           \/ \E n \in 0..MaxTotal : PayRead(r, i, n)
    PROVE  IInv'
<1>1. CASE EditRead(r, i)
  BY <1>1, ReadStep DEF EditRead, Sorts
<1>2. CASE SendRead(r, i)
  BY <1>2, ReadStep DEF SendRead, Sorts
<1>3. CASE VoidRead(r, i)
  <2>1. i \in Issued
    BY <1>3 DEF VoidRead, Issued
  <2> QED BY <1>3, <2>1, ReadStep DEF VoidRead, Sorts
<1>4. CASE ReissueRead(r, i)
  <2>1. i \in Issued
    BY <1>4 DEF ReissueRead, Issued
  <2> QED BY <1>4, <2>1, ReadStep DEF ReissueRead, Sorts
<1>5. CASE \E n \in 0..MaxTotal : PayRead(r, i, n)
  <2>1. PICK n \in 0..MaxTotal : PayRead(r, i, n)
    BY <1>5
  <2>2. n \in Nat
    BY InvoicesAssumption
  <2> QED BY <2>1, <2>2, ReadStep DEF PayRead, Sorts
<1> QED BY <1>1, <1>2, <1>3, <1>4, <1>5

LEMMA StepInv == IInv /\ [Next]_vars => IInv'
<1> SUFFICES ASSUME IInv, [Next]_vars PROVE IInv'
  OBVIOUS
<1>1. ASSUME NEW r \in Requests, RequestStep(r) PROVE IInv'
  BY <1>1, GenerateReadStep, TopUpStep, CreateStep, EditWriteStep, RecomputeReadStep,
     RecomputeWriteStep, SendCountStep, SendPostStep, PayWriteStep, AdvanceWriteStep,
     VoidWriteStep, ReissueWriteStep, KillStep, BeginStep, AdvanceReadStep DEF RequestStep
<1>2. CASE UNCHANGED vars
  <2>1. /\ UNCHANGED docVars /\ slips \subseteq slips' /\ UNCHANGED <<estimate, budget, req, card>>
    BY <1>2 DEF vars
  <2>2. /\ estimate' \in [Ests -> EstimateRows] /\ budget' \in [Sorts -> Nat]
        /\ req' \in [Requests -> ReqRows]
    BY <2>1 DEF IInv, TypeOK, ReqRows
  <2>3. \A j \in Issued : j \in Issued' /\ invoice'[j].prev = invoice[j].prev
    BY <2>1 DEF docVars, Issued
  <2> QED BY <2>1, <2>2, <2>3, SameCard, Quiet
<1> QED BY <1>1, <1>2, TurnStep, ToggleStep, DeliverStep DEF Next

-----------------------------------------------------------------------------
(* Payments.                                                               *)

\* No advance was written late or over what was approved by then, and none of the
\* estimates they were taken for was made less.
AdvancesSeen ==
    /\ \A a \in Advs : <<"advance", a>> \notin slips /\ <<"ceiling", a>> \notin slips
    /\ \A e \in Ests : <<"shrunk", e>> \notin slips

Fitting(i) ==
    /\ invoice[i].paid <= invoice[i].total
    /\ invoice[i].status = "PAID" => invoice[i].paid = invoice[i].total
    /\ invoice[i].status = "SENT" /\ invoice[i].paid > 0 => invoice[i].paid < invoice[i].total

Trustworthy(i) == Sound(i, {"pay", "paid", "billed", "ghost"}) /\ AdvancesSeen

\* A payment fits what it read, and so does an advance.
PaysWithin(r) ==
    /\ req[r].pc = "pay" =>
          req[r].amount > 0 /\ req[r].seen.paid + req[r].amount <= req[r].seen.total
    /\ req[r].pc = "advance" =>
          req[r].amount > 0 /\ req[r].seen.sum + req[r].amount <= Worths(req[r].ests)

\* Before there is an invoice, the advances stay within what is approved.
AdvancesFit == AdvancesSeen /\ Issued = {} => Amounts(TakenAdv) <= Worths(Offered)

MoneyInv == PaymentsFit /\ AdvancesFit /\ \A r \in Requests : PaysWithin(r)

LEMMA PaymentsFitFacts == PaymentsFit <=> \A i \in Issued : Trustworthy(i) => Fitting(i)
BY DEF PaymentsFit, Trustworthy, Fitting, AdvancesSeen, Sound

LEMMA WorthsFacts ==
    ASSUME NEW fs \in SUBSET Ests, NEW es \in SUBSET fs
    PROVE  Worths(es) \in Nat /\ Worths(es) <= Worths(fs)
<1>1. IsFiniteSet(fs) /\ IsFiniteSet(es) /\ \A e \in fs : Worth[e] \in Nat
  BY InvoicesAssumption, FS_Subset
<1>2. SumFunctionOnSet(Worth, es) <= SumFunctionOnSet(Worth, fs)
  BY <1>1, SumOfSubset
<1>3. SumFunctionOnSet(Worth, {}) <= SumFunctionOnSet(Worth, es)
  BY <1>1, SumOfSubset
<1>4. SumFunctionOnSet(Worth, es) \in Int
  BY <1>1, SumIsInt
<1> QED BY <1>2, <1>3, <1>4, SumOfNone DEF Worths

LEMMA AmountsFacts ==
    ASSUME advance \in [Advs -> [amount: Nat, migrated: BOOLEAN]],
           NEW bs \in SUBSET Advs, NEW cs \in SUBSET bs
    PROVE  Amounts(cs) \in Nat /\ Amounts(cs) <= Amounts(bs)
<1> SUFFICES ASSUME NEW f, f = [a \in Advs |-> advance[a].amount]
             PROVE  Amounts(cs) \in Nat /\ Amounts(cs) <= Amounts(bs)
  OBVIOUS
<1>1. Amounts(cs) = SumFunctionOnSet(f, cs) /\ Amounts(bs) = SumFunctionOnSet(f, bs)
  BY DEF Amounts
<1>2. IsFiniteSet(bs) /\ IsFiniteSet(cs)
  <2>1. IsFiniteSet(bs)
    BY InvoicesAssumption, FS_Subset
  <2> QED BY <2>1, FS_Subset
<1>3. \A a \in bs : f[a] \in Nat
  OBVIOUS
<1>4. SumFunctionOnSet(f, cs) <= SumFunctionOnSet(f, bs)
  BY <1>2, <1>3, SumOfSubset
<1>5. SumFunctionOnSet(f, {}) <= SumFunctionOnSet(f, cs)
  BY <1>2, <1>3, SumOfSubset
<1>6. SumFunctionOnSet(f, cs) \in Int
  BY <1>2, <1>3, SumIsInt
<1> QED BY <1>1, <1>4, <1>5, <1>6, SumOfNone

LEMMA TakenSubset == TakenAdv \subseteq Advs /\ Issued \subseteq Invs /\ Offered \subseteq Ests
BY DEF TakenAdv, Issued, Offered, Approved

\* What a step must leave of the payments.
LEMMA MoneyKept ==
    ASSUME IInv, MoneyInv, slips \subseteq slips', AdvancesFit',
           \A i \in Issued' : \/ Trustworthy(i)' => Fitting(i)'
                              \/ i \in Issued /\ invoice'[i] = invoice[i],
           \A x \in Requests : req'[x] = req[x] \/ PaysWithin(x)'
    PROVE  MoneyInv'
<1>1. \A i : Trustworthy(i)' => Trustworthy(i)
  BY DEF Trustworthy, Sound, AdvancesSeen
<1>2. \A i \in Issued : Trustworthy(i) => Fitting(i)
  BY PaymentsFitFacts DEF MoneyInv
<1>3. \A i \in Issued' : Trustworthy(i)' => Fitting(i)'
  BY <1>1, <1>2 DEF Fitting
<1>4. PaymentsFit'
  BY <1>3 DEF PaymentsFit, Trustworthy, Fitting, AdvancesSeen, Sound
<1>5. ASSUME NEW x \in Requests, req'[x] = req[x] PROVE PaysWithin(x)'
  BY <1>5 DEF MoneyInv, PaysWithin, Worths
<1> QED BY <1>4, <1>5 DEF MoneyInv

\* Steps that take no advance and leave the estimates alone.
LEMMA SameAdvances ==
    ASSUME IInv, MoneyInv, slips \subseteq slips', UNCHANGED estimate,
           advance' = advance, Issued' = {} => Issued = {}
    PROVE  AdvancesFit'
<1>1. TakenAdv' = TakenAdv /\ Offered' = Offered
  BY SameEstimates DEF TakenAdv
<1>2. Amounts(TakenAdv)' = Amounts(TakenAdv) /\ Worths(Offered)' = Worths(Offered)
  BY <1>1 DEF Amounts, Worths
<1>3. AdvancesSeen' => AdvancesSeen
  BY DEF AdvancesSeen
<1> QED BY <1>2, <1>3 DEF AdvancesFit, MoneyInv

\* Steps that leave the documents alone.
LEMMA MoneyQuiet ==
    ASSUME IInv, MoneyInv, slips \subseteq slips', UNCHANGED <<estimate, invoice, advance>>,
           \A x \in Requests : req'[x] = req[x] \/ PaysWithin(x)'
    PROVE  MoneyInv'
<1>1. Issued' = Issued
  BY DEF Issued
<1>2. AdvancesFit'
  BY <1>1, SameAdvances
<1> QED BY <1>1, <1>2, MoneyKept

\* More is approved, or the advances are within what is left.
LEMMA MoneyTurnStep ==
    ASSUME IInv, MoneyInv, NEW e \in Ests, Approve(e) \/ Decline(e) \/ Toggle(e)
    PROVE  MoneyInv'
<1>1. /\ UNCHANGED <<docVars, req>> /\ slips \subseteq slips' /\ Issued' = Issued
      /\ TakenAdv' = TakenAdv /\ Amounts(TakenAdv)' = Amounts(TakenAdv)
  BY DEF Approve, Decline, Toggle, docVars, Issued, TakenAdv, Amounts
<1>2. AdvancesSeen' => AdvancesSeen
  BY <1>1 DEF AdvancesSeen
<1>3. /\ Offered \in SUBSET Ests /\ Offered' \in SUBSET Ests
      /\ Worths(Offered) \in Nat /\ Worths(Offered') \in Nat /\ Amounts(TakenAdv) \in Nat
  <2>1. Offered \in SUBSET Ests /\ Offered' \in SUBSET Ests
    BY DEF Offered, Approved
  <2>2. Amounts(TakenAdv) \in Nat
    BY AmountsFacts, TakenSubset DEF IInv, TypeOK
  <2> QED BY <2>1, <2>2, WorthsFacts
<1>4. Worths(Offered)' = Worths(Offered')
  BY DEF Worths
<1>5. AdvancesFit'
  <2> SUFFICES ASSUME AdvancesSeen', Issued = {} PROVE Amounts(TakenAdv) <= Worths(Offered')
    BY <1>1, <1>4 DEF AdvancesFit
  <2>1. CASE Approve(e)
    <3>1. Offered \subseteq Offered'
      BY <2>1 DEF Approve, Offered, Approved, IInv, TypeOK, EstimateRows
    <3>2. Worths(Offered) <= Worths(Offered')
      BY <1>3, <3>1, WorthsFacts
    <3>3. Amounts(TakenAdv) <= Worths(Offered)
      BY <1>2 DEF MoneyInv, AdvancesFit
    <3> QED BY <1>3, <3>2, <3>3
  <2>2. CASE Decline(e) \/ Toggle(e)
    <3>1. Shrunk(e) \subseteq slips'
      BY <2>2 DEF Decline, Toggle
    <3>2. ~(Amounts(TakenAdv) > Worths(Offered)')
      BY <3>1 DEF Shrunk, When, AdvancesSeen
    <3> QED BY <1>3, <1>4, <3>2
  <2> QED BY <2>1, <2>2
<1>6. \A i \in Issued' : i \in Issued /\ invoice'[i] = invoice[i]
  BY <1>1 DEF docVars
<1> QED BY <1>1, <1>5, <1>6, MoneyKept

\* A request that goes on with neither a payment nor an advance to write.
LEMMA NoPayment ==
    ASSUME TypeOK, NEW r \in Requests,
           \/ Finish(r)
           \/ \E pc \in {"discount", "recompute", "total", "post"} : Goto(r, pc)
    PROVE  OnlyMoves(r) /\ PaysWithin(r)'
<1>1. CASE Finish(r)
  BY <1>1, FinishFacts, IdleFacts DEF PaysWithin
<1>2. CASE \E pc \in {"discount", "recompute", "total", "post"} : Goto(r, pc)
  <2>1. PICK pc \in {"discount", "recompute", "total", "post"} : Goto(r, pc)
    BY <1>2
  <2>2. pc \in PCs
    BY <2>1 DEF PCs
  <2>3. OnlyMoves(r) /\ req'[r].pc = pc
    BY <2>1, <2>2, GotoFacts
  <2> QED BY <2>1, <2>3 DEF PaysWithin
<1> QED BY <1>1, <1>2

LEMMA MoneyReadStep ==
    ASSUME IInv, MoneyInv, NEW r \in Requests, NEW i \in Invs,
           \/ EditRead(r, i) \/ SendRead(r, i) \/ VoidRead(r, i) \/ ReissueRead(r, i)
           \/ \E n \in 0..MaxTotal : PayRead(r, i, n)
    PROVE  MoneyInv'
<1>0. TypeOK /\ UNCHANGED <<estimate, invoice, advance, slips>>
  BY DEF IInv, TypeOK, EditRead, SendRead, VoidRead, ReissueRead, PayRead, docVars
<1>1. ASSUME NEW pc \in {"edit", "send", "void", "reissue"}, Begin(r, pc, i, 0)
      PROVE  OnlyMoves(r) /\ PaysWithin(r)'
  <2>1. pc \in PCs /\ 0 \in Nat
    BY <1>1 DEF PCs
  <2> HIDE DEF PCs
  <2>2. OnlyMoves(r) /\ req'[r].pc = pc
    BY <1>0, <1>1, <2>1, BeginFacts
  <2> QED BY <1>1, <2>2 DEF PaysWithin
<1>2. ASSUME NEW n \in 0..MaxTotal, PayRead(r, i, n)
      PROVE  OnlyMoves(r) /\ PaysWithin(r)'
  <2>1. n \in Nat /\ "pay" \in PCs
    BY InvoicesAssumption DEF PCs
  <2>2. OnlyMoves(r) /\ req'[r].pc = "pay" /\ req'[r].seen = invoice[i] /\ req'[r].amount = n
    BY <1>0, <1>2, <2>1, BeginFacts DEF PayRead
  <2> QED BY <1>2, <2>2 DEF PaysWithin, PayRead
<1>3. OnlyMoves(r) /\ PaysWithin(r)'
  BY <1>1, <1>2 DEF EditRead, SendRead, VoidRead, ReissueRead
<1> QED BY <1>0, <1>3, MoneyQuiet DEF OnlyMoves

LEMMA MoneyGenerateRead ==
    ASSUME IInv, MoneyInv, NEW r \in Requests, GenerateRead(r)
    PROVE  MoneyInv'
<1>0. TypeOK /\ UNCHANGED <<estimate, invoice, advance, slips>>
  BY DEF IInv, TypeOK, GenerateRead, docVars
<1> DEFINE linked == {e \in Approved : Made(e) # {}}
<1>1. CASE linked = {}
  <2>4. PICK e \in Oldest(Approved) :
           req' = [req EXCEPT ![r] = [Idle EXCEPT !.pc = "create", !.ests = Offered,
                                                  !.first = {e}]]
    BY <1>1 DEF GenerateRead
  <2> DEFINE q == [Idle EXCEPT !.pc = "create", !.ests = Offered, !.first = {e}]
  <2>1. q.pc = "create" /\ req' = [req EXCEPT ![r] = q]
    BY <2>4 DEF Idle
  <2> HIDE DEF q
  <2>2. \A x \in Requests : req'[x] = IF x = r THEN q ELSE req[x]
    BY <1>0, <2>1 DEF TypeOK
  <2>3. PaysWithin(r)'
    BY <2>1, <2>2 DEF PaysWithin
  <2> QED BY <1>0, <2>2, <2>3, MoneyQuiet
<1>2. CASE linked # {}
  <2>1. PICK e \in Oldest(linked) : \E i \in Made(e) :
             req' = [req EXCEPT ![r] = [Idle EXCEPT !.pc = "topup", !.inv = {i},
                                                    !.ests = Missing(i),
                                                    !.seen = invoice[i]]]
    BY <1>2 DEF GenerateRead
  <2>2. PICK i \in Made(e) :
             req' = [req EXCEPT ![r] = [Idle EXCEPT !.pc = "topup", !.inv = {i},
                                                    !.ests = Missing(i),
                                                    !.seen = invoice[i]]]
    BY <2>1
  <2> DEFINE q == [Idle EXCEPT !.pc = "topup", !.inv = {i}, !.ests = Missing(i),
                               !.seen = invoice[i]]
  <2>3. q.pc = "topup" /\ req' = [req EXCEPT ![r] = q]
    BY <2>2 DEF Idle
  <2> HIDE DEF q
  <2>4. \A x \in Requests : req'[x] = IF x = r THEN q ELSE req[x]
    BY <1>0, <2>3 DEF TypeOK
  <2>5. PaysWithin(r)'
    BY <2>3, <2>4 DEF PaysWithin
  <2> QED BY <1>0, <2>4, <2>5, MoneyQuiet
<1> QED BY <1>1, <1>2

LEMMA MoneyAdvanceRead ==
    ASSUME IInv, MoneyInv, NEW r \in Requests, NEW a \in Advs, NEW n \in 0..MaxTotal,
           AdvanceRead(r, a, n)
    PROVE  MoneyInv'
<1>0. TypeOK /\ UNCHANGED <<estimate, invoice, advance, slips>>
  BY DEF IInv, TypeOK, AdvanceRead, docVars
<1>1. PICK had \in 0..MaxTotal :
         /\ had = Amounts(TakenAdv) /\ had + n <= Worths(Offered)
         /\ req' = [req EXCEPT ![r] = [Idle EXCEPT !.pc = "advance", !.adv = {a},
                                                   !.amount = n, !.ests = Offered,
                                                   !.seen.sum = had]]
  BY DEF AdvanceRead
<1> DEFINE q == [Idle EXCEPT !.pc = "advance", !.adv = {a}, !.amount = n, !.ests = Offered,
                             !.seen.sum = had]
<1>2. q.pc = "advance" /\ q.amount = n /\ q.seen.sum = had /\ n > 0 /\ q.ests = Offered
  BY DEF Idle, NoInvoice, AdvanceRead
<1>3. req' = [req EXCEPT ![r] = q]
  BY <1>1
<1> HIDE DEF q
<1>4. \A x \in Requests : req'[x] = IF x = r THEN q ELSE req[x]
  BY <1>0, <1>3 DEF TypeOK
<1>5. PaysWithin(r)'
  BY <1>0, <1>1, <1>2, <1>4 DEF PaysWithin, Worths
<1> QED BY <1>0, <1>4, <1>5, MoneyQuiet

\* Calls that write nothing that is paid or owed.
LEMMA MoneyOtherStep ==
    ASSUME IInv, MoneyInv, NEW r \in Requests,
           RecomputeRead(r) \/ SendCount(r) \/ SendPost(r) \/ Kill(r)
    PROVE  MoneyInv'
<1>0. /\ TypeOK /\ UNCHANGED <<estimate, invoice, advance>>
      /\ slips \subseteq slips'
  BY DEF IInv, TypeOK, RecomputeRead, SendCount, SendPost, Kill, docVars, Slip
<1>1. CASE RecomputeRead(r)
  <2>1. PICK i \in req[r].inv :
           req' = [req EXCEPT ![r].pc = "total", ![r].seen = invoice[i]]
    BY <1>1 DEF RecomputeRead
  <2>2. \A x \in Requests \ {r} : req'[x] = req[x]
    BY <1>0, <2>1 DEF TypeOK
  <2>3. req'[r].pc = "total"
    BY <1>0, <2>1 DEF TypeOK
  <2>4. PaysWithin(r)'
    BY <2>3 DEF PaysWithin
  <2> QED BY <1>0, <2>2, <2>4, MoneyQuiet
<1>2. CASE SendCount(r) \/ SendPost(r) \/ Kill(r)
  <2>1. OnlyMoves(r) /\ PaysWithin(r)'
    BY <1>0, <1>2, NoPayment DEF SendCount, SendPost, Kill
  <2> QED BY <1>0, <2>1, MoneyQuiet DEF OnlyMoves
<1> QED BY <1>1, <1>2

\* A write to an invoice that there is.
LEMMA MoneyRowStep ==
    ASSUME IInv, MoneyInv, NEW r \in Requests, NEW i \in Issued, NEW row,
           invoice' = [invoice EXCEPT ![i] = row], row.status # "NONE",
           slips \subseteq slips', UNCHANGED <<estimate, advance>>,
           OnlyMoves(r), PaysWithin(r)', Trustworthy(i)' => Fitting(i)'
    PROVE  MoneyInv'
<1>1. i \in Invs /\ \A j \in Invs : invoice'[j] = IF j = i THEN row ELSE invoice[j]
  BY DEF IInv, TypeOK, Issued
<1>2. Issued' = Issued
  BY <1>1 DEF Issued
<1>3. AdvancesFit'
  BY <1>1, <1>2, SameAdvances
<1>4. \A j \in Issued' : \/ Trustworthy(j)' => Fitting(j)'
                         \/ j \in Issued /\ invoice'[j] = invoice[j]
  BY <1>1, <1>2, TakenSubset
<1> QED BY <1>1, <1>3, <1>4, MoneyKept DEF OnlyMoves

\* What a request knows of its invoice, and of how it fits.
LEMMA MoneyOfRow ==
    ASSUME IInv, MoneyInv, NEW r \in Requests, NEW i \in req[r].inv
    PROVE  /\ i \in Issued /\ i \in Invs /\ invoice[i].status # "NONE"
           /\ invoice[i] \in InvoiceRows /\ invoice \in [Invs -> InvoiceRows]
           /\ invoice[i].paid \in Nat /\ invoice[i].total \in Nat /\ invoice[i].sum \in Nat
           /\ req[r].amount \in Nat /\ req[r].seen \in InvoiceRows
           /\ req[r].seen.sum \in Nat /\ req[r].seen.paid \in Nat /\ req[r].seen.total \in Nat
           /\ slips \subseteq slips' /\ Trustworthy(i)' => Fitting(i)
<1>1. i \in Issued /\ i \in Invs /\ invoice[i].status # "NONE"
  BY DEF IInv, RequestOK, Issued
<1>2. invoice \in [Invs -> InvoiceRows] /\ req[r] \in ReqRows
  BY DEF IInv, TypeOK, ReqRows
<1>3. invoice[i] \in InvoiceRows /\ req[r].seen \in InvoiceRows /\ req[r].amount \in Nat
  BY <1>1, <1>2 DEF ReqRows
<1>4. slips \subseteq slips' /\ Trustworthy(i)' => Fitting(i)
  BY <1>1, PaymentsFitFacts DEF MoneyInv, Trustworthy, Sound, AdvancesSeen
<1> QED BY <1>1, <1>2, <1>3, <1>4 DEF InvoiceRows

\* A write of an invoice's lines or of its total: it excuses itself if anything was
\* paid, or the invoice is PAID.
LEMMA MoneyLinesStep ==
    ASSUME IInv, MoneyInv, NEW r \in Requests, TopUp(r) \/ EditWrite(r) \/ RecomputeWrite(r)
    PROVE  MoneyInv'
<1>0. TypeOK /\ UNCHANGED <<estimate, advance>> /\ slips \subseteq slips'
  BY DEF IInv, TopUp, EditWrite, RecomputeWrite
<1>1. OnlyMoves(r) /\ PaysWithin(r)'
  BY <1>0, NoPayment DEF TopUp, EditWrite, RecomputeWrite
<1>2. ASSUME NEW i \in req[r].inv, NEW row, invoice' = [invoice EXCEPT ![i] = row],
             row.status = invoice[i].status, row.paid = invoice[i].paid,
             row.total = invoice[i].total
      PROVE  MoneyInv'
  <2>1. /\ i \in Issued /\ i \in Invs /\ invoice[i].status # "NONE"
        /\ invoice \in [Invs -> InvoiceRows]
        /\ Trustworthy(i)' => Fitting(i)
    BY <1>0, MoneyOfRow
  <2>2. invoice'[i] = row
    BY <1>2, <2>1
  <2>3. Trustworthy(i)' => Fitting(i)'
    BY <1>2, <2>1, <2>2 DEF Fitting
  <2> QED BY <1>0, <1>1, <1>2, <2>1, <2>3, MoneyRowStep
<1>4. CASE TopUp(r)
  <2>1. PICK i \in req[r].inv, n \in 0..MaxTotal :
           invoice' = [invoice EXCEPT ![i].sum = n, ![i].has = @ \union req[r].ests,
                          ![i].times = [e \in Ests |->
                              IF e \in req[r].ests THEN @[e] + 1 ELSE @[e]]]
    BY <1>4 DEF TopUp
  <2> DEFINE row == [invoice[i] EXCEPT !.sum = n, !.has = @ \union req[r].ests,
                                       !.times = [e \in Ests |->
                                           IF e \in req[r].ests THEN @[e] + 1 ELSE @[e]]]
  <2>2. invoice' = [invoice EXCEPT ![i] = row]
    BY <2>1
  <2>3. invoice[i] \in InvoiceRows
    BY <2>1, MoneyOfRow
  <2>4. row.status = invoice[i].status /\ row.paid = invoice[i].paid /\ row.total = invoice[i].total
    BY <2>3 DEF InvoiceRows
  <2> HIDE DEF row
  <2> QED BY <1>2, <2>1, <2>2, <2>4
<1>5. CASE EditWrite(r)
  <2>1. PICK i \in req[r].inv, n \in 0..MaxTotal, gone \in SUBSET Ests :
           invoice' = [invoice EXCEPT ![i].sum = n, ![i].has = @ \ gone]
    BY <1>5 DEF EditWrite
  <2> DEFINE row == [invoice[i] EXCEPT !.sum = n, !.has = @ \ gone]
  <2>2. invoice' = [invoice EXCEPT ![i] = row]
    BY <2>1
  <2>3. invoice[i] \in InvoiceRows
    BY <2>1, MoneyOfRow
  <2>4. row.status = invoice[i].status /\ row.paid = invoice[i].paid /\ row.total = invoice[i].total
    BY <2>3 DEF InvoiceRows
  <2> HIDE DEF row
  <2> QED BY <1>2, <2>1, <2>2, <2>4
<1>3. ASSUME RecomputeWrite(r) PROVE MoneyInv'
  <2>1. PICK i \in req[r].inv :
           /\ invoice' = [invoice EXCEPT ![i].total = req[r].seen.sum]
           /\ PaidOn(i) \subseteq slips'
    BY <1>3 DEF RecomputeWrite
  <2> DEFINE row == [invoice[i] EXCEPT !.total = req[r].seen.sum]
  <2>2. invoice' = [invoice EXCEPT ![i] = row]
    BY <2>1
  <2>3. /\ i \in Issued /\ i \in Invs /\ invoice[i].status # "NONE"
        /\ invoice[i] \in InvoiceRows /\ invoice \in [Invs -> InvoiceRows]
        /\ invoice[i].paid \in Nat /\ req[r].seen.sum \in Nat
    BY <2>1, MoneyOfRow
  <2>4. /\ row.status = invoice[i].status /\ row.paid = invoice[i].paid
        /\ row.total = req[r].seen.sum
    BY <2>3 DEF InvoiceRows
  <2> HIDE DEF row
  <2>5. Trustworthy(i)' => invoice[i].paid = 0 /\ invoice[i].status # "PAID"
    BY <2>1 DEF Trustworthy, Sound, PaidOn, When
  <2>6. Trustworthy(i)' => Fitting(i)'
    BY <2>2, <2>3, <2>4, <2>5 DEF Fitting
  <2> QED BY <1>0, <1>1, <2>2, <2>3, <2>4, <2>6, MoneyRowStep
<1> QED BY <1>3, <1>4, <1>5

LEMMA MoneyPayStep ==
    ASSUME IInv, MoneyInv, NEW r \in Requests, PayWrite(r)
    PROVE  MoneyInv'
<1>1. PICK i \in req[r].inv : PayWrite(r)!(i)
  BY DEF PayWrite
<1> DEFINE settled == req[r].seen.paid + req[r].amount >= req[r].seen.total
<1> DEFINE status == IF settled THEN "PAID" ELSE invoice[i].status
<1> DEFINE n == invoice[i].paid + req[r].amount
<1> DEFINE row == [invoice[i] EXCEPT !.paid = n, !.status = status]
<1>0. TypeOK /\ UNCHANGED <<estimate, advance>> /\ slips \subseteq slips' /\ Finish(r)
  BY <1>1 DEF IInv
<1>2. OnlyMoves(r) /\ PaysWithin(r)'
  BY <1>0, NoPayment
<1>3. /\ i \in Issued /\ i \in Invs /\ invoice[i].status # "NONE"
      /\ invoice[i] \in InvoiceRows /\ invoice \in [Invs -> InvoiceRows]
      /\ invoice[i].paid \in Nat /\ invoice[i].total \in Nat /\ req[r].amount \in Nat
      /\ slips \subseteq slips' /\ Trustworthy(i)' => Fitting(i)
  BY MoneyOfRow
<1>4. invoice' = [invoice EXCEPT ![i] = row]
  BY <1>1, <1>3 DEF InvoiceRows
<1>5. /\ row.status = status /\ row.paid = n /\ row.total = invoice[i].total
      /\ row.status # "NONE"
  BY <1>3 DEF InvoiceRows
<1> HIDE DEF row
<1>6. Trustworthy(i)' => invoice[i] = req[r].seen /\ invoice[i].status # "VOID"
  BY <1>1, BlindFacts DEF Trustworthy, Sound
<1>7. req[r].amount > 0 /\ req[r].seen.paid + req[r].amount <= req[r].seen.total
  BY <1>1 DEF MoneyInv, PaysWithin
<1>8. Trustworthy(i)' => Fitting(i)'
  <2> SUFFICES ASSUME Trustworthy(i)' PROVE Fitting(i)'
    OBVIOUS
  <2>1. invoice[i] = req[r].seen /\ Fitting(i)
    BY <1>0, <1>3, <1>6
  <2>2. n <= invoice[i].total /\ invoice[i].status # "PAID"
    BY <1>3, <1>7, <2>1 DEF Fitting
  <2>3. settled <=> n = invoice[i].total
    BY <1>3, <2>1, <2>2
  <2>4. invoice'[i] = row /\ n \in Nat
    BY <1>3, <1>4
  <2> HIDE DEF settled, n
  <2> QED BY <1>3, <1>5, <2>2, <2>3, <2>4 DEF Fitting
<1> QED BY <1>0, <1>2, <1>3, <1>4, <1>5, <1>8, MoneyRowStep

LEMMA MoneyVoidStep ==
    ASSUME IInv, MoneyInv, NEW r \in Requests, VoidWrite(r)
    PROVE  MoneyInv'
<1>1. PICK i \in req[r].inv : VoidWrite(r)!(i)
  BY DEF VoidWrite
<1> DEFINE row == [invoice[i] EXCEPT !.status = "VOID"]
<1>0. TypeOK /\ UNCHANGED <<estimate, advance>> /\ slips \subseteq slips' /\ Finish(r)
  BY <1>1 DEF IInv, Slip
<1>2. OnlyMoves(r) /\ PaysWithin(r)'
  BY <1>0, NoPayment
<1>3. /\ i \in Issued /\ i \in Invs /\ invoice[i] \in InvoiceRows
      /\ invoice \in [Invs -> InvoiceRows]
      /\ slips \subseteq slips' /\ Trustworthy(i)' => Fitting(i)
  BY MoneyOfRow
<1>4. invoice' = [invoice EXCEPT ![i] = row]
  BY <1>1
<1>5. row.status = "VOID" /\ row.paid = invoice[i].paid /\ row.total = invoice[i].total
  BY <1>3 DEF InvoiceRows
<1> HIDE DEF row
<1>6. Trustworthy(i)' => Fitting(i)'
  BY <1>0, <1>3, <1>4, <1>5 DEF Fitting
<1> QED BY <1>0, <1>2, <1>3, <1>4, <1>5, <1>6, MoneyRowStep

LEMMA MoneyReissueStep ==
    ASSUME IInv, MoneyInv, NEW r \in Requests, ReissueWrite(r)
    PROVE  MoneyInv'
<1>1. PICK i \in req[r].inv : ReissueWrite(r)!(i)
  BY DEF ReissueWrite
<1>0. /\ TypeOK /\ UNCHANGED <<estimate, advance>>
      /\ slips \subseteq slips' /\ Finish(r)
  BY <1>1 DEF IInv, TypeOK, Slip
<1>2. OnlyMoves(r) /\ PaysWithin(r)'
  BY <1>0, NoPayment
<1>3. CASE Replaced(i)
  BY <1>0, <1>1, <1>2, <1>3, MoneyQuiet DEF OnlyMoves
<1>4. CASE ~Replaced(i)
  <2>1. PICK j \in Invs \ Issued : invoice' = [invoice EXCEPT ![j] = Correction(i, req[r].seen)]
    BY <1>1, <1>4
  <2>2. /\ invoice \in [Invs -> InvoiceRows] /\ req[r].seen.total \in Nat
    BY <1>1, MoneyOfRow
  <2>3. \A k \in Invs : invoice'[k] = IF k = j THEN Correction(i, req[r].seen) ELSE invoice[k]
    BY <2>1, <2>2
  <2>4. /\ Correction(i, req[r].seen).status = "DRAFT" /\ Correction(i, req[r].seen).paid = 0
        /\ Correction(i, req[r].seen).total = req[r].seen.total
    BY DEF Correction, NoInvoice
  <2>5. Fitting(j)'
    BY <2>2, <2>3, <2>4 DEF Fitting
  <2>6. Issued' = Issued \union {j}
    BY <2>3, <2>4 DEF Issued
  <2>7. AdvancesFit'
    BY <1>0, <2>6, SameAdvances
  <2>8. \A k \in Issued' : \/ Trustworthy(k)' => Fitting(k)'
                           \/ k \in Issued /\ invoice'[k] = invoice[k]
    BY <2>3, <2>5, <2>6, TakenSubset
  <2> QED BY <1>0, <1>2, <2>7, <2>8, MoneyKept DEF OnlyMoves
<1> QED BY <1>3, <1>4

\* The advances are paid onto the invoice: they are within what was approved, which
\* is what it bills.
LEMMA MoneyCreateStep ==
    ASSUME IInv, MoneyInv, NEW r \in Requests, Create(r)
    PROVE  MoneyInv'
<1> DEFINE open == {a \in TakenAdv : ~advance[a].migrated}
<1> DEFINE first == req[r].first
<1>0. /\ TypeOK /\ UNCHANGED estimate /\ Finish(r)
      /\ slips \subseteq slips' /\ invoice \in [Invs -> InvoiceRows]
      /\ advance \in [Advs -> [amount: Nat, migrated: BOOLEAN]]
  BY DEF IInv, TypeOK, Create, Slip
<1>1. OnlyMoves(r) /\ PaysWithin(r)'
  BY <1>0, NoPayment
<1>2. CASE \E e \in first : Made(e) # {}
  BY <1>0, <1>1, <1>2, MoneyQuiet DEF Create, OnlyMoves, docVars
<1>3. CASE ~\E e \in first : Made(e) # {}
  <2>1. PICK i \in Invs \ Issued, n \in 0..MaxTotal, paid \in 0..MaxTotal :
           /\ n = Worths(req[r].ests) /\ paid = Amounts(open)
           /\ invoice' = [invoice EXCEPT ![i] = Bill(first, req[r].ests, n, paid)]
           /\ Slip("billed", i, n < Worths(Offered))
    BY <1>3 DEF Create
  <2>2. n \in Nat /\ paid \in Nat
    BY InvoicesAssumption
  <2>3. \A k \in Invs : invoice'[k] = IF k = i THEN Bill(first, req[r].ests, n, paid) ELSE invoice[k]
    BY <1>0, <2>1
  <2>4. /\ Bill(first, req[r].ests, n, paid).status = IF paid >= n THEN "PAID" ELSE "SENT"
        /\ Bill(first, req[r].ests, n, paid).paid = paid /\ Bill(first, req[r].ests, n, paid).total = n
    BY DEF Bill
  <2>5. Issued' = Issued \union {i}
    BY <2>3, <2>4 DEF Issued
  <2>6. Trustworthy(i)' => paid <= n
    <3> SUFFICES ASSUME Trustworthy(i)' PROVE paid <= n
      OBVIOUS
    <3>1. ~(n < Worths(Offered)) /\ Worths(Offered) \in Nat
      BY <2>1, TakenSubset, WorthsFacts DEF Trustworthy, Sound, Slip, When
    <3>2. AdvancesSeen
      BY <1>0 DEF Trustworthy, AdvancesSeen
    <3>3. CASE Issued = {}
      <4>1. open \subseteq TakenAdv /\ TakenAdv \subseteq Advs
        BY DEF TakenAdv
      <4> HIDE DEF open
      <4>2. /\ Amounts(open) \in Nat /\ Amounts(open) <= Amounts(TakenAdv)
            /\ Amounts(TakenAdv) \in Nat
        BY <1>0, <4>1, AmountsFacts
      <4>3. Amounts(TakenAdv) <= Worths(Offered)
        BY <3>2, <3>3 DEF MoneyInv, AdvancesFit
      <4> QED BY <2>1, <2>2, <3>1, <4>2, <4>3
    <3>4. CASE Issued # {}
      <4>1. open = {}
        BY <3>2, <3>4, TakenSubset DEF IInv, DepositsFollowAdvances, AdvancesSeen
      <4>2. paid = 0
        BY <2>1, <4>1, SumOfNone DEF Amounts
      <4> QED BY <2>2, <4>2
    <3> QED BY <3>3, <3>4
  <2>7. Trustworthy(i)' => Fitting(i)'
    BY <2>2, <2>3, <2>4, <2>6 DEF Fitting
  <2>8. AdvancesFit'
    BY <2>5 DEF AdvancesFit
  <2>9. \A k \in Issued' : \/ Trustworthy(k)' => Fitting(k)'
                           \/ k \in Issued /\ invoice'[k] = invoice[k]
    BY <2>3, <2>5, <2>7, TakenSubset
  <2> QED BY <1>0, <1>1, <2>8, <2>9, MoneyKept DEF OnlyMoves
<1> QED BY <1>2, <1>3

LEMMA MoneyAdvanceStep ==
    ASSUME IInv, MoneyInv, NEW r \in Requests, AdvanceWrite(r)
    PROVE  MoneyInv'
<1>1. PICK a \in req[r].adv : AdvanceWrite(r)!(a)
  BY DEF AdvanceWrite
<1> DEFINE n == req[r].amount
<1>0. /\ TypeOK /\ UNCHANGED <<estimate, invoice>>
      /\ slips \subseteq slips' /\ Finish(r) /\ a \in Advs /\ n \in Nat
      /\ advance \in [Advs -> [amount: Nat, migrated: BOOLEAN]]
      /\ advance' = [advance EXCEPT ![a] = [amount |-> n, migrated |-> FALSE]]
      /\ req[r].seen.sum \in Nat
  BY <1>1 DEF IInv, TypeOK, When, ReqRows, InvoiceRows
<1>2. OnlyMoves(r) /\ PaysWithin(r)'
  BY <1>0, NoPayment
<1>3. n > 0 /\ req[r].seen.sum + n <= Worths(req[r].ests)
  BY <1>1 DEF MoneyInv, PaysWithin
<1>4. Issued' = Issued
  BY <1>0 DEF Issued
<1>5. TakenAdv' = TakenAdv \union {a} /\ a \notin TakenAdv
  BY <1>0, <1>1, <1>3 DEF TakenAdv
<1>6. Amounts(TakenAdv)' = Amounts(TakenAdv) + n
  <2> DEFINE f == [b \in Advs |-> advance[b].amount]
  <2> DEFINE g == [b \in Advs |-> advance'[b].amount]
  <2> DEFINE S == TakenAdv \union {a}
  <2>1. /\ IsFiniteSet(S) /\ IsFiniteSet(S \ {a}) /\ S \ {a} = TakenAdv
    BY <1>0, <1>5, InvoicesAssumption, TakenSubset, FS_Subset
  <2>2. /\ \A b \in S : g[b] \in Int
        /\ \A b \in TakenAdv : g[b] = f[b]
        /\ g[a] = n
    BY <1>0, <1>5, TakenSubset
  <2> HIDE DEF f, g, S
  <2>3. SumFunctionOnSet(g, S) = g[a] + SumFunctionOnSet(g, S \ {a})
    <3>1. a \in S /\ \A b \in S : g[b] \in Int
      BY <2>2 DEF S
    <3> QED BY <2>1, <3>1, SumWithout
  <2>4. SumFunctionOnSet(g, TakenAdv) = SumFunctionOnSet(f, TakenAdv)
    BY <2>1, <2>2, SumsAgree
  <2>5. /\ Amounts(TakenAdv)' = SumFunctionOnSet(g, S)
        /\ Amounts(TakenAdv) = SumFunctionOnSet(f, TakenAdv)
    BY <1>5 DEF Amounts, f, g, S
  <2>6. Amounts(TakenAdv) \in Nat
    BY <1>0, AmountsFacts, TakenSubset
  <2>8. Amounts(TakenAdv)' = g[a] + Amounts(TakenAdv)
    BY <2>1, <2>3, <2>4, <2>5
  <2> HIDE DEF n
  <2> QED BY <1>0, <2>2, <2>6, <2>8
<1>7. AdvancesFit'
  <2> SUFFICES ASSUME AdvancesSeen' PROVE Amounts(TakenAdv)' <= Worths(Offered)
    BY <1>0, SameEstimates DEF AdvancesFit, Worths
  <2>1. Amounts(TakenAdv) = req[r].seen.sum /\ ~(Worths(Offered) < Worths(req[r].ests))
    BY <1>0, <1>1 DEF AdvancesSeen, When
  <2>2. Worths(Offered) \in Nat /\ Worths(req[r].ests) \in Nat
    <3>1. req[r].ests \in SUBSET Ests
      BY DEF IInv, TypeOK
    <3> QED BY <3>1, TakenSubset, WorthsFacts
  <2> QED BY <1>0, <1>3, <1>6, <2>1, <2>2
<1>8. \A k \in Issued' : k \in Issued /\ invoice'[k] = invoice[k]
  BY <1>0, <1>4
<1> QED BY <1>0, <1>2, <1>7, <1>8, MoneyKept DEF OnlyMoves

LEMMA StepMoney == IInv /\ MoneyInv /\ [Next]_vars => MoneyInv'
<1> SUFFICES ASSUME IInv, MoneyInv, [Next]_vars PROVE MoneyInv'
  OBVIOUS
<1>1. ASSUME NEW r \in Requests, RequestStep(r) PROVE MoneyInv'
  BY <1>1, MoneyGenerateRead, MoneyLinesStep, MoneyCreateStep, MoneyOtherStep, MoneyPayStep,
     MoneyAdvanceStep, MoneyVoidStep, MoneyReissueStep, MoneyReadStep, MoneyAdvanceRead
  DEF RequestStep
<1>3. CASE Deliver
  BY <1>3, MoneyQuiet DEF Deliver, docVars
<1>4. CASE UNCHANGED vars
  BY <1>4, MoneyQuiet DEF vars, docVars
<1> QED BY <1>1, <1>3, <1>4, MoneyTurnStep DEF Next

\* The inductive invariant: whatever requests overlap, whichever of them die, the
\* documents, the ledger and the deposits of a card keep to IInv.
THEOREM InvoicesInvariance == Spec => []IInv
<1>1. Init => IInv
  BY InitInv
<1>2. IInv /\ [Next]_vars => IInv'
  BY StepInv
<1> QED BY <1>1, <1>2, PTL DEF Spec

\* No advance is migrated twice or left behind: generateInvoiceAction turns into
\* payments what it finds not migrated, and marks it, in one transaction.
THEOREM DepositsFollow == Spec => []DepositsFollowAdvances
<1>1. IInv => DepositsFollowAdvances
  BY DEF IInv
<1> QED BY <1>1, InvoicesInvariance, PTL

\* A void has one correction, an estimate one invoice, and the numbers have no gap: the
\* transactions of generateInvoiceAction and reissueInvoiceAction refuse what the reads
\* before them could not see.  And as long as the invoiced estimate stays approved, no
\* request to bill is misled about the oldest, and no void is written to, however many
\* requests to bill overlap the card has one live invoice.
THEOREM DocumentsStayInOrder == Spec => []DocumentsInOrder
<1>1. ASSUME IInv PROVE DocumentsInOrder
  <2>1. \A i, j, k \in Invs : k \in invoice[i].prev \intersect invoice[j].prev => i = j
    BY <1>1 DEF IInv, Succession, OneCorrection
  <2>4. \A i, j \in Invs, e \in Ests :
           e \in invoice[i].made \intersect invoice[j].made => i = j
    BY <1>1 DEF IInv, Succession, OnePrimary
  <2>2. ASSUME Steady, \A i \in Invs : Sound(i, {"ghost"}),
               NEW i \in Issued, NEW j \in Issued,
               invoice[i].status # "VOID", invoice[j].status # "VOID"
        PROVE  i = j
    <3>1. Orderly
      BY <1>1, <2>2 DEF IInv, Primary, Sound, Orderly
    <3>2. ~Replaced(i) /\ ~Replaced(j)
      BY <1>1, <2>2, <3>1 DEF IInv, Succession, Issued
    <3> QED BY <1>1, <3>1, <3>2 DEF IInv, Succession
  <2>3. NumbersGapless
    BY <1>1 DEF IInv
  <2> QED BY <2>1, <2>2, <2>3, <2>4 DEF DocumentsInOrder, OneLiveInvoice
<1> QED BY <1>1, InvoicesInvariance, PTL

\* The work of an estimate is billed once: a top-up adds what it found lacking, and
\* nothing else puts an estimate's line on an invoice that was made before it.
THEOREM WorkBilledOnce == Spec => []BilledOnce
<1>1. ASSUME IInv PROVE BilledOnce
  <2> SUFFICES ASSUME Steady, \A i \in Invs : Sound(i, {"topup", "reprice"}),
                      NEW e \in Ests, NEW i \in Invs, NEW j \in Invs
               PROVE  /\ invoice[i].times[e] <= 1
                      /\ invoice[i].times[e] > 0 /\ invoice[j].times[e] > 0 => i = j
    BY DEF BilledOnce
  <2>1. \A k \in Invs : <<"topup", k>> \notin slips /\ <<"reprice", k>> \notin slips
    BY DEF Sound
  <2>2. LinesOnce(i) /\ LinesOnce(j)
    BY <1>1 DEF IInv
  <2>3. invoice[i].times[e] <= 1
    BY <2>1, <2>2 DEF LinesOnce
  <2>4. ASSUME invoice[i].times[e] > 0, invoice[j].times[e] > 0 PROVE i = j
    <3>1. /\ i \in Issued /\ invoice[i].prev = {}
          /\ j \in Issued /\ invoice[j].prev = {}
      BY <2>2, <2>4 DEF LinesOnce
    <3> QED BY <1>1, <3>1 DEF IInv, Primary, Single
  <2> QED BY <2>3, <2>4
<1> QED BY <1>1, InvoicesInvariance, PTL

\* Between requests the ledger holds an invoice's total, and a void nets to zero: the
\* totals and their rows are written together, and a void takes off what it read.
THEOREM BooksFollow == Spec => []BooksFollowInvoice
<1>1. ASSUME IInv PROVE BooksFollowInvoice
  <2> SUFFICES ASSUME Single, \A i \in Invs : Sound(i, {"ghost"}),
                      NEW i \in Issued, ~Busy(i), Sound(i, {"total", "post", "void"})
               PROVE  Booked(i)
    BY DEF BooksFollowInvoice
  <2>1. Trusted(i) /\ <<"total", i>> \notin slips
    BY DEF Sound, Trusted, Orderly
  <2>2. Posted(i) /\ invoice[i].total = invoice[i].sum
    BY <1>1, <2>1 DEF IInv, LedgerOK, TotalOK, Busy, Recomputing
  <2>3. ar[i].posted # invoice[i].total /\ invoice[i].status # "VOID"
           => ar[i].posted \in {0 : p \in invoice[i].prev}
    BY <2>2 DEF Posted
  <2> QED BY <2>2, <2>3 DEF Booked, Posted
<1> QED BY <1>1, InvoicesInvariance, PTL

\* What is paid fits what is owed, and the status says so, unless a payment was decided
\* on another state of the invoice, an advance or a change of the estimates came while it
\* or an advance was made, an invoice that had been paid on was edited, or an approval was
\* taken back below the advances taken for it: sums of advances and of estimates, of any
\* number of each, whatever is approved, declined and taken off.
THEOREM PaymentsAlwaysFit == Spec => []PaymentsFit
<1>1. Init => IInv /\ MoneyInv
  <2> SUFFICES ASSUME Init PROVE MoneyInv
    BY InitInv
  <2>1. Issued = {} /\ TakenAdv = {} /\ Offered = {}
    BY DEF Init, Issued, TakenAdv, NoInvoice, NoAdvance, Offered, Approved
  <2>2. \A r \in Requests : PaysWithin(r)
    BY DEF Init, PaysWithin, Idle
  <2>3. Amounts({}) = 0 /\ Worths({}) = 0
    BY SumOfNone DEF Amounts, Worths
  <2> QED BY <2>1, <2>2, <2>3 DEF MoneyInv, PaymentsFit, AdvancesFit
<1>2. IInv /\ MoneyInv /\ [Next]_vars => IInv' /\ MoneyInv'
  BY StepInv, StepMoney
<1> QED BY <1>1, <1>2, PTL DEF Spec, MoneyInv
=============================================================================
