------------------------------ MODULE ErpSync ------------------------------
(***************************************************************************)
(* The one-way push of one garage's ledger into ERPNext                    *)
(* (src/lib/erp-sync, src/app/actions/erp-sync.ts, the two cron routes).   *)
(*                                                                         *)
(* Ledger writers stamp rows and commit them; tailer passes turn new rows  *)
(* into ErpSyncJob rows and move the cursor; runner passes pick PENDING    *)
(* jobs, look the document up in ERPNext, POST it, read it back and commit *)
(* the ErpEntityMap row with the job's status.  The owner enables,         *)
(* disables, resets and replays.  Passes overlap, die and lose answers,    *)
(* and a vehicle may change hands between two of their steps.              *)
(*                                                                         *)
(* What a pass does between two awaits is one action.  A database row is a *)
(* record.  An ERPNext document is named by the push that creates it: that *)
(* ERPNext keeps each garageos_*_id field unique, as pushers.ts assumes,   *)
(* makes the two one to one (a payment and an advance share a field but    *)
(* never an id).  A ledger row carries the push OP_BY_LEDGER_SOURCE gives  *)
(* its source; the two or three rows of one source document, written       *)
(* together, are one row here.                                             *)
(***************************************************************************)
EXTENDS Naturals, FiniteSets

CONSTANTS
    Customers, Invoices, Payments, Advances,    \* ids of the source rows
    Vehicles,         \* vehicles under repair
    VehicleOf,        \* the vehicle on the job card of an invoice or an advance
    InvoiceOf,        \* the invoice a payment settles
    Corrections,      \* invoices reissued for a void: drafts without rows until sent
    Runners, Tailers, \* passes of each cron route that may be alive at once
    Taps,             \* requests of the replay button that may be alive at once
    MaxOpenTxns,      \* ledger transactions that may be uncommitted at once
    LatestStart,      \* latest startAt the owner may choose when enabling
    Budgets,          \* how often each bounded event may happen, by name
    BATCH_SIZE, MAX_JOBS_PER_PASS, MAX_ATTEMPTS_BEFORE_DEAD_LETTER,
    NoJob, NoName     \* "no row"

Sources == Customers \union Invoices \union Payments \union Advances

Push(op, src) == [op |-> op, src |-> src]

LedgerPushes ==
    [op: {"PUSH_INVOICE", "PUSH_VOID"}, src: Invoices]
        \union [op: {"PUSH_PAYMENT"}, src: Payments]
        \union [op: {"PUSH_ADVANCE"}, src: Advances]

Pushes == [op: {"PUSH_CUSTOMER"}, src: Customers] \union LedgerPushes

BudgetKeys == {"crash", "deliver", "fault", "late", "misbook", "reissue", "repost",
               "reset", "toggle", "transfer"}

\* A job's id says when its row was inserted, and for which push.
JobIds   == [pass: Nat, at: Nat, push: Pushes]
Statuses == {"PENDING", "SYNCED", "FAILED", "DEAD_LETTER"}  \* nothing sets RUNNING
JobRows  == [id: JobIds, deps: SUBSET JobIds,
             status: Statuses, attempts: Nat]

ASSUME ErpSyncAssumption ==
    /\ Customers \intersect (Invoices \union Payments \union Advances) = {}
    /\ Invoices \intersect (Payments \union Advances) = {}
    /\ Payments \intersect Advances = {}
    /\ VehicleOf \in [Invoices \union Advances -> Vehicles]
    /\ InvoiceOf \in [Payments -> Invoices]
    /\ Corrections \subseteq Invoices
    /\ Budgets \subseteq [BudgetKeys -> Nat]
    /\ BATCH_SIZE \in Nat \ {0}
    /\ MAX_JOBS_PER_PASS \in Nat \ {0}
    /\ MAX_ATTEMPTS_BEFORE_DEAD_LETTER \in Nat \ {0}
    /\ LatestStart \in Nat /\ MaxOpenTxns \in Nat
    /\ NoJob \notin JobRows /\ NoName \notin Pushes

VARIABLES
    owner,      \* owner[v]: Vehicle.customerId
    delivered,  \* invoices whose job card has invoiceDeliveredAt set
    enabled,    \* Garage.erpSyncEnabled
    cursor,     \* position in ErpSyncCursor, as a set: {} or one createdAt
    clock,      \* last createdAt given out
    ledger,     \* committed LedgerEntry rows the tailer may read
    open,       \* rows of ledger transactions still uncommitted
    tail,       \* tail[t]: the rows tailer pass t has read, {} when not running
    job,        \* ErpSyncJob
    pass,       \* tailer transactions that inserted a job
    run,        \* run[r]: the program counter and locals of runner pass r
    map,        \* map[s]: ErpEntityMap, the ERPNext name recorded for source s
    erp,        \* the documents ERPNext holds
    inflight,   \* POSTs the client has given up on and ERPNext may still serve
    replaying,  \* replaying[y]: the job that tap y has read and not yet put back, and,
                \* as history, whether another tap has put it back since (late)
    floor,      \* history: where the sync was last told to start
    budget      \* what is left of the budget

ledgerVars == <<owner, delivered, clock, ledger, open>>
queueVars  == <<cursor, tail, pass, floor>>
erpVars    == <<erp, inflight>>
vars == <<enabled, ledgerVars, queueVars, job, run, map, erpVars, replaying, budget>>

Spend(k) == /\ budget[k] > 0
            /\ budget' = [budget EXCEPT ![k] = @ - 1]

-----------------------------------------------------------------------------
(* Pushes, the documents they refer to, and the jobs they wait for.        *)

Has(w)  == \E j \in job : j.id.push = w
Names   == {d.push : d \in erp}

InvoiceFor(w)  == IF w.op = "PUSH_PAYMENT" THEN InvoiceOf[w.src] ELSE w.src
InvoicePush(w) == Push("PUSH_INVOICE", InvoiceFor(w))
NeedsInvoice(w) == w.op \in {"PUSH_PAYMENT", "PUSH_VOID"}

\* The customer is read through the job card's vehicle, each time it is needed.
CustomerPush(w) == Push("PUSH_CUSTOMER", owner[VehicleOf[InvoiceFor(w)]])

\* dispatchJob, buildInvoiceInput: the pushes whose ErpEntityMap rows it
\* resolves before it POSTs w.
Prereq(w) == CASE w.op = "PUSH_CUSTOMER" -> {}
               [] w.op \in {"PUSH_INVOICE", "PUSH_ADVANCE"} -> {CustomerPush(w)}
               [] OTHER -> {CustomerPush(w), InvoicePush(w)}

\* resolveDeps: the pushes whose jobs the job of w waits for.
DependsOn(w) == IF NeedsInvoice(w) THEN {InvoicePush(w)} ELSE Prereq(w)

\* The jobs one ledger row asks for: its own, and its customer's.
Wanted(row) == {row.push}
                 \union {d \in DependsOn(row.push) : d.op = "PUSH_CUSTOMER"}

-----------------------------------------------------------------------------
(* The ledger.  createdAt is drawn when the row is written, and the row    *)
(* becomes visible when its transaction commits.                           *)

Posted(w) == \E row \in ledger : row.push = w

\* recomputeInvoice deletes an editable invoice's rows and writes them anew.
MayRepost(w) == /\ w.op = "PUSH_INVOICE"
                /\ w.src \notin delivered
                /\ Spend("repost")

\* generateInvoice writes an invoice with its rows; a correction has none until it
\* is first sent or edited, and no payment or void asks for them.
Issued(i) == i \in Corrections \/ Posted(Push("PUSH_INVOICE", i))

\* generateInvoice, sendInvoiceToCustomer, recordPayment, recordAdvance, voidInvoice,
\* recomputeInvoice.
BeginPost(w) ==
    /\ Cardinality(open) < MaxOpenTxns
    /\ w \notin {row.push : row \in open}
    /\ NeedsInvoice(w) => Issued(InvoiceFor(w))
    /\ w.op = "PUSH_VOID" => w.src \in delivered
    /\ IF Posted(w) THEN MayRepost(w) ELSE UNCHANGED budget
    /\ clock' = clock + 1
    /\ open' = open \union {[push |-> w, at |-> clock + 1]}
    /\ UNCHANGED <<owner, delivered, enabled, ledger, queueVars, job, run, map,
                   erpVars, replaying>>

CommitPost(row) ==
    /\ open' = open \ {row}
    /\ ledger' = {q \in ledger : q.push # row.push} \union {row}
    /\ UNCHANGED <<owner, delivered, enabled, clock, queueVars, job, run, map,
                   erpVars, replaying, budget>>

\* The delivery signal that locks an invoice and makes it voidable: it stamps the job
\* card, so a late one for the void meets an unsent correction too.
Deliver(i) ==
    /\ i \notin delivered /\ Issued(i) /\ Spend("deliver")
    /\ delivered' = delivered \union {i}
    /\ UNCHANGED <<owner, enabled, clock, ledger, open, queueVars, job, run, map,
                   erpVars, replaying>>

\* reissueInvoiceAction clears the stamp for the correction's sake, and with it the
\* lock on the void.  The correction it drafts is one of Corrections, there already.
Reissue(i) ==
    /\ i \in delivered /\ Posted(Push("PUSH_VOID", i)) /\ Spend("reissue")
    /\ delivered' = delivered \ {i}
    /\ UNCHANGED <<owner, enabled, clock, ledger, open, queueVars, job, run, map,
                   erpVars, replaying>>

\* Intake "same car, owner has changed": Vehicle.customerId moves.
TransferVehicle(v, c) ==
    /\ c # owner[v] /\ Spend("transfer")
    /\ owner' = [owner EXCEPT ![v] = c]
    /\ UNCHANGED <<delivered, enabled, clock, ledger, open, queueVars, job, run,
                   map, erpVars, replaying>>

-----------------------------------------------------------------------------
(* The owner's actions.                                                    *)

Enable(startAt) ==
    /\ ~enabled
    /\ enabled' = TRUE
    /\ IF cursor = {} THEN cursor' = {startAt} /\ floor' = startAt
                      ELSE UNCHANGED <<cursor, floor>>
    /\ UNCHANGED <<ledgerVars, tail, pass, job, run, map, erpVars, replaying, budget>>

Disable ==
    /\ enabled /\ Spend("toggle")
    /\ enabled' = FALSE
    /\ UNCHANGED <<ledgerVars, queueVars, job, run, map, erpVars, replaying>>

\* resetErpSyncCursorAction: the cursor moves to now, PENDING jobs are deleted.
Reset ==
    /\ Spend("reset")
    /\ cursor' = {clock} /\ floor' = clock
    /\ job' = {j \in job : j.status # "PENDING"}
    /\ UNCHANGED <<enabled, ledgerVars, tail, pass, run, map, erpVars, replaying>>

NoReplay == [job |-> NoJob, late |-> FALSE]

\* Bug: replay without the status check.
ReplayAnyRead(y, j) ==
    /\ replaying[y] = NoReplay
    /\ replaying' = [replaying EXCEPT ![y].job = j]
    /\ UNCHANGED <<enabled, ledgerVars, queueVars, job, run, map, erpVars, budget>>

\* replayErpSyncJobAction checks the status and then writes without a guard; nothing
\* keeps a second tap from doing the same.
ReplayRead(y, j) ==
    /\ replaying[y] = NoReplay /\ j.status \in {"FAILED", "DEAD_LETTER"}
    /\ replaying' = [replaying EXCEPT ![y].job = j]
    /\ UNCHANGED <<enabled, ledgerVars, queueVars, job, run, map, erpVars, budget>>

\* The table after an update of the row with this id, if there still is one.
Updated(id, status, attempts) ==
    {IF j.id = id THEN [j EXCEPT !.status = status, !.attempts = attempts] ELSE j :
        j \in job}

\* The other taps that have read the job y is about to put back.
AlsoRead(y) == {x \in Taps \ {y} : /\ replaying[x].job # NoJob
                                   /\ replaying[x].job.id = replaying[y].job.id}

ReplayWrite(y) ==
    /\ replaying[y].job # NoJob
    /\ job' = Updated(replaying[y].job.id, "PENDING", 0)
    /\ replaying' = [x \in Taps |-> IF x = y THEN NoReplay
                      ELSE [replaying[x] EXCEPT !.late = @ \/ x \in AlsoRead(y)]]
    /\ UNCHANGED <<enabled, ledgerVars, queueVars, run, map, erpVars, budget>>

-----------------------------------------------------------------------------
(* The tailer: read a window of ledger rows, then one transaction that     *)
(* inserts their jobs and moves the cursor.                                *)

\* Bug: the window is read with uncommitted rows in it.
NewRowsDirty == {row \in ledger \union open : \A n \in cursor : row.at > n}
NewRows == {row \in ledger : \A n \in cursor : row.at > n}
\* Bug: the window is the newest rows.
WindowNewest == {row \in NewRows :
                   Cardinality({q \in NewRows : q.at > row.at}) < BATCH_SIZE}
Window  == {row \in NewRows :
              Cardinality({q \in NewRows : q.at < row.at}) < BATCH_SIZE}

\* Bug: the cursor moves when the window is read, ahead of the inserts.
TailReadMovesCursor(t) ==
    /\ enabled /\ cursor # {} /\ tail[t] = {} /\ NewRows # {}
    /\ tail' = [tail EXCEPT ![t] = Window]
    /\ cursor' = {row.at : row \in {q \in Window : \A p \in Window : p.at <= q.at}}
    /\ UNCHANGED <<enabled, ledgerVars, pass, floor, job, run, map, erpVars,
                   replaying, budget>>

TailRead(t) ==
    /\ enabled /\ cursor # {} /\ tail[t] = {} /\ NewRows # {}
    /\ tail' = [tail EXCEPT ![t] = Window]
    /\ UNCHANGED <<enabled, ledgerVars, cursor, pass, floor, job, run, map, erpVars,
                   replaying, budget>>

\* resolveDeps throws when a payment or a void finds no PUSH_INVOICE job.
FindsInvoice(rows, row) ==
    \/ Has(InvoicePush(row.push))
    \/ \E q \in rows : q.push = InvoicePush(row.push) /\ q.at < row.at
Resolvable(rows) ==
    \A row \in rows : NeedsInvoice(row.push) => FindsInvoice(rows, row)

\* The first row of the window that asks for w inserts its job.
First(rows, row, w) == \A q \in rows : w \in Wanted(q) => row.at <= q.at
NewId(row, w) == [pass |-> pass + 1, at |-> row.at, push |-> w]
IdsOf(rows, w) == {id \in {j.id : j \in job} : id.push = w}
                    \union {NewId(row, w) : row \in {q \in rows :
                               ~Has(w) /\ w \in Wanted(q) /\ First(rows, q, w)}}
NewJobs(rows) ==
    {[id |-> NewId(p[1], p[2]), status |-> "PENDING", attempts |-> 0,
      deps |-> UNION {IdsOf(rows, d) : d \in DependsOn(p[2])}] :
     p \in {x \in rows \X Pushes : /\ x[2] \in Wanted(x[1])
                                   /\ ~Has(x[2])
                                   /\ First(rows, x[1], x[2])}}

TailCommit(t) ==
    /\ tail[t] # {} /\ Resolvable(tail[t])
    /\ job' = job \union NewJobs(tail[t])
    /\ pass' = IF NewJobs(tail[t]) = {} THEN pass ELSE pass + 1
    /\ cursor' = {row.at : row \in {q \in tail[t] : \A p \in tail[t] : p.at <= q.at}}
    /\ tail' = [tail EXCEPT ![t] = {}]
    /\ UNCHANGED <<enabled, ledgerVars, floor, run, map, erpVars, replaying, budget>>

TailEnds(t) ==
    /\ tail' = [tail EXCEPT ![t] = {}]
    /\ UNCHANGED <<enabled, ledgerVars, cursor, pass, floor, job, run, map, erpVars,
                   replaying>>

\* The route logs the error; the transaction is rolled back.
TailThrow(t) == tail[t] # {} /\ ~Resolvable(tail[t]) /\ TailEnds(t) /\ UNCHANGED budget
TailCrash(t) == tail[t] # {} /\ Spend("crash") /\ TailEnds(t)

-----------------------------------------------------------------------------
(* The runner: one pass over a batch of PENDING jobs, one job at a time.   *)

Idle == [pc |-> "idle", batch |-> {}, job |-> NoJob, refs |-> {}]

\* The next job of the batch, the step that job is at, the end of that job.
Goto(r, pc) == run' = [run EXCEPT ![r].pc = pc]
NextJob(r)  == run' = [run EXCEPT ![r] = [@ EXCEPT !.pc = "pass", !.job = NoJob, !.refs = {}]]
Abort(r)    == run' = [run EXCEPT ![r] = Idle]

Doing(r) == run[r].job.id.push
Mine(r)  == {j \in job : j.id = run[r].job.id}   \* the row of the job in hand

\* The order of createdAt: by transaction, by ledger row, the customer first.
Before(a, b) == \/ a.pass < b.pass
                \/ a.pass = b.pass /\ a.at < b.at
                \/ /\ a.pass = b.pass /\ a.at = b.at
                   /\ a.push.op = "PUSH_CUSTOMER" /\ b.push.op # "PUSH_CUSTOMER"

Pending == {j.id : j \in {x \in job : x.status = "PENDING"}}
\* Bug: the batch is the oldest jobs of any status.
BatchOfAll == LET ids == {j.id : j \in job} IN
              {id \in ids : Cardinality({q \in ids : Before(q, id)}) < MAX_JOBS_PER_PASS}
Batch   == {id \in Pending :
              Cardinality({q \in Pending : Before(q, id)}) < MAX_JOBS_PER_PASS}

StartPass(r) ==
    /\ run[r].pc = "idle" /\ enabled /\ Pending # {}
    /\ run' = [run EXCEPT ![r] = [@ EXCEPT !.pc = "pass", !.batch = Batch]]
    /\ UNCHANGED <<enabled, ledgerVars, queueVars, job, map, erpVars, replaying, budget>>

EndPass(r) ==
    /\ run[r].pc = "pass" /\ run[r].batch = {}
    /\ Abort(r)
    /\ UNCHANGED <<enabled, ledgerVars, queueVars, job, map, erpVars, replaying, budget>>


\* The dep gate: every listed dep exists and is SYNCED.
DepsSynced(j) == \A id \in j.deps : \E d \in job : d.id = id /\ d.status = "SYNCED"
Ready(j)      == j.status = "PENDING" /\ DepsSynced(j)

\* runOneJob rereads the oldest job of the batch: it throws (and the pass with
\* it) when the row is gone, passes over it, or goes to work on it.
Pick(r) ==
    \E id \in run[r].batch :
        /\ run[r].pc = "pass"
        /\ \A q \in run[r].batch : q = id \/ Before(id, q)
        /\ \/ /\ \A j \in job : j.id # id
              /\ Abort(r)
           \/ /\ \E j \in job : j.id = id /\ ~Ready(j)
              /\ run' = [run EXCEPT ![r].batch = @ \ {id}]
           \/ \E j \in job :
              /\ j.id = id /\ Ready(j)
              /\ run' = [run EXCEPT ![r] = [@ EXCEPT !.pc = "resolve", !.job = j,
                                                     !.batch = run[r].batch \ {id}]]
        /\ UNCHANGED <<enabled, ledgerVars, queueVars, job, map, erpVars, replaying,
                       budget>>

\* resolveMap, for each row the payload needs; a missing one throws.
Resolved(w) == \A p \in Prereq(w) : map[p.src] # NoName

Resolve(r) ==
    /\ run[r].pc = "resolve"
    /\ IF Resolved(Doing(r))
       THEN LET names == {map[p.src] : p \in Prereq(Doing(r))} IN
            run' = [run EXCEPT ![r] = [@ EXCEPT !.pc = "preflight", !.refs = names]]
       ELSE Goto(r, "fail")
    /\ UNCHANGED <<enabled, ledgerVars, queueVars, job, map, erpVars, replaying, budget>>

\* Bug: no lookup before the POST.
PreflightSkipped(r) ==
    /\ run[r].pc = "preflight"
    /\ Goto(r, "post")
    /\ UNCHANGED <<enabled, ledgerVars, queueVars, job, map, erpVars, replaying, budget>>

\* findByGarageosId: a hit is committed as it is, a miss is POSTed.
Preflight(r) ==
    /\ run[r].pc = "preflight"
    /\ Goto(r, IF Doing(r) \in Names THEN "commit" ELSE "post")
    /\ UNCHANGED <<enabled, ledgerVars, queueVars, job, map, erpVars, replaying, budget>>

\* ERPNext may accept an invoice without its deposit, or an advance without
\* its Payment Ledger row; nothing but the read-back tells.
Payload(r, good) == [push |-> Doing(r), refs |-> run[r].refs, ok |-> good]

Post(r, good) ==
    /\ run[r].pc = "post" /\ Doing(r) \notin Names
    /\ IF good THEN UNCHANGED budget
               ELSE /\ Doing(r).op \in {"PUSH_INVOICE", "PUSH_ADVANCE"}
                    /\ Spend("misbook")
    /\ erp' = erp \union {Payload(r, good)}
    /\ Goto(r, "readback")
    /\ UNCHANGED <<enabled, ledgerVars, queueVars, job, map, inflight, replaying>>

\* The unique index on the garageos id refuses a second document.
PostRefused(r) ==
    /\ run[r].pc = "post" /\ Doing(r) \in Names
    /\ Goto(r, "fail")
    /\ UNCHANGED <<enabled, ledgerVars, queueVars, job, map, erpVars, replaying, budget>>

\* Bug: a timeout is taken for an acceptance.
PostLateTrusted(r) ==
    /\ run[r].pc = "post" /\ Spend("late")
    /\ inflight' = inflight \union {Payload(r, TRUE)}
    /\ Goto(r, "commit")
    /\ UNCHANGED <<enabled, ledgerVars, queueVars, job, map, erp, replaying>>

\* Every attempt times out and one of them is still on its way.
PostLate(r) ==
    /\ run[r].pc = "post" /\ Spend("late")
    /\ inflight' = inflight \union {Payload(r, TRUE)}
    /\ Goto(r, "fail")
    /\ UNCHANGED <<enabled, ledgerVars, queueVars, job, map, erp, replaying>>

\* ERPNext serves it in the end, or refuses it like any other duplicate.
Land(d) ==
    /\ inflight' = inflight \ {d}
    /\ erp' = IF d.push \in Names THEN erp ELSE erp \union {d}
    /\ UNCHANGED <<enabled, ledgerVars, queueVars, job, run, map, replaying, budget>>

ReadBack(r) ==
    /\ run[r].pc = "readback"
    /\ \E d \in erp : d.push = Doing(r) /\ Goto(r, IF d.ok THEN "commit" ELSE "fail")
    /\ UNCHANGED <<enabled, ledgerVars, queueVars, job, map, erpVars, replaying, budget>>

\* A GET or a POST that answers with an error three times, a query that fails.
Fault(r) ==
    /\ run[r].pc \in {"resolve", "preflight", "post", "readback", "commit"}
    /\ Spend("fault")
    /\ Goto(r, "fail")
    /\ UNCHANGED <<enabled, ledgerVars, queueVars, job, map, erpVars, replaying>>

\* Bug: the status is written before the map row, outside a transaction.
CommitStatusFirst(r) ==
    /\ run[r].pc = "commit"
    /\ \/ \E j \in Mine(r) : /\ j.status # "SYNCED"
                            /\ job' = Updated(j.id, "SYNCED", j.attempts + 1)
                            /\ UNCHANGED <<map, run>>
       \/ \E j \in Mine(r) : /\ j.status = "SYNCED"
                            /\ map' = [map EXCEPT ![Doing(r).src] = Doing(r)]
                            /\ NextJob(r) /\ UNCHANGED job
    /\ UNCHANGED <<enabled, ledgerVars, queueVars, erpVars, replaying, budget>>

\* The one transaction that records the name and the SYNCED status.
Commit(r) ==
    /\ run[r].pc = "commit"
    /\ \/ \E j \in Mine(r) :
          /\ map' = [map EXCEPT ![Doing(r).src] = Doing(r)]
          /\ job' = Updated(j.id, "SYNCED", j.attempts + 1)
          /\ NextJob(r)
       \/ Mine(r) = {} /\ Goto(r, "fail") /\ UNCHANGED <<map, job>>
    /\ UNCHANGED <<enabled, ledgerVars, queueVars, erpVars, replaying, budget>>

\* The catch block writes the verdict from its own snapshot, whatever the row
\* says by now; the write throws, and the pass with it, when the row is gone.
RecordFailure(r) ==
    /\ run[r].pc = "fail"
    /\ LET n == run[r].job.attempts + 1 IN
       job' = Updated(run[r].job.id, IF n >= MAX_ATTEMPTS_BEFORE_DEAD_LETTER
                                     THEN "DEAD_LETTER" ELSE "FAILED", n)
    /\ IF Mine(r) = {} THEN Abort(r) ELSE NextJob(r)
    /\ UNCHANGED <<enabled, ledgerVars, queueVars, map, erpVars, replaying, budget>>

\* The function is killed; a POST it was sending may arrive later.
RunnerCrash(r) ==
    /\ run[r].pc # "idle"
    /\ Abort(r)
    /\ \/ Spend("crash") /\ UNCHANGED inflight
       \/ /\ run[r].pc = "post" /\ Spend("late")
          /\ inflight' = inflight \union {Payload(r, TRUE)}
    /\ UNCHANGED <<enabled, ledgerVars, queueVars, job, map, erp, replaying>>

-----------------------------------------------------------------------------
Init ==
    /\ owner \in [Vehicles -> Customers] /\ delivered = {}
    /\ enabled = FALSE /\ cursor = {} /\ floor = 0
    /\ clock = 0 /\ ledger = {} /\ open = {}
    /\ tail = [t \in Tailers |-> {}] /\ job = {} /\ pass = 0
    /\ run = [r \in Runners |-> Idle]
    /\ map = [s \in Sources |-> NoName] /\ erp = {} /\ inflight = {}
    /\ replaying = [y \in Taps |-> NoReplay] /\ budget \in Budgets

LedgerNext ==
    \/ \E w \in LedgerPushes : BeginPost(w)
    \/ \E row \in open : CommitPost(row)
    \/ \E i \in Invoices : Deliver(i) \/ Reissue(i)
    \/ \E v \in Vehicles, c \in Customers : TransferVehicle(v, c)

OwnerNext ==
    \/ \E n \in 0..clock : n <= LatestStart /\ Enable(n)
    \/ Disable
    \/ Reset
    \/ \E y \in Taps : ReplayWrite(y) \/ \E j \in job : ReplayRead(y, j)

\* What a pass does when nothing kills it.
TailerStep(t) == TailRead(t) \/ TailCommit(t) \/ TailThrow(t)
RunnerStep(r) == \/ StartPass(r) \/ Pick(r) \/ EndPass(r)
                 \/ Resolve(r) \/ Preflight(r) \/ Post(r, TRUE) \/ PostRefused(r)
                 \/ ReadBack(r) \/ Commit(r) \/ RecordFailure(r)

SyncNext ==
    \/ \E t \in Tailers : TailerStep(t) \/ TailCrash(t)
    \/ \E r \in Runners : \/ RunnerStep(r) \/ Post(r, FALSE) \/ PostLate(r)
                          \/ Fault(r) \/ RunnerCrash(r)
    \/ \E d \in inflight : Land(d)

Next == LedgerNext \/ OwnerNext \/ SyncNext

Spec == Init /\ [][Next]_vars

\* The workflow runs both routes every five minutes, for as long as it takes.
Scheduled == /\ \A t \in Tailers : WF_vars(TailerStep(t))
             /\ \A r \in Runners : WF_vars(RunnerStep(r))

FairSpec == Spec /\ Scheduled

-----------------------------------------------------------------------------
(* Properties.                                                             *)

PCs  == {"idle", "pass", "resolve", "preflight", "post", "readback", "commit", "fail"}
RunStates == [pc: PCs, batch: SUBSET JobIds, job: JobRows \union {NoJob},
              refs: SUBSET Pushes]
Rows == [push: LedgerPushes, at: Nat]
Documents == [push: Pushes, refs: SUBSET Pushes, ok: BOOLEAN]

\* Every variable has its type; a pass that works on a job has the job's row.
TypeOK ==
    /\ owner \in [Vehicles -> Customers] /\ delivered \subseteq Invoices
    /\ enabled \in BOOLEAN /\ cursor \subseteq Nat
    /\ clock \in Nat /\ pass \in Nat /\ floor \in Nat
    /\ ledger \subseteq Rows /\ open \subseteq Rows
    /\ tail \in [Tailers -> SUBSET Rows]
    /\ job \subseteq JobRows
    /\ run \in [Runners -> RunStates]
    /\ \A r \in Runners : run[r].pc \notin {"idle", "pass"} => run[r].job \in JobRows
    /\ map \in [Sources -> Pushes \union {NoName}]
    /\ erp \subseteq Documents /\ inflight \subseteq Documents
    /\ replaying \in [Taps -> [job: JobRows \union {NoJob}, late: BOOLEAN]]
    /\ budget \in [BudgetKeys -> Nat]

\* A job is SYNCED only if ERPNext holds its document and ErpEntityMap a name
\* for its source, whichever passes died or overlapped in between: the map row
\* and the status are one transaction (runner.ts, "the load-bearing commit").
SyncedMeansRecorded ==
    \A j \in job : j.status = "SYNCED" => /\ j.id.push \in Names
                                          /\ map[j.id.push.src] # NoName

\* No document, held by ERPNext or still on its way to it, refers to one that
\* ERPNext does not hold, and each refers to a customer unless it is one.
NoDanglingReference ==
    \A d \in erp \union inflight :
        /\ d.refs \subseteq Names
        /\ d.push.op = "PUSH_CUSTOMER" \/ \E p \in d.refs : p.op = "PUSH_CUSTOMER"

\* Every ledger row between the start of the sync and the cursor has its job,
\* whatever passes overlap, die between reading and committing, or are reset.
NoEventLost ==
    \A row \in ledger, n \in cursor : floor < row.at /\ row.at <= n => Has(row.push)

\* A window the tailer has read can be enqueued: a payment or a void never
\* meets a queue without its invoice (tailer.ts, "INVOICE writes always
\* precede PAYMENT/VOID temporally").
TailerNeverStuck == \A t \in Tailers : Resolvable(tail[t])

\* The rows of the invoice stand before a payment's or a void's, after the start.
AfterInvoice(row) == \E q \in ledger : /\ q.push = InvoicePush(row.push)
                                  /\ floor < q.at /\ q.at < row.at

\* Where INVOICE writes do precede PAYMENT/VOID, the rest of that comment holds: "the
\* invoice job is enqueued earlier in the same pass OR in a prior pass", whatever
\* passes overlap, die or are reset.  Only a payment or void that stands before its
\* invoice's rows (an unsent correction, an edit after it), or whose invoice stands
\* before the start of the sync (a late start, a reset), makes resolveDeps throw.
StuckOnlyByDisorder ==
    \A t \in Tailers : \A row \in tail[t] :
        NeedsInvoice(row.push) /\ AfterInvoice(row) => FindsInvoice(tail[t], row)

\* A SYNCED job stays SYNCED (runner.ts, "Race: another runner picked it up.
\* Treat as no-op"; erp-sync.ts, "SYNCED is history"), but for the write of a tap
\* of the replay button that was late: another tap put the job back after it read.
SyncedIsFinal ==
    [][\A j \in job : j.status = "SYNCED" =>
            \/ \E k \in job' : k.id = j.id /\ k.status = "SYNCED"
            \/ \E y \in Taps : /\ replaying[y].late /\ replaying'[y] = NoReplay
                              /\ replaying[y].job.id = j.id]_vars

\* A payment or void out of order, still to be read, whose invoice has no job: the
\* tailer throws on it in every pass and its cursor stands.
TailerHeld == \E row \in ledger : /\ NeedsInvoice(row.push) /\ ~AfterInvoice(row)
                                  /\ ~Has(InvoicePush(row.push))
                                  /\ \A n \in cursor : n < row.at

\* A document posted since the sync started is SYNCED in the end, or some push
\* on its way there has FAILED, or a payment or void out of order holds the tailer:
\* passes that die between any two steps, and other documents that fail, hold
\* nothing up.
Chain(w) == {w} \union DependsOn(w) \union UNION {DependsOn(d) : d \in DependsOn(w)}
Settled(w) == \/ \E j \in job : j.id.push = w /\ j.status = "SYNCED"
              \/ \E j \in job : j.id.push \in Chain(w) /\ j.status \in {"FAILED", "DEAD_LETTER"}
EventuallySettled ==
    \A w \in LedgerPushes :
        (\E row \in ledger : row.push = w /\ enabled /\ floor < row.at)
            ~> Settled(w) \/ TailerHeld

\* Until a request or a query fails, no job fails: what a killed pass leaves
\* behind is found by the next one's lookup and never refused as a duplicate.
NoFailureWithoutFault ==
    (\A b \in Budgets : budget["fault"] >= b["fault"]) => \A j \in job : j.status \in {"PENDING", "SYNCED"}

\* ERPNext receives copies of posted documents only, each once, never one
\* before a document it refers to.
Refers(w) == LET customers == [op: {"PUSH_CUSTOMER"}, src: Customers] IN
             CASE w.op = "PUSH_CUSTOMER" -> {{}}
               [] w.op \in {"PUSH_INVOICE", "PUSH_ADVANCE"} -> {{c} : c \in customers}
               [] OTHER -> {{c, InvoicePush(w)} : c \in customers}

Copies == INSTANCE LedgerCopy WITH
              Docs       <- Pushes,
              Standing   <- [op: {"PUSH_CUSTOMER"}, src: Customers],
              MayReferTo <- [w \in Pushes |-> Refers(w)],
              posted     <- [op: {"PUSH_CUSTOMER"}, src: Customers]
                              \union {row.push : row \in ledger},
              copied     <- Names

ImplementsLedgerCopy == Copies!Spec
=============================================================================
