# GarageOS: TLA+ models

GarageOS is a Next.js application over one PostgreSQL database (Prisma), run as serverless functions. Nothing of it keeps state
in memory: every server action, cron route and public link is a short program whose `await`s are database calls or HTTP
requests, any number of them run side by side, and each may be killed between two calls. What is hard in it is therefore what
happens *between* two statements. These models check that.

| module | what it is |
| --- | --- |
| `LedgerCopy` | the abstract promise of the ERPNext sync |
| `ErpSync` | the sync in detail: ledger, tailer, queue, runner, ERPNext, the owner's controls |
| `JobCard` | the statuses of a job card and the pure transition function, shared by the next two |
| `WorkFloor` | job cards, claims and timers of the workshop floor |
| `Findings` | what technicians write down and hand over, and the extras that become a new quote, composed with `WorkFloor` |
| `CardGates` | one card's estimates and part requests, the holds they put on it, and the stock the parts take |
| `Boards` | the buttons, stage and badge the pages make of `CardGates`' card |
| `Invoices` | one card's invoices, payments, advances, voids, corrections and their ledger rows |
| `Payables` | supplier bills, allocated payments, expenses and their ledger rows |
| `Purchasing` | purchase orders, receipts, returns and stock, composed with `Payables` |
| `Intake` | customers, vehicles, plates, bookings and the cards they open |
| `Chat` | WhatsApp: webhook, receptionist, drafts, take-over, and the maintenance reminders, composed with `Intake` |
| `Imports` | the file imports: preview, commit, discard |
| `Books` | the whole ledger over several accounting periods and the reports made of it, on top of `Imports` |
| `ErpSyncProofs`, `FindingsProofs` (the floor's too), `CardGatesProofs`, `InvoicesProofs`, `PurchasingProofs`, `ChatProofs` (the reception's too), `BooksProofs` (the imports' too) | the theorems |
| `SumLemmas` | sums over finite sets, for the totals of the proofs |
| `MCErpSync`, `MCFindings`, `MCCardGates`, `MCInvoices`, `MCPurchasing`, `MCIntake`, `MCBooks` | the instances TLC checks |

To run: `tlc -config Gates.cfg MCCardGates` (and so on, see *Runs*), `tlapm PurchasingProofs.tla` (and so on).

## The system

Every component, its status and its files are in `PROJECT.json`; this is how they fit together.

| component | state | operations | interacts with | modelled in |
| --- | --- | --- | --- | --- |
| Job card state machine | `JobCard.status`, `heldFrom`, `holdReason` | advance, hold, resume, rework, cancel, skip, send for estimate, mark complete, re-estimate, deliver | every other workshop component writes `status` | `JobCard`, `WorkFloor`, `CardGates` |
| Claims and work sessions | `claimedById`, `assignedToId`, `JobHelper`, `WorkSession` | claim, auto-claim, join, leave, release, reassign, start, close, nightly auto-close | reads `status`; closed by status changes | `WorkFloor` (partly) |
| Part requests | `PartRequest.status`, `PartMovement` | request, order, arrive, fit, return, cancel | pauses and resumes the card; moves stock | `CardGates` |
| Technician findings | `JobFinding`, `JobPart`, `workCompletedAt`, `qcAt` | write, submit, add and drop parts, complete, sign off, quote extras, price | claims the card; moves its status; makes estimate lines | `Findings` (partly) |
| Estimates and approvals | `Estimate`, its lines, the public link | create, edit, toggle, send, approve, reject | an answer moves the card; a dearer quote holds it | `CardGates` |
| Invoices, payments, advances | `Invoice`, `Payment`, `AdvancePayment` | generate, top up, edit, send, pay, void, correct | reads approved estimates; writes the ledger | `Invoices` (partly) |
| Ledger | `LedgerEntry` | written by billing, purchasing, expenses, imports | read by reports and by the tailer | each writer's module, and as a whole `Books` |
| Reports and dashboards | none | VAT return, profit and loss, balance sheet, statement of account, ageing, who-owes | read the ledger, invoices, payments, owners | `Books` (partly) |
| ERPNext sync | `ErpSyncJob`, `ErpSyncCursor`, `ErpEntityMap` | enable, disable, tail, run, reset, replay | reads the ledger, calls ERPNext | `ErpSync` |
| Purchase orders and stock | `PurchaseOrder`, lines, `Part`, `PartMovement` | edit, order, receive, return, count, reprice | a receipt opens a bill or fits a job | `Purchasing` (partly) |
| Supplier bills, expenses | `SupplierBill`, `SupplierPayment`, `Expense` | open, pay, void, record | the ledger | `Payables` |
| Intake, vehicles | `Customer`, `Vehicle`, plate history, transfers, `Booking` | reception, booking, confirm, reject, edit | the sync reads a vehicle's owner late | `Intake` (partly) |
| Imports | `LedgerImportBatch` | preview, commit, discard | customers, suppliers, parts, opening balances | `Imports` (partly) |
| Chat, receptionist, WhatsApp | `WhatsAppThread`, `WhatsAppMessage` | receive, answer, draft, approve, discard, take over | Meta; makes customers | `Chat` (partly) |
| Reminders | `Reminder` | schedule, send, cancel | sends to a vehicle's owner | `Chat` |
| Presentation | none | draws a page from one read; its buttons start the requests | reads the card, its estimates, invoices | `Boards` (partly) |
| Settings, authentication, admin | single rows, or none | forms, queries, external calls | | not modelled |

Where it is hard, by kind (`PROJECT.json`, *hazards*, gives each its line):

- *stale reads*: an action reads a row, decides, and writes by id. Only the claim, the part request's advance and a few others
  put their condition into the `UPDATE`.
- *overlapping passes*: two cron routes are called every five minutes by a workflow that does not wait for the last call; nothing
  locks or claims a job.
- *lost answers*: a POST that timed out may have been, or may still be, served.
- *ordering*: `createdAt` is the start of a transaction, visibility its end.
- *death between two statements*: a card written, its timers not yet closed; a document accepted, its name not yet recorded.
- *repeated and swallowed messages*: Meta delivers at least once, and the webhook answers 200 even to what it has failed to handle.

## ErpSync

**What it models.** One garage. The ledger writers of `billing.ts` stamp a row (`BeginPost`) and commit it (`CommitPost`);
an editable invoice is re-booked with new rows (`MayRepost`); `Deliver`, `Reissue` (which takes a void's delivery off its card again) and
`TransferVehicle` are the other events that the sync reads. A payment or void may be written as soon as its invoice is there (`Issued`): one that is generated
has its rows from the start, a correction (`Corrections`, drafts in being from the start) has none until it is first sent.
A tailer pass reads a window (`TailRead`) and commits jobs and cursor in one transaction (`TailCommit`), or throws. A runner pass
reads its batch and picks one job after the other: resolve the references, look the document up (`Preflight`), `Post`, `ReadBack`,
`Commit` the map row and the status, or `RecordFailure`. The owner enables, disables, resets and replays, the replay in its two
statements and by any number of taps at once (`Taps`). ERPNext accepts, refuses, loses the answer (`Post(r, FALSE)`), or serves a POST late (`PostLate`, `Land`).

**How state corresponds.** `job`, `cursor`, `map` are the tables `ErpSyncJob`, `ErpSyncCursor`, `ErpEntityMap`; `ledger` the
committed rows of `LedgerEntry`, `open` those of uncommitted transactions; `tail` and `run` the locals of passes in flight; `erp`
and `inflight` ERPNext's side. `floor` is history: where the owner last told the sync to start; so is `late` in `replaying`: another tap
has put the same job back since this one read it. A row's id says in which pass it
was inserted, so a row deleted by a reset and made again is another row.

**Abstractions.** A document is named by the push that makes it (ERPNext keeps every `garageos_*_id` unique, which
`pushers.ts` relies on: an assumption about the ERPNext site). The two or three ledger rows of a source, written by one statement,
are one row. Amounts are left out: `ok = FALSE` is a document that the read-back would refuse. A retry of a request inside
`client.ts` is a lost answer followed by a refused duplicate (`PostLate`, `Land`, `PostRefused`). `Pick` joins the re-read of the
job and its dep gate. Credentials are there, `ErpSyncCursor` exists when enabled, skipped ops are never queued. Nothing in
the repository sets `invoiceDeliveredAt`; `Deliver` is the environment.

## WorkFloor

**What it models.** The cards of one garage and every way a technician, an advisor, or the owner changes them on the floor. A
request occupies a slot `p`; `req[p]` holds its locals. Status changes are two steps, `Decide` (read and `transition`, `skipTo`,
or a technician's action with its own guard) and `WriteStatus` (`update where id`, with no condition), followed where the code
does so by `CloseRead` and `CloseWrite` (`closeMatchingSessions`). A claim is one conditional update (`Claim`), a second one
(`Promote`), and then the timer: `StartRead`, `StartWrite` (the transaction of `startWorkSession`; READ COMMITTED, so its read may
be overtaken, and the partial unique index `WorkSession_one_open_per_tech` refuses the insert). A logged step's auto-claim reads
first and then updates on condition. `Release` and `Reassign` write and close. The nightly cron reads what is older than twelve
hours and ends it by id. `Kill` and `AutoKill` are a function stopped between two calls, or a best-effort call that failed.

**How state corresponds.** `card[j]` is the `JobCard` row with its `JobHelper` rows; `session` is `WorkSession`, with `end = "OPEN"`
for `endedAt IS NULL`. `old` is the clock: sessions are aged in the order in which they started. `req[p].due` is history: the
timers that were running when request `p` wrote its card.

**Abstractions.** Rows are ended together by a transaction's `CloseWrite`; `endedAt` and the labour cost are left out. Who may
call which action is left out: some advisor and the technicians are always there. The first claims and timers find cards that
the advisor alone has moved (`FirstStatuses`). `markCompleteAction` accepts a card in ESTIMATE whose latest estimate is
approved; estimates are not in the module, so it may always be. `addStepAction` refuses a card held for approval; holds have no
reason here, so it may log a step. Both give the model more behaviours than the code, never fewer.

**Not in it.** What parts, quotes, answers and bills do to a card is in `CardGates`, which has no claims and no timers; the two share
`JobCard`. The auto-claim of a part request has the shape of `LogStepRead`, `AutoClaim`. Findings are in the next module.

## Findings

**What it models.** What a technician writes down about a car, and what the office makes of it: the findings and the parts required,
which are submitted once; the parts used, until the work is marked complete and quality control signs it off; the extras found on
the way, which `sendForReestimateAction` turns into the lines of a new estimate; the price that the office gives a part
(`addLineFromPartAction`), and the line's removal. It extends `WorkFloor`, whose cards and claims it reads and writes: a request is let in by
`Work` (`workableJob`), claims a free card (`ClaimFree`), and then writes; a submission reads (`SubmitRead`), stamps (`SubmitStamp`) and
moves the card (`SubmitAdvance`). `AwaitApproval` is the hold of a dearer quote, on which `workableJob` depends.

**How state corresponds.** `finding[j]` is `JobFinding`, `item[k]` a `JobPart` row with what became of it (`fate`: a deleted row is taken back or
quoted) and its `estimateLineId`; `lines` are the `EstimateLine` rows made from parts, `removed` those deleted since; `repair[j]` is `workCompletedAt`
and `qcAt`; `waiting` the cards whose `holdReason` is AWAITING_APPROVAL; `note[h]` a request's locals.

**Abstractions.** A text is empty or not. Photographs, the check-list and the steps logged with a completion choose no branch. `PriceRead`
is only for parts of the list, as the page offers them. The price's transaction is one step: its line and its link fail together.
`PaperSpec` has the fairness of `WorkFloor!FairSpec`, and every floor step is one of `Next`, so what the floor's theorems say of a
step is said of this module's too.

## CardGates

**What it models.** One job card and all that can stop it: its estimates, whose answers move it and a dearer revision of which
holds it, and its part requests, which hold it until they are closed. Estimates: create (also from a rejected one), the line
actions and toggles with the recomputing of the total (`LineRead`, `LineWrite`, `SumRead`, `TotalWrite`), the staff's status
changes, `send` with its look for a dearer quote, the customer's answer and toggles. Parts: request, advance, cancel, the pause
(`Pause`, `PauseRead`) and the resume (`ResumeRead`, `ResumeCount`, `Resume`). Card: every move of `jobs.ts` and `delivery.ts` as a read and a
later write by id (`DecideRead`, `Write`), and INVOICED (`Bill`). `Kill` stops a request between two calls.

**How state corresponds.** `card` is `JobCard`'s `status`, `heldFrom`, `holdReason`; `est[e]` an `Estimate` with its lines, `approved` its
`approvedAmount`; `pr[q]` and `moved[q]` a `PartRequest` and the sum of its `PartMovement` rows; `shelf` the part's `qtyOnHand`.

**Abstractions.** A line costs one, and an amount is the set of lines it is the sum of, so a total taken from other lines is another
total. Lines without a price (a technician's, until it is priced) are left out. A part request is for one unit of one catalogue
part; requests for parts without an entry move no stock.

## Boards

**What it models.** What the job pages of advisor and technician, the estimate's pages, the cashier's lists and the customer's link make of the
card and its estimates: the step the stepper marks (`Stage`), the badge (`Label`), and the buttons (`OffersCreate`, `OffersSend`,
`OffersSet`, `OffersComplete`, `OffersBill` and the others). `Step` is a step of `CardGates`; where `pages` is TRUE each request starts
at a button of a page drawn just before, which is how people use the program; where it is FALSE it starts anywhere, which is what the server's
checks must stand, and what the other properties of the run are checked under. Nothing of `CardGates` is weakened: `BoardSpec` only restricts where
a request begins.

**What it promises.** `TurnOffered`: whoever's turn the pages show has a button that the server accepts. The pages compute the stage, the
badge and each button from different columns (`card.status`, the newest estimate, any approved estimate, the invoice), so they agree only as
long as the actions keep the columns in step. `rifts` records the six ways in which they come apart (`Brings`), each one needed (without it TLC
finds `TurnOffered` violated): a kill between the answer and the card, an answer overwritten by another, a write from a stale read, a skip past the
approval, a card put to work again when its newest estimate has been billed, and a card sent back to ESTIMATE while its newest estimate is
approved, by REWORK or by the refusal of an older one (which costs the badge only). `TurnsAreOffered` proves that there is no seventh.

**Abstractions.** Before a technician's button a car is claimed, its parts are listed and its work photographed (`WorkFloor`, `Findings`); those
steps are the technician's own and are taken as done. Lists, filters and counts are left out but for the two that lead the cashier to the bill (`Listed`).

## Invoices

**What it models.** The invoices of one card, with the estimates they are made from, as `billing.ts` makes them: generate (with the
migration of advances), top-up, line edits followed by `RecomputeRead` and `RecomputeWrite`, send, payment, advance, void, correction. Each
reads, decides and commits later. A send holds the card's row from its stamp to its commit, and the model has that lock.

**How state corresponds.** `invoice[i]` is the row with the sum of its lines and payments; `ar[i]` what its INVOICE rows have put on the
AR account and its INVOICE_VOID rows taken off; `deposit[a]` what CUSTOMER_DEPOSITS owes for an advance; `seq` is `Garage.invoiceSeq`.

`estimate[e]` says whether it is APPROVED, what its line says (`text`, the description, quantity and price by which a top-up knows it) and whether the line
is taken off. `Approve`, `Decline` and `Toggle` are the writes of `billing.ts:519-552` and 435-449: an approval is taken back, and its total changed, at any time.

**Abstractions.** An estimate is one line, VAT is part of every amount, COGS rows are left out: they are posted and reversed by
the same calls as the AR rows. `Toggle` joins the line's write and the estimate's new total (`CardGates` has them apart). A discount is two calls, as in the code. `Deliver` is external: nothing in the repository sets `invoiceDeliveredAt`, on which three actions depend.

## Purchasing and Payables

**What they model.** `Payables`: supplier bills, payments allocated to several of them, expenses, voids, each a read and then a
transaction. `Purchasing` extends it: order lines, the order's status, receipts (to stock and direct to a job), returns, stock
counts, repricing, and what the counter takes. A receipt's transaction is three steps, because what it reads in between is not locked:
it claims its lines and reads the parts (`Claim`), takes the parts' row locks and reads the order's lines (`Count`), and commits, and
the bill it opens is `Payables!OpenBill` in the same step.

**How state corresponds.** `po`, `line`, `part` are the tables, `line[l].ver` stands for `updatedAt` (the edit's optimistic check), `moved[p]` is the
sum of `PartMovement`, `fitted[l]` that of `JobPartReceipt`; `bill[b]` has the sum of its allocations, `ap` and `cash` are ledger accounts.

**Abstractions.** Prices are left out but for whether a line has one, and for which receipts a part's cost is an average of (that is what
a lost update destroys). A receipt claims all its lines before it counts, and has one line of each part. `setPoStatus` reads
order and lines in one step. The write-back of a direct part's cost into its estimate line, and the bill's subtotal and VAT, are left out.

## Intake

**What it models.** The reception form in its four outcomes (new vehicle, same car and owner, new owner, plate released), whose
lookups precede the transaction; public bookings, their confirmation and rejection; customer edits; plain job cards.
**State.** `phone`, `vehicle`, `history` (open `VehiclePlateHistory` rows), `transfer`, `card`, `jobSeq`, `booking` are the tables; `vehicle[v].first` is
history, the customer it was put on file for. Phones are unique (the schema's `@@unique([garageId, phone])`), plates are not. The form normalises a plate, the booking page
keeps it as typed (`Typed`, which may be no plate of the form's). A booking is three steps: the look-ups, the vehicle, the booking.
**Abstractions.** Other values are normalised already; photographs, text
recognition, drafts and the description of the vehicle choose no branch.

## Chat

**What it models.** A webhook call brings one or more messages; each is taken through `FindCustomer`, `CreateCustomer`, `OpenThread`, `Seen`,
`Record`, and then what the receptionist does about it (`Plan`): answer, draft with a holding text, or hand over. Advisors take a
thread over or release it, approve (send, then delete) or discard a draft, write themselves. Reminders are scheduled after a look for one that is due, sent and then
marked, cancelled on condition. Any call may fail, with the text gone or not (`PostFails`), or be the last of its request (`KillChat`). Meta may bring any payload again.
It extends `Intake` because they share `Customer`: a booking and a message may both make one, an edit changes the number that is written to.

**How state corresponds.** `wa` is `Customer.waId`, `thread` is `WhatsAppThread`, `inbox` the IN rows of `WhatsAppMessage`, `draft` those that are
PENDING_APPROVAL, `reminder` is `Reminder`; `posted` counts what has gone to Meta; `talk` holds a request's locals, the calls it has yet to make among them.

**Abstractions.** A text has a route and is or is not in a clear language; reminders have one type, and due dates are a filter of the page. OUT rows are left
out, no guard reads them. The messages that billing, jobs and delivery send have the shape of `Manual`. A draft is approved with its blanks filled in.

## Imports

**What it models.** A batch is previewed, then committed (tables loaded once, rows written one by one, status, refused rows) or
discarded; the server may stop a commit between any two rows, and it may then be run again. **State.** `batch` with its rows and errors, and
the four tables written. **Abstractions.** A row is what it is matched by; parsing and preview counts are left out. The two calls of an opening balance are one step.

## Books

**What it models.** What an accountant sees. Every request that writes the ledger is one step here (its interleavings are in `Invoices`, `Payables`
and `Imports`), and carries what those leave out: VAT, revenue, cost of sales, input VAT, the emirate, and the accounting period `now` that the row
is dated in. The reports are operators over the tables: `VatSummary`, `Pnl`, `Statements`, `CustomerStatement`, `UnpaidAging`, `WhoOwes`.
**How state corresponds.** A member of `ledger` is the rows of one `createMany`, `rows[a]` their debit less their credit; `inv[i].cost` is what the
PART lines' `unitCost` add up to, `None` if one has none; `card` has the two stamps on which editing and voiding depend; `owner` is
`Vehicle.customerId`. **Abstractions.** An invoice is one amount before VAT; the ledger is a set, so two equal postings would be one: sources
keep them apart. Opening balances are dated before the first period's end. `FlipCogs` and `Deliver` are external: nothing in the repository sets
`Garage.cogsEnabled` or `invoiceDeliveredAt`. **Why one step each is enough.** The properties are about sequences over periods (edit after
payment, void after the year-end, move of the garage, correction of a correction), which an interleaving would not add to.

### Histories

`slips`, `overtaken`, `unwound`, `lapses` and `past` are history variables. The code takes few locks, so some races do part its documents. A write decided on
a read that is no longer true notes the row it landed on, and a property then excuses that row by the name of the race, and only it.
So each property says *which* overtaken write is the only way to break it; the mutants show that any other way is found.

## Runs

Every budget and scenario is an operator of the MC module, with a comment. Safety runs use symmetry where rows or slots are
interchangeable, liveness runs never. `CHECK_DEADLOCK FALSE` is set throughout: documents, requests and timers are bounded, and once they
are used up the real system rests as well.

| run | instance | shows |
| --- | --- | --- |
| `erp_runners` | invoice, payment, customer; 2 runner passes, 1 tailer; kill, fault, late POST, misbooking, reset, void, disable; the invoice may be an unsent correction; batch 1 of 2 | a SYNCED job has its document and its name; nothing dangles; `LedgerCopy` is implemented |
| `erp_tailers` | 2 tailer passes, 2 customers; kill, reset, edit, void, reissue, transfer, disable/enable with any `startAt` up to 1; a payment or void before the invoice is sent | no event between start and cursor is lost; the tailer throws only on a payment or void without its invoice's rows between the start and it |
| `erp_served` | invoice (perhaps an unsent correction), payment, advance; one pass each, 2 taps; 2 kills, or a kill and a fault, a void or an edit; fairness | every posted document is settled, unless a payment or void out of order holds the tailer; a kill alone fails no job; SYNCED is final but for a tap that another overtook |
| `floor` | 2 cards, a TECH and a MASTER, 2 requests at a time on the floor and 2 at the papers: 8 scenarios of the floor alone, 8 of papers on 5 more, with up to 3 parts and 2 new estimates; fairness | one claimer, one open timer each, a closer stops every timer, every timer ends; what is handed over stands; a part is on one line, and no extra is lost |
| `gates` | 1 card, 2 estimates, 2 lines, 2 part requests, 2 requests at a time, 20 scenarios, each from anywhere and from the pages' buttons | totals are sums; answers stand; stock moves once; each hold is let go by what it waits for; a closed card stays closed to the floor; whoever's turn the pages show has a button for it |
| `invoices` | 2 estimates, worded alike or not, 3 invoices, 2 advances, 2 requests at a time, 13 scenarios, 3 of them with approvals or lines taken back | ledger, deposits, payments and numbers follow the documents; nothing is billed twice |
| `purchasing` | 2 orders for one part, 1 direct line, 2 requests, 2 desks, 9 scenarios | stock, lines, statuses, costs, bills and books agree |
| `intake` | 2 owners with a car each, a third phone, 3 messages in 5 payloads, 2 reminders, 2 requests at a time, 15 scenarios: reception alone, chat alone, one of each | a plate is on one vehicle; transfers chain; cards and bookings are accounted for; no message is lost, or answered twice, and no reminder is sent twice (`NothingLostOrTwice`) |
| `books` | 2 files of 2 rows of every kind, 2 requests, 5 scenarios; and 2 jobs, 2 invoices, 2 advances, 2 papers, 2 periods, 7 workloads | no second opening balance; every row is answered (`ImportedOnce`); the reports agree with the documents and with each other; a void undoes its sale; a closed period keeps its returns |
| `erp_late_row` | 2 open ledger transactions | `NoEventLost` fails |
| `erp_stuck` | a reset after an invoice | `TailerNeverStuck` fails |
| `gates_bypass` | a part on order and a dearer revision | `NoWorkBeforeReapproval` fails |

*Why the bounds are enough.* A race in this code is between two programs and at most one event of the environment: two requests or
passes at a time cover it, and the theorems cover any number of either. A third request in a row is in the scenarios where a state is
only reached by three (create, send, answer). Two lines distinguish a sum from a part of it; two estimates are an approved
one and its revision; two part requests are the one that resumes and the one that should prevent it; three invoices are one, its
correction and the correction's correction. Batches of 1 and 2 make a pass end with jobs left over, and two attempts reach FAILED and
DEAD_LETTER.

*Preconditions.* `NoEventLost` holds in its passing run because that leaves out one thing, and `erp_late_row` adds it back: two ledger
transactions open at once (`MaxOpenTxns = 1`). That the tailer never throws (`TailerNeverStuck`) is what its comment expects and what the code does not give: `erp_stuck` shows it
with a reset, and the passing runs have the other causes too, so they check what is left. `StuckOnlyByDisorder` says that only a payment or void
without its invoice's rows between the start of the sync and it makes the tailer throw: after a reset or a late start (*Stuck*), for a correction paid or voided before it
is sent (*Unsent correction*), or after an edit (*Edited*). `EventuallySettled` excuses the documents behind such a row (`TailerHeld`); without that excuse it fails in
`erp_served`. `SyncedIsFinal` is checked with one
runner pass (see *Overlap* below); it excuses the write of an overtaken tap and nothing else (*Double tap*). `NoFailureWithoutFault` speaks of the states in which no failure has happened yet; the kill is there,
in the same scenario. `EventuallySettled` needs a batch larger than the jobs that one FAILED job can keep waiting: with a batch of 2
and an invoice, its payment and its void it fails; with the code's 100 a pass it takes 100 of them (see *Starved* below).

### Fairness

`ErpSync!FairSpec`: weak fairness of each pass. `.github/workflows/erp-tailer.yml` calls both routes every five minutes, and each
step of a pass is the next statement of running code; no fairness on the owner, the ledger, faults, or a served late POST.
`WorkFloor!FairSpec` and `PaperSpec`: time passes, and the cron of `vercel.json` runs every night and goes on with what it has read (its kills are
budgeted, as in `erp_served`). People owe nothing: no request need ever be made, and a request once begun may stall.

### Where code and documentation disagree

The first three are violation runs, quoted in `PROJECT.json`, *findings*; the others are certain rather than racy, or are excused by name
in a property, and are recorded here.

- *Late row.* A ledger row stamped before and committed after the rows of a pass is behind the cursor and never read (`tailer.ts:100`).
- *Stuck.* A reset between an invoice and its payment deletes the invoice's job; the payment's row then throws on every pass.
- *Bypass.* A dearer quote sent while the card waits for a part does not hold it, and the part's arrival puts it back to work.
- *Unsent correction.* `tailer.ts:232-238` says that an INVOICE's rows precede a payment's or void's because these "require an existing invoice". A correction exists
  without rows until its first send (`billing.ts:1755-1790`), while `recordPaymentAction` (1876-1929) and `voidInvoiceAction` (2097-2153) look at no rows: pay it, or
  void it once its card is marked delivered, before it is sent, and the tailer throws on that row in every pass. Everything behind it waits; a reset skips it.
- *Double tap.* `replayErpSyncJobAction` (`erp-sync.ts:72-94`) reads FAILED and then writes PENDING without a condition: of two taps, the second may
  write over the SYNCED of the runner pass in between, although 134 counts SYNCED among what "is history". The next pass finds the document and repairs it.
- *Overlap.* `runner.ts:191` treats another pass's work as a no-op when it picks a job, but its catch block (303) writes FAILED without
  looking: of two passes that POST the same job, the refused one demotes what the other has just SYNCED. A replay repairs it.
- *Starved.* `runner.ts:1-2` "picks PENDING ErpSyncJob rows whose dependencies are SYNCED", but `pickPendingJobs` takes the oldest PENDING
  ones and the dependencies are looked at afterwards: 100 jobs behind one FAILED invoice take up every pass.
- *Misbooked.* A document that fails its read-back stays in ERPNext; the retry's look-up finds it (`pushers.ts:274`) and commits SYNCED
  unread, while `ERPNEXT_SYNC_BRIEF.md` says "a 200 response is not success".
- *Edited.* `billing.ts:1377` says that edits are only legal "before any payment"; nothing prevents one after a payment, and it re-creates
  the invoice's ledger rows with a later date than the payment's (1379). A tailer window that ends between the two throws.
- *Orphan timer.* A start checked before a cancellation (`jobs.ts:126`) and inserted after it runs on a cancelled card until the night.
- *Reopened.* An estimate's approval takes a CANCELLED card out of it (`billing.ts:525-534`, `public.ts:33-38`), and HOLD accepts a DELIVERED one
  (`jobcard-status.ts:271-274`), while `jobs.ts:473` says "Already terminal — nothing to do". `ClosedToTheFloor` names both.
- *VIN shortcut.* `intake-moulkia.ts:586-589` writes the form's plate on a vehicle found by its VIN without asking, although 470 says it
  "leaves the existing plate alone". `PlatesOnOneVehicle` names it `vin`.
- *Half an import.* A batch whose commit was killed halfway is still a DRAFT and can be discarded; `schema.prisma:2217` says of that
  "nothing written".
- *Taken back.* `setEstimateStatusAction` (`billing.ts:519-552`) takes an approval back from an estimate whatever hangs on it, and `toggleEstimateLineAction` (435-449)
  takes a line off one that is approved. Advances up to the ceiling, then either of these, then the bill: the invoice is overpaid from the start, with nobody overlapping
  anybody (`PaymentsFit` names it `shrunk`). Decline the estimate that the invoice is linked to and bill another approved one: 988 looks for an invoice among the approved
  estimates only, so the card gets a second invoice, although the comment above it wants one (`DocumentsInOrder` and `BilledOnce` name it `turned`; so does an approval
  that makes a request to bill link to another estimate than the one it read).
- *Alike.* A top-up knows a line by its text, quantity and price (`billing.ts:1005-1008`): a second estimate's line that is the like of one on the
  invoice is taken for billed and is never charged. No property speaks of what is not billed.
- *Void and paid.* `recordPayment` looks at no status: a void invoice can be paid, and becomes PAID (`ghost` in `Invoices`). A correction clears
  `invoiceDeliveredAt` and with it makes the void one editable. A top-up re-adds a line that the cashier has repriced. `generate`
  writes INVOICED from any status. An invoice can be edited below what has been paid (`billing.ts:1375-1378`).

- *Handed over and taken back.* A hand-over sets NEEDS_HUMAN, and where the language is unclear the draft that follows it sets OPEN again
  (`receptionist-engine.ts:145-148`, `178`), so the list that is to show the thread first does not.
- *Swallowed.* `route.ts:99` answers 200 whatever happened ("never trigger Meta retries"): what a failure left unhandled, and the messages after it
  in the payload, do not come again. `NoMessageLost`, a part of `NothingLostOrTwice`, names it `failed`, `killed`, `raced`.
- *Who owes.* `owner-dashboard.ts:207-209` says of the ledger's and the invoices' sum "If the invoice-side sum disagrees, THAT is the bug"; `whoOwes`
  (`owner-metrics.ts:149`) lists VOID invoices as owed, and misses a PAID invoice that was edited upwards. `StatementsMatchLedger` leaves both out.
- *Cost lost.* A void reverses the invoice's cost, but its correction never gets one: `reissueInvoiceAction` copies the lines without `unitCost`
  (2317-2326) and the posting at the first send (1781) has no cost rows.
- *Dated twice.* An edit deletes the INVOICE rows and writes new ones, dated now (1380-1391): a closed period loses the sale. `ClosedPeriodsStand`
  names it, and the invoice's cost rows besides: they move alone
  when `cogsEnabled` was off during the edit before. The month's tiles of the owner's dashboard sum one column of an account, so voids never reduce them.
- *Ghosts.* `recomputeInvoice` and `recordPayment` look at no status, and a correction clears `invoiceDeliveredAt`, so the void invoice can
  be edited and paid: `ghosts` in `Books`.
- *Void before posting.* A correction gets its ledger rows when it is first sent, and `voidInvoiceAction` looks at the card's delivery, which
  another invoice of the card may have brought about: then the void reverses rows that were never posted. `BooksFollowInvoice` speaks
  of cards with one invoice made from estimates (`Single`), where a delivery is of an invoice that was sent.
- *Two on one car.* The auto-claim of `techfindings.ts` looks at no count: of two technicians who write on a free card at once one gets it, and the
  other's text and parts are written all the same.
- *Quoted twice.* `sendForReestimateAction` reads the extras before its transaction: two at once put each extra on two estimates, and an extra
  taken back meanwhile is still quoted. "Price this part" pressed twice leaves a line with no part behind it. `QuotedOnce` names both by `past`.
- *Changed after hand-over.* `assertNotSubmitted` and `assertRepairOpen` are reads: a request let in before a submission or a completion still
  changes, or empties, what was handed over. `HandoverStands` excuses that one and no other.
- *Stranded.* A card whose customer has answered is left at EXTRA_WORK_AWAITING_APPROVAL when the request dies between the two writes, or when a hold
  decided before the answer is written after it and then resumed. The stepper says APPROVAL, no page asks anyone, and only CANCEL is left.
  `workflow-stage.ts:83-91` and the technician's banner (305-312) guard against the same rift at ESTIMATE only. `TurnOffered` names it `killed`, `stale`.
- *Two answers.* Staff and customer answer at once, one APPROVED and one REJECTED: the card may end APPROVED with its estimate REJECTED, at
  which the technician is offered no Mark Complete. `TurnOffered` names it `crossed`.
- *Sent back.* REWORK from REPAIR gives the badge "estimate under process" while the newest estimate is APPROVED, for which no page offers pricing.
- *Made twice.* Two taps on "Set price" leave two estimates (`cashier/page.tsx:918-922` knows "a stale empty DRAFT left over from a double-tap"). The
  newer one is approved, the older one's link still answers, and its refusal sends the card back to ESTIMATE: *Sent back*. `TurnOffered` names both `back`.
- *Taken up again.* Staff approve one estimate twice, and the second approval's card write comes after the bill; or extra work of a card that has an invoice is
  refused. The card is at work again and gets completed, but its newest approved estimate is billed and its card has an invoice, so no list of the cashier
  leads to a bill that can still be made. `TurnOffered` names it `again`.
- *Listed twice.* `cashier/page.tsx` says of "Coming up" that it is one list by job id; a card of extra work whose quote is SENT is in two of its
  buckets. Its "to invoice" rows link to `estimates[0]`, its "approved" rows to the approved one (918-925): `ListedNewest` shows what would be lost.
- *Old number.* A customer's edit corrects `phone`, but sends go to `waId ?? phone` (`reminders.ts:74`): whoever has a `waId` is still
  written to at the old number.

## Proofs

All proofs are for every value of the constants, from the named assumption of each module alone (`ErpSyncAssumption`,
`WorkFloorAssumption`, `FindingsAssumption`, `CardGatesAssumption`, `InvoicesAssumption`, `PayablesAssumption`,
`PurchasingAssumption`, `IntakeAssumption`, `ChatAssumption`, `ImportsAssumption`, `BooksAssumption`, `BoardsAssumption`: the kinds of ids do not overlap, functions have their domains, bounds are naturals; a reminder
is no text and the null no mode of a chat; what is
summed over, `Lines`, `Ests`, `Advs`, `Invs`, `Customers` and `Emirates`, is finite; amounts are naturals; a card to start from in `CardGates` has estimates that add up and no part request to wait
for, and for `Boards` has come to where it is by its estimates (`Fits`: work is approved, extra work is quoted); the rows to start from in `Intake` have unique phones and plates, and owners who are on file). Nothing is assumed about
how many passes, taps, slots, cards, faults or documents there are. Four theorems of `ErpSync` have a hypothesis on the constants besides, which says
what the property needs; it is named in the theorem, and its instances are the passing runs'.

**ErpSync.** `TypeCorrect`. `SoundAlways`: the inductive invariant `Sound`. That a SYNCED job has its document and its name
(`SyncedIsRecorded`) is not inductive by itself: the commit trusts what a pass has seen several steps before. `Sound` adds what makes
that trust justified: names in the map are of documents ERPNext holds (`MapFaithful`); a document's references are there
(`NoDanglingReference`, `ErpGrounded`); a pass past its look-ups carries references that are there, and one about to commit has its
document there (`Underway`); whatever is queued, under way or in flight stems from the ledger (`FromLedger`). It is stable because
what ERPNext holds only grows. `NothingDangles` is a conjunct. `CopiesTheLedger`: `Spec => ImplementsLedgerCopy`, each step a
`Post`, a `Copy` or a stutter of `LedgerCopy`, with `posted` the committed ledger's documents and the customers, and `copied` ERPNext's.

`NoEventIsLost` (`MaxOpenTxns <= 1`). "Every row behind the cursor has its job" is not inductive: a pass commits a window that it read long ago. `WindowsWhole`
says of each window in hand that a row at or before its last one is in it or has its job, and `Orderly` that the open transaction's row is
later than all that is committed, in a window or behind the cursor. That is where the hypothesis is needed, and `erp_late_row` shows that it is.
`TailerGetsThrough` (the same hypothesis, and no other: resets, edits, reissues and late starts are all there) proves `StuckOnlyByDisorder`: where the invoice's row does stand
before the payment's, after the start, `WindowsWhole` has it in the window or queued. `SyncedStaysSynced` (`OneRunner`, any number of taps): the job a pass has in hand is PENDING
in the table and its id is never given again (`Exclusive`); a job that a tap has in hand, and no other tap has put back, is still FAILED, for only a
tap makes it PENDING again. With two passes it fails (*Overlap* above). `NoJobFailsByItself` (`Quiet`: one runner, and nothing late, misbooked, transferred or
reset) needs `Smooth`: the job in hand is still there and all its references have names, since each job waits for what it refers to; a document that was sent and not
recorded is sound, so the next look-up finds it. A transfer changes the customer an invoice's look-up asks for after its jobs were made, a
reset takes the job away: the hypothesis names just what fails a job.

**WorkFloor** (in `FindingsProofs`). `TypeCorrect`. `ClaimsAreExclusive` (`Spec => ClaimIsExclusive`) follows from types: each step that sets a claim
re-tests it in its update. `TimersTracked`: the inductive invariant `TimerInv`. One open row for each technician
(`OneCarAtATime`) needs the uniqueness of ids, because rows are ended by id. `StopsTimers` (`Spec => StopsEveryTimer`) needs of every
closer that the timers it is to stop are on its card, and after its read that it has in hand each one that still runs (`Tracked`); no
other step opens a row again, and a new row has a new id (`Kept`).

**Findings.** `PapersInvariance`: the inductive invariant `BothInv`, the floor's and the papers' together. The floor's half carries over: a step
of the papers changes no timer and no request of the floor (`Gentle`), or it is a hold that closes like a release (`AwaitHolds`); so the
run's three floor properties are theorems of `PaperSpec` too (`PapersClaims`, `PapersOneOpen`, `PapersStopTimers`). `EachPartQuotedOnce`
needs of every part what became of it (`ItemOK`): an extra on the list is on no line, a link points to a line that is there, and a line
has a number no earlier one had. `HandedOverStands` needs what a request may rely on after its read (`NoteOK`): the parts it names are
the card's and of its kind for ever (`Later`), so whatever it removes it was refused for, or is in `past`.

**Payables and Purchasing.** `Invariance`: the inductive invariant `Inv`, of which five named properties are parts or consequences.
Stock (`StockIsAccountedFor`) and lines (`LinesStayWithinBounds`) are not inductive by themselves: an edit may replace a line that has
received nothing, and only a draft may be edited, so `DraftsUntouched` says that a draft has received nothing unless an overtaken write is on
record; and a receipt commits quantities it claimed two steps before, so `RequestsFit` says what of its reading still holds: the lines it
claimed are its own (two receipts in flight share none, by the row locks), what a return has read was there, and a count knows
whether the part has moved since. `TypeCorrect` includes that stock is never negative, which the code gets from a conditional update.
`OrdersTellReceipts` is about sums over an order's lines: `ReceiptsLand` (a part's movements are the sum of what its lines brought), `StatusFitsLines`, and of what
is in flight that a receipt claims one line of each part and only of its order (`FormsFit`). `CostsKeepTheirReceipts` goes by the one
step that averages (`Commit`): what it read is what it replaces, or the two receipts are on record. For bills the module proves `BillsFitTheirPayments` from the re-check inside the transaction, `BooksMatch` from the fact that each document's rows are
written with it; Purchasing's own steps leave Payables' variables alone or open one bill.

**Sums.** `SumFunctionOnSet` is defined by recursion, and induction is out of the prover's reach. `SumLemmas` gets what is needed (a sum takes out an
element, follows a change at one, is monotone) by contradiction instead: strict inclusion among the subsets of a finite set is well founded, so
there would be a smallest subset that the fact fails for.

**CardGates.** `GatesInvariance`: the inductive invariant `IInv`, from which all six properties of the run follow. What a request has read is
never looked at again by the code, so `RowOK` says of its locals alone what its next call may rely on: the customer's answer was let in for a
SENT estimate, a pause for a card that could be paused, a resume for one held for parts, an office move of a closed card can only be the hold of
a delivered one. Because it speaks of locals, no other request can break it. `SumOK` and `HoldOK` are the promises with the name of
whoever is about to make good for them: an estimate's total is the sum of its lines or a `recomputeEstimate` is under way (`Summing`); a card
held for parts has an open one or somebody is awake to let it go (`Waking`). `StockIsMovedOnce` needs only that a claimed transition is one of
`TRANSITIONS`. `AnswersStand`, `ApprovalHoldsStand` and `ClosedCardsStay` go by the few steps that write a card or a status
(`CardWriters`, `StatusWriters`).

**Boards** (in `CardGatesProofs`). `TurnsAreOffered` (`BoardSpec => []TurnOffered`) is about a card at rest; the inductive invariant `BoardInv` beside `IInv` is about
all that lies between. Wherever the card is, or is held from (`Place`): at work something is approved (`WorkOK`), extra work has its newest estimate open or an
answer on its way (`QuoteOK`), at work after a bill there is one more to write (`DueOK`), and what is being quoted is not approved
unless the approval is on its way to the card (`BadgeOK`, `ApproveOK`). A step that tears nothing apart (`Tame`) keeps approvals approved and writes the card it
read, so most steps leave `Place` alone (`HoldsStay`, `WriteStays`). That Place is also right under a hold is what makes it inductive. The proof does not use where
requests begin: what keeps a turn from being lost are the server's checks, not that stale buttons are rarely pressed. Looking for the invariant showed that the property as it was
first checked failed beyond the bounds of its run (*Made twice*, *Taken up again*), and that an answer given while another is on its way needs no excuse; the
scenarios of the run now have both cases.

**Invoices.** `InvoicesInvariance`: the inductive invariant `IInv`. One live invoice is not inductive by itself. That a card has one invoice made from
estimates is `Primary`: while no approval was turned, that invoice's estimate is approved, and each request to bill will link its own to the oldest approved one,
which is the same and has an invoice by then, so the unique link refuses it. A correction is made long after
its void was read, so `Succession` says that the invoices of a card are a chain (one was made from estimates, a void has at most one
correction, whatever has a successor is void), and `RequestOK` what of a request's reading still holds. That an estimate has one invoice and a void one correction needs no excuse. `BooksFollow` needs `LedgerOK`: the
ledger has an invoice's total except for a correction not yet posted, and a card that is marked sent has no such correction, nor has a
request that is about to void it; finding that invariant is what showed that the send's stamp and its posting are one transaction, and that a
second invoice can defeat it. `WorkBilledOnce` needs that estimates' lines are only on the invoice made from estimates, and that a top-up
still adds lines that are not there (`LinesOnce`). `DepositsFollow` and the gapless numbers are inductive with the rows' shape (`RowsOK`).
`PaymentsAlwaysFit` is `MoneyInv`: a payment in flight fits what it saw of the invoice (`PaysWithin`), and until there is an invoice the advances stay within
what is approved and offered (`AdvancesFit`), which is what makes a generated invoice cover the advances that it turns into payments. An approval or a line taken back
leaves that alone or is on record as `shrunk`.

**Intake** (in `ChatProofs`). `ReceptionHolds`: the inductive invariant `IInv`, for receptions beside any chats and edits. Plates are looked up before the
transaction, so `ReceptionOK` says what of the look-up still holds at the write: the vehicle it was decided on is on file, and is the only one with that
plate, unless the plate is excused by the name of what overlapped. A vehicle's transfers lead from the customer it was put on file for to its owner; a move that was not written down, or
from somebody else, would break the chain at its end. `PlatesStayOnOneVehicle`, `TransfersAlwaysChain` and `CardsAlwaysAccountedFor`
are its conjuncts; a step of the chat leaves the desk's tables alone, but for the customer it may make.

**Chat.** `ChatHolds`: the inductive invariant `ChatOK`, beside the reception's `IInv` (a reminder is sent to the owner of a vehicle). That nothing is lost
or said twice (`NothingIsLostOrTwice`) is not inductive: it says nothing of messages still in a payload and of texts still to be said. `Shape`
says what a request is from the calls it has left: it prepares an answer, or has the receptionist's plan, which owes each text once, or
is about one draft or one reminder, or writes, or schedules. On that, each text, vehicle and message has its part. `TextOK`: at most one request owes
a text, and while it does the text is neither out nor a draft, and what it depends on is on record; unless something excused it by name, a text was posted once at
most and one approval at most is about it. `ReminderOK`: a reminder is SENT, or about to be, only by the request that posts it. `VehicleOK`: a vehicle has one reminder
that is due or about to be, unless two requests about it met. `MessageOK`: a message that was delivered is
on record or still in some payload, and one on record in a chat that was the receptionist's is answered or somebody owes the answer. Because these speak of who owes what, a step of
one request leaves all other requests' parts alone, and the proof has one lemma for each step.

**Imports** (in `BooksProofs`). `ImportsOnce` (`Spec => []ImportedOnce`) is about a batch that is committed, killed, committed again and overlapped. A
commit decides from tables it loaded once, so the inductive invariant `ImportInv` says what of them is still so (`KnownOK`: rows are only added, so what is
known is on file), that a row before the one a commit is at has landed or is to be reported (`DoneOK`), that one commit of each
kind works at a time unless the overlap is on record (`Alone`), and that a COMMITTED batch has an answer for each row (`AnsweredOK`). `ImportsOnceAtWork` says the
same of `BooksSpec`, beside everything else that writes the ledger.

**Books.** `BooksKept`: the inductive invariant `BooksInv`, with `ImportInv`. Every report is a sum over a set of postings, so the invariant pins down the
postings: each balances, is dated by now and names the document it was written for (`PostingOK`), and each document has its own once and with the
amounts it has now: an invoice (`SaleOK`, `CostOK`), its void (`VoidOK`), its payments, cash or migrated advance (`PaysOK`),
an advance (`AdvanceOK`). `VoidsUndoSales` is then a sum of two postings. `StatementsMatch` takes a customer's
receivables apart into those of their invoices, and each of these into sale, void and payments, by `SumLemmas` (sums over a partition, of a
sum of two functions). `ReportsAlwaysAddUp` goes by `Net`: a sum of postings that balance balances, and the three reports differ only in
which accounts they read. `PeriodsOverStand` needs no such sums: no step but an edit writes a posting dated otherwise than now or
removes one (`WritesNow`), and the returns of a period are a function of the postings dated in it and of two columns of the
documents created in it, which no step writes again (`OfPeriods`); opening balances, which are older, touch no account of those returns.
Proving it corrected the property: it excused an edit of a closed period's INVOICE rows alone, and its cost rows may be the only ones there
(*Dated twice*). `Load7` now has that case.

**Only model-checked.** Liveness (`EventuallySettled`, `EveryTimerEnds`), which TLAPS does not reach here.

## Not modelled

Authentication and access control, admin, onboarding and subscription, OCR and AI (external services
whose answers are out of a model's reach), settings, photographs, profit by part and the dashboards' single tiles, uploads,
tokens: sequential code over single rows, or no state at all. Pages, components and translations are more than half of the
lines of the repository and hold no state; of them `Boards` has the buttons of a job. `PROJECT.json` names the files and the reason for each.

What a next step would add: the direct part's cost write-back, and the lists of the other pages.
