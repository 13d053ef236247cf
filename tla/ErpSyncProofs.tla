--------------------------- MODULE ErpSyncProofs ---------------------------
(* Safety of ErpSync, proved for every value of its constants.             *)
EXTENDS ErpSync, FiniteSetTheorems, WellFoundedInduction, TLAPS

(***************************************************************************)
(* Facts about the operators.                                              *)
(***************************************************************************)

\* The push a ledger push refers to, and the customer, are pushes.
LEMMA PrereqType ==
    ASSUME TypeOK, NEW w \in Pushes
    PROVE  Prereq(w) \subseteq Pushes
<1> USE ErpSyncAssumption DEF Pushes, LedgerPushes, Push
<1>1. CASE w.op = "PUSH_CUSTOMER"
  BY <1>1 DEF Prereq
<1>2. CASE w.op \in {"PUSH_INVOICE", "PUSH_ADVANCE"}
  BY <1>2 DEF Prereq, CustomerPush, InvoiceFor, TypeOK
<1>3. CASE w.op \in {"PUSH_PAYMENT", "PUSH_VOID"}
  BY <1>3 DEF Prereq, CustomerPush, InvoicePush, InvoiceFor, TypeOK
<1> QED BY <1>1, <1>2, <1>3

LEMMA DependsOnType ==
    ASSUME TypeOK, NEW w \in Pushes
    PROVE  DependsOn(w) \subseteq Pushes
<1>1. CASE w.op \in {"PUSH_PAYMENT", "PUSH_VOID"}
  BY <1>1, ErpSyncAssumption DEF DependsOn, NeedsInvoice, InvoicePush, InvoiceFor, Pushes,
     LedgerPushes, Push
<1>2. CASE w.op \notin {"PUSH_PAYMENT", "PUSH_VOID"}
  BY <1>2, PrereqType DEF DependsOn, NeedsInvoice
<1> QED BY <1>1, <1>2

\* A budget stays a budget when one of its keys is spent.
LEMMA SpendType ==
    ASSUME budget \in [BudgetKeys -> Nat], NEW k \in BudgetKeys, Spend(k)
    PROVE  budget' \in [BudgetKeys -> Nat]
BY DEF Spend

\* An update of one job row leaves a table of job rows.
LEMMA UpdatedType ==
    ASSUME job \subseteq JobRows, NEW id, NEW st \in Statuses, NEW n \in Nat
    PROVE  Updated(id, st, n) \subseteq JobRows
BY DEF Updated, JobRows

\* The steps of a runner's control keep its local state in type.
LEMMA GotoType ==
    ASSUME run \in [Runners -> RunStates], NEW r \in Runners, NEW pc \in PCs, Goto(r, pc)
    PROVE  run' \in [Runners -> RunStates]
BY DEF Goto, RunStates

LEMMA NextJobType ==
    ASSUME run \in [Runners -> RunStates], NEW r \in Runners, NextJob(r)
    PROVE  run' \in [Runners -> RunStates]
BY DEF NextJob, RunStates, PCs

LEMMA AbortType ==
    ASSUME run \in [Runners -> RunStates], NEW r \in Runners, Abort(r)
    PROVE  run' \in [Runners -> RunStates]
BY DEF Abort, Idle, RunStates, PCs

\* The jobs a window asks for are job rows.
LEMMA NewJobsType ==
    ASSUME TypeOK, NEW rows \in SUBSET Rows
    PROVE  NewJobs(rows) \subseteq JobRows
<1>1. \A row \in rows, w \in Pushes : NewId(row, w) \in JobIds
  BY DEF NewId, JobIds, Rows, TypeOK
<1>2. \A w \in Pushes : IdsOf(rows, w) \subseteq JobIds
  BY <1>1 DEF IdsOf, TypeOK, JobRows
<1> QED BY <1>1, <1>2, DependsOnType DEF NewJobs, JobRows, Statuses

(***************************************************************************)
(* Type correctness, one lemma for each group of actions.                  *)
(***************************************************************************)

LEMMA TypeInit == Init => TypeOK
<1> SUFFICES ASSUME Init PROVE TypeOK
  OBVIOUS
<1>1. Idle \in RunStates /\ Idle.pc = "idle"
  BY DEF Idle, RunStates, PCs
<1> QED BY <1>1, ErpSyncAssumption DEF Init, TypeOK, NoReplay

LEMMA TypeLedger ==
    ASSUME TypeOK, LedgerNext
    PROVE  TypeOK'
<1> USE DEF TypeOK, ledgerVars, queueVars, erpVars
<1>1. ASSUME NEW w \in LedgerPushes, BeginPost(w) PROVE TypeOK'
  <2>1. budget' \in [BudgetKeys -> Nat]
    BY <1>1, SpendType DEF BeginPost, MayRepost, BudgetKeys
  <2>2. [push |-> w, at |-> clock + 1] \in Rows
    BY DEF Rows
  <2> QED BY <1>1, <2>1, <2>2 DEF BeginPost
<1>2. ASSUME NEW row \in open, CommitPost(row) PROVE TypeOK'
  BY <1>2 DEF CommitPost
<1>3. ASSUME NEW i \in Invoices, Deliver(i) \/ Reissue(i) PROVE TypeOK'
  BY <1>3, SpendType DEF Deliver, Reissue, BudgetKeys
<1>4. ASSUME NEW v \in Vehicles, NEW c \in Customers, TransferVehicle(v, c) PROVE TypeOK'
  BY <1>4, SpendType DEF TransferVehicle, BudgetKeys
<1> QED BY <1>1, <1>2, <1>3, <1>4 DEF LedgerNext

LEMMA TypeOwner ==
    ASSUME TypeOK, OwnerNext
    PROVE  TypeOK'
<1> USE DEF TypeOK, ledgerVars, queueVars, erpVars
<1>1. ASSUME NEW n \in 0..clock, Enable(n) PROVE TypeOK'
  <2>1. n \in Nat
    OBVIOUS
  <2>2. cursor' \subseteq Nat /\ floor' \in Nat
    BY <1>1, <2>1 DEF Enable
  <2> QED BY <1>1, <2>2 DEF Enable
<1>2. ASSUME Disable PROVE TypeOK'
  BY <1>2, SpendType DEF Disable, BudgetKeys
<1>3. ASSUME Reset PROVE TypeOK'
  BY <1>3, SpendType DEF Reset, BudgetKeys
<1>4. ASSUME NEW y \in Taps, NEW j \in job, ReplayRead(y, j) PROVE TypeOK'
  BY <1>4 DEF ReplayRead
<1>5. ASSUME NEW y \in Taps, ReplayWrite(y) PROVE TypeOK'
  <2>1. job' \subseteq JobRows
    BY <1>5, UpdatedType DEF ReplayWrite, Statuses
  <2>2. replaying' \in [Taps -> [job: JobRows \union {NoJob}, late: BOOLEAN]]
    BY <1>5 DEF ReplayWrite, NoReplay
  <2> QED BY <1>5, <2>1, <2>2 DEF ReplayWrite
<1> QED BY <1>1, <1>2, <1>3, <1>4, <1>5 DEF OwnerNext

LEMMA TypeTailer ==
    ASSUME TypeOK, NEW t \in Tailers, TailerStep(t) \/ TailCrash(t)
    PROVE  TypeOK'
<1> USE DEF TypeOK, ledgerVars, queueVars, erpVars
<1>1. CASE TailRead(t)
  BY <1>1 DEF TailRead, Window, NewRows
<1>2. CASE TailCommit(t)
  <2>1. tail[t] \in SUBSET Rows
    OBVIOUS
  <2>2. job' \subseteq JobRows
    BY <1>2, <2>1, NewJobsType DEF TailCommit
  <2>3. cursor' \subseteq Nat /\ pass' \in Nat
    BY <1>2, <2>1 DEF TailCommit, Rows
  <2> QED BY <1>2, <2>2, <2>3 DEF TailCommit
<1>3. CASE TailThrow(t)
  BY <1>3 DEF TailThrow, TailEnds
<1>4. CASE TailCrash(t)
  BY <1>4, SpendType DEF TailCrash, TailEnds, BudgetKeys
<1> QED BY <1>1, <1>2, <1>3, <1>4 DEF TailerStep

\* The part of TypeOK about the runner passes, on its own.
RunOK == /\ run \in [Runners -> RunStates]
         /\ \A r \in Runners : run[r].pc \notin {"idle", "pass"} => run[r].job \in JobRows

\* A job in hand stays in hand while the pass works on it, and is let go after.
LEMMA ControlType ==
    ASSUME RunOK, NEW r \in Runners,
           \/ Abort(r)
           \/ NextJob(r)
           \/ \E pc \in PCs : Goto(r, pc) /\ run[r].job \in JobRows
    PROVE  RunOK'
<1>1. CASE Abort(r)
  <2>1. run' \in [Runners -> RunStates]
    BY <1>1, AbortType DEF RunOK
  <2>2. \A q \in Runners : run'[q].pc \notin {"idle", "pass"} => run'[q].job \in JobRows
    BY <1>1 DEF RunOK, Abort, Idle
  <2> QED BY <2>1, <2>2 DEF RunOK
<1>2. CASE NextJob(r)
  <2>1. run' \in [Runners -> RunStates]
    BY <1>2, NextJobType DEF RunOK
  <2>2. \A q \in Runners : run'[q].pc \notin {"idle", "pass"} => run'[q].job \in JobRows
    BY <1>2 DEF RunOK, NextJob, RunStates
  <2> QED BY <2>1, <2>2 DEF RunOK
<1>3. CASE \E pc \in PCs : Goto(r, pc) /\ run[r].job \in JobRows
  <2>1. run' \in [Runners -> RunStates]
    BY <1>3, GotoType DEF RunOK
  <2>2. \A q \in Runners : run'[q].pc \notin {"idle", "pass"} => run'[q].job \in JobRows
    BY <1>3 DEF RunOK, Goto, RunStates
  <2> QED BY <2>1, <2>2 DEF RunOK
<1> QED BY <1>1, <1>2, <1>3

LEMMA TypeRunner ==
    ASSUME TypeOK, NEW r \in Runners,
           \/ RunnerStep(r) \/ Post(r, FALSE) \/ PostLate(r) \/ Fault(r) \/ RunnerCrash(r)
    PROVE  TypeOK'
<1> USE DEF ledgerVars, queueVars, erpVars
<1>0. RunOK /\ run[r] \in RunStates
  BY DEF TypeOK, RunOK
<1>a. (run[r].pc \notin {"idle", "pass"}) => run[r].job \in JobRows /\ Doing(r) \in Pushes
  BY <1>0 DEF RunOK, Doing, JobRows, JobIds
<1>b. \A good \in BOOLEAN : run[r].pc = "post" => Payload(r, good) \in Documents
  BY <1>0, <1>a DEF Payload, Documents, RunStates
<1>1. CASE StartPass(r)
  <2>1. Batch \subseteq JobIds
    BY DEF Batch, Pending, TypeOK, JobRows
  <2>2. RunOK'
    BY <1>0, <1>1, <2>1 DEF StartPass, RunOK, RunStates, PCs
  <2> QED BY <1>1, <2>2 DEF StartPass, RunOK, TypeOK
<1>2. CASE Pick(r)
  <2>1. RunOK'
    <3>1. PICK id \in run[r].batch :
             \/ Abort(r)
             \/ run' = [run EXCEPT ![r].batch = @ \ {id}] /\ run[r].pc = "pass"
             \/ \E j \in job : run' = [run EXCEPT ![r] =
                    [@ EXCEPT !.pc = "resolve", !.job = j, !.batch = run[r].batch \ {id}]]
      BY <1>2 DEF Pick
    <3>2. CASE Abort(r)
      BY <3>2, <1>0, ControlType
    <3>3. CASE run' = [run EXCEPT ![r].batch = @ \ {id}] /\ run[r].pc = "pass"
      BY <3>3, <1>0 DEF RunOK, RunStates
    <3>4. ASSUME NEW j \in job, run' = [run EXCEPT ![r] =
                    [@ EXCEPT !.pc = "resolve", !.job = j, !.batch = run[r].batch \ {id}]]
          PROVE  RunOK'
      <4>1. j \in JobRows
        BY DEF TypeOK
      <4> DEFINE new == [run[r] EXCEPT !.pc = "resolve", !.job = j,
                                       !.batch = run[r].batch \ {id}]
      <4>2. new \in RunStates /\ new.job = j
        BY <4>1, <1>0 DEF RunStates, PCs
      <4>3. run' = [run EXCEPT ![r] = new]
        BY <3>4
      <4> HIDE DEF new
      <4> QED BY <4>1, <4>2, <4>3, <1>0 DEF RunOK
    <3> QED BY <3>1, <3>2, <3>3, <3>4
  <2> QED BY <1>2, <2>1 DEF Pick, RunOK, TypeOK
<1>3. CASE EndPass(r)
  BY <1>0, <1>3, ControlType DEF EndPass, RunOK, TypeOK
<1>4. CASE Resolve(r)
  <2>1. CASE Resolved(Doing(r))
    <3> DEFINE names == {map[p.src] : p \in Prereq(Doing(r))}
    <3>1. Prereq(Doing(r)) \subseteq Pushes
      BY <1>4, <1>a, PrereqType DEF Resolve
    <3>2. \A p \in Pushes : p.src \in Sources
      BY DEF Pushes, LedgerPushes, Sources
    <3>3. names \subseteq Pushes
      BY <2>1, <3>1, <3>2 DEF Resolved, TypeOK
    <3>4. run' = [run EXCEPT ![r] = [@ EXCEPT !.pc = "preflight", !.refs = names]]
      BY <1>4, <2>1 DEF Resolve
    <3>5. RunOK'
      BY <1>0, <1>4, <1>a, <3>3, <3>4 DEF RunOK, Resolve, RunStates, PCs
    <3> QED BY <1>4, <3>5 DEF Resolve, RunOK, TypeOK
  <2>2. CASE ~Resolved(Doing(r))
    BY <1>0, <1>4, <1>a, <2>2, ControlType DEF Resolve, PCs, RunOK, TypeOK
  <2> QED BY <2>1, <2>2
<1>5. CASE Preflight(r)
  BY <1>0, <1>5, <1>a, ControlType DEF Preflight, PCs, RunOK, TypeOK
<1>6. ASSUME NEW good \in BOOLEAN, Post(r, good) PROVE TypeOK'
  <2>1. budget' \in [BudgetKeys -> Nat]
    BY <1>6, SpendType DEF Post, BudgetKeys, TypeOK
  <2>2. RunOK'
    BY <1>0, <1>6, <1>a, ControlType DEF Post, PCs
  <2> QED BY <1>6, <1>b, <2>1, <2>2 DEF Post, RunOK, TypeOK
<1>7. CASE PostRefused(r)
  BY <1>0, <1>7, <1>a, ControlType DEF PostRefused, PCs, RunOK, TypeOK
<1>8. CASE ReadBack(r)
  <2>1. RunOK'
    BY <1>0, <1>8, <1>a, ControlType DEF ReadBack, PCs
  <2> QED BY <1>8, <2>1 DEF ReadBack, RunOK, TypeOK
<1>9. CASE Commit(r)
  <2>1. RunOK'
    BY <1>0, <1>9, <1>a, ControlType DEF Commit, PCs
  <2>2. job' \subseteq JobRows /\ map' \in [Sources -> Pushes \union {NoName}]
    <3>1. CASE UNCHANGED <<map, job>>
      BY <3>1 DEF TypeOK
    <3>2. ASSUME NEW j \in Mine(r), map' = [map EXCEPT ![Doing(r).src] = Doing(r)],
                 job' = Updated(j.id, "SYNCED", j.attempts + 1)
          PROVE  job' \subseteq JobRows /\ map' \in [Sources -> Pushes \union {NoName}]
      <4>1. j.attempts + 1 \in Nat
        BY DEF Mine, TypeOK, JobRows
      <4>2. job' \subseteq JobRows
        BY <3>2, <4>1, UpdatedType DEF TypeOK, Statuses
      <4> QED BY <3>2, <4>2, <1>9, <1>a DEF Commit, TypeOK
    <3> QED BY <1>9, <3>1, <3>2 DEF Commit
  <2> QED BY <1>9, <2>1, <2>2 DEF Commit, RunOK, TypeOK
<1>10. CASE RecordFailure(r)
  <2>1. RunOK'
    BY <1>0, <1>10, ControlType DEF RecordFailure
  <2>2. job' \subseteq JobRows
    <3>1. run[r].job.attempts + 1 \in Nat
      BY <1>10, <1>a DEF RecordFailure, JobRows
    <3> QED BY <1>10, <3>1, UpdatedType DEF RecordFailure, TypeOK, Statuses
  <2> QED BY <1>10, <2>1, <2>2 DEF RecordFailure, RunOK, TypeOK
<1>11. CASE PostLate(r)
  <2>1. RunOK' /\ budget' \in [BudgetKeys -> Nat]
    BY <1>0, <1>11, <1>a, ControlType, SpendType DEF PostLate, PCs, BudgetKeys, TypeOK
  <2> QED BY <1>11, <1>b, <2>1 DEF PostLate, RunOK, TypeOK
<1>12. CASE Fault(r)
  <2>1. RunOK' /\ budget' \in [BudgetKeys -> Nat]
    BY <1>0, <1>12, <1>a, ControlType, SpendType DEF Fault, PCs, BudgetKeys, TypeOK
  <2> QED BY <1>12, <2>1 DEF Fault, RunOK, TypeOK
<1>13. CASE RunnerCrash(r)
  <2>1. RunOK' /\ budget' \in [BudgetKeys -> Nat]
    BY <1>0, <1>13, ControlType, SpendType DEF RunnerCrash, BudgetKeys, TypeOK
  <2>2. inflight' \subseteq Documents
    <3>1. CASE UNCHANGED inflight
      BY <3>1 DEF TypeOK
    <3>2. CASE run[r].pc = "post" /\ inflight' = inflight \union {Payload(r, TRUE)}
      BY <3>2, <1>b DEF TypeOK
    <3> QED BY <1>13, <3>1, <3>2 DEF RunnerCrash
  <2> QED BY <1>13, <2>1, <2>2 DEF RunnerCrash, RunOK, TypeOK
<1> QED BY <1>1, <1>2, <1>3, <1>4, <1>5, <1>6, <1>7, <1>8, <1>9, <1>10, <1>11, <1>12,
           <1>13 DEF RunnerStep

LEMMA TypeStep == TypeOK /\ [Next]_vars => TypeOK'
<1> SUFFICES ASSUME TypeOK, [Next]_vars PROVE TypeOK'
  OBVIOUS
<1>1. CASE LedgerNext
  BY <1>1, TypeLedger
<1>2. CASE OwnerNext
  BY <1>2, TypeOwner
<1>3. CASE SyncNext
  <2>1. ASSUME NEW d \in inflight, Land(d) PROVE TypeOK'
    BY <2>1 DEF Land, TypeOK, ledgerVars, queueVars
  <2> QED BY <1>3, <2>1, TypeTailer, TypeRunner DEF SyncNext
<1>4. CASE UNCHANGED vars
  BY <1>4 DEF vars, ledgerVars, queueVars, erpVars, TypeOK
<1> QED BY <1>1, <1>2, <1>3, <1>4 DEF Next

\* Every variable has its type in every reachable state, for any number of
\* garages' worth of documents, passes, faults and interventions.
THEOREM TypeCorrect == Spec => []TypeOK
BY TypeInit, TypeStep, PTL DEF Spec

(***************************************************************************)
(* The inductive invariant.  A document is grounded when ERPNext holds one *)
(* of the sets of documents it may refer to; a push is held when GarageOS  *)
(* holds its document.                                                     *)
(***************************************************************************)

Grounded(w) == \E refs \in Refers(w) : refs \subseteq Names
Held(w)     == w.op = "PUSH_CUSTOMER" \/ Posted(w)
IsCustomer(w) == w.op = "PUSH_CUSTOMER"

\* A recorded name is the name of a document of that source, and ERPNext has it.
MapFaithful ==
    \A s \in Sources : map[s] # NoName => map[s].src = s /\ map[s] \in Names

\* What ERPNext holds or is about to receive could be built from what it holds.
ErpGrounded == \A d \in erp \union inflight : Grounded(d.push)

\* A pass between the resolve and the POST has a payload whose references are
\* there; past the POST or the hit, the document is there.
Underway ==
    \A r \in Runners :
        /\ run[r].pc \in {"preflight", "post"} =>
              /\ Grounded(Doing(r))
              /\ run[r].refs \subseteq Names
              /\ IsCustomer(Doing(r)) \/ \E p \in run[r].refs : IsCustomer(p)
        /\ run[r].pc \in {"readback", "commit"} => Doing(r) \in Names

\* The queue, the windows, the jobs in hand and the POSTs under way stem from
\* rows of the ledger.
FromLedger ==
    /\ \A t \in Tailers : \A row \in tail[t] : Posted(row.push)
    /\ \A j \in job : Held(j.id.push)
    /\ \A r \in Runners : run[r].pc \notin {"idle", "pass"} => Held(Doing(r))
    /\ \A d \in inflight : Held(d.push)

Sound == /\ TypeOK /\ MapFaithful /\ SyncedMeansRecorded
         /\ NoDanglingReference /\ ErpGrounded /\ Underway /\ FromLedger

LEMMA SoundInit == Init => Sound
<1> SUFFICES ASSUME Init PROVE Sound
  OBVIOUS
<1>1. \A r \in Runners : run[r].pc = "idle"
  BY DEF Init, Idle
<1>2. MapFaithful /\ SyncedMeansRecorded /\ NoDanglingReference /\ ErpGrounded
  BY DEF Init, MapFaithful, SyncedMeansRecorded, NoDanglingReference, ErpGrounded
<1>3. Underway /\ FromLedger
  BY <1>1 DEF Init, Underway, FromLedger
<1> QED BY <1>2, <1>3, TypeInit DEF Sound

(***************************************************************************)
(* What ERPNext holds only grows, and with it what is grounded.            *)
(***************************************************************************)

LEMMA NamesGrow == ASSUME erp \subseteq erp' PROVE Names \subseteq Names'
BY DEF Names

LEMMA GroundedGrows ==
    ASSUME NEW w, erp \subseteq erp', Grounded(w)
    PROVE  Grounded(w)'
BY NamesGrow DEF Grounded, Refers, InvoicePush, InvoiceFor, Push

\* An update of a job changes no push, and no status but to the one written.
LEMMA UpdatedRows ==
    ASSUME TypeOK, NEW id, NEW st, NEW n
    PROVE  \A k \in Updated(id, st, n) : \E j \in job :
               k.id = j.id /\ (k.status = j.status \/ (j.id = id /\ k.status = st))
<1>1. job \subseteq JobRows
  BY DEF TypeOK
<1>2. ASSUME NEW j \in job, NEW k,
             k = IF j.id = id THEN [j EXCEPT !.status = st, !.attempts = n] ELSE j
      PROVE  k.id = j.id /\ (k.status = j.status \/ (j.id = id /\ k.status = st))
  BY <1>1, <1>2 DEF JobRows
<1> QED BY <1>2 DEF Updated

\* The records of what is SYNCED survive when no name changes and no job
\* becomes SYNCED.
LEMMA RecordsStay ==
    ASSUME MapFaithful, SyncedMeansRecorded, erp \subseteq erp', UNCHANGED map,
           \A k \in job' : k.status = "SYNCED" =>
               \E j \in job : j.id.push = k.id.push /\ j.status = "SYNCED"
    PROVE  MapFaithful' /\ SyncedMeansRecorded'
BY NamesGrow DEF MapFaithful, SyncedMeansRecorded

\* Documents stay sound when the only new one is the payload of a pass at its POST.
LEMMA DocumentsStay ==
    ASSUME Sound, NEW r \in Runners, erp \subseteq erp',
           \A d \in erp' \union inflight' :
               \/ d \in erp \union inflight
               \/ run[r].pc = "post" /\ \E good \in BOOLEAN : d = Payload(r, good)
    PROVE  NoDanglingReference' /\ ErpGrounded'
<1>1. ASSUME NEW d \in erp \union inflight
      PROVE  /\ d.refs \subseteq Names' /\ Grounded(d.push)'
             /\ IsCustomer(d.push) \/ \E p \in d.refs : IsCustomer(p)
  BY NamesGrow, GroundedGrows DEF Sound, NoDanglingReference, ErpGrounded, IsCustomer
<1>2. ASSUME run[r].pc = "post", NEW good \in BOOLEAN, NEW d, d = Payload(r, good)
      PROVE  /\ d.refs \subseteq Names' /\ Grounded(d.push)'
             /\ IsCustomer(d.push) \/ \E p \in d.refs : IsCustomer(p)
  BY <1>2, NamesGrow, GroundedGrows DEF Sound, Underway, Payload
<1> QED BY <1>1, <1>2 DEF NoDanglingReference, ErpGrounded, IsCustomer

\* Underway need only be looked at for the pass that moves.
LEMMA UnderwayStays ==
    ASSUME Underway, NEW r \in Runners, erp \subseteq erp',
           \A q \in Runners \ {r} : run'[q] = run[q],
           run'[r].pc \in {"preflight", "post"} =>
              /\ Grounded(Doing(r))'
              /\ run'[r].refs \subseteq Names'
              /\ IsCustomer(Doing(r)') \/ \E p \in run'[r].refs : IsCustomer(p),
           run'[r].pc \in {"readback", "commit"} => (Doing(r) \in Names)'
    PROVE  Underway'
<1>1. ASSUME NEW q \in Runners \ {r}
      PROVE  /\ run'[q].pc \in {"preflight", "post"} =>
                   /\ Grounded(Doing(q))'
                   /\ run'[q].refs \subseteq Names'
                   /\ IsCustomer(Doing(q)') \/ \E p \in run'[q].refs : IsCustomer(p)
             /\ run'[q].pc \in {"readback", "commit"} => (Doing(q) \in Names)'
  <2>1. Doing(q)' = Doing(q)
    BY DEF Doing
  <2> QED BY <2>1, NamesGrow, GroundedGrows DEF Underway, Grounded
<1> QED BY <1>1 DEF Underway, IsCustomer

\* FromLedger likewise, and the queue gains no push from a runner.
LEMMA FromLedgerStays ==
    ASSUME FromLedger, NEW r \in Runners, UNCHANGED <<ledger, tail>>,
           \A q \in Runners \ {r} : run'[q] = run[q],
           run'[r].pc \notin {"idle", "pass"} =>
              \/ run[r].pc \notin {"idle", "pass"} /\ run'[r].job = run[r].job
              \/ run'[r].job \in job,
           \A k \in job' : \E j \in job : k.id.push = j.id.push,
           \A d \in inflight' :
              \/ d \in inflight
              \/ run[r].pc = "post" /\ d.push = Doing(r)
    PROVE  FromLedger'
<1>1. \A w : Held(w) => Held(w)'
  BY DEF Held, Posted
<1>2. \A q \in Runners : run'[q].pc \notin {"idle", "pass"} => Held(Doing(q))'
  BY <1>1 DEF FromLedger, Doing, Held, Posted
<1> QED BY <1>1, <1>2 DEF FromLedger, Held, Posted

(***************************************************************************)
(* The steps.  A step of the ledger, the owner or a tailer leaves ERPNext, *)
(* the names and the runners alone.                                        *)
(***************************************************************************)

LEMMA SoundAside ==
    ASSUME Sound, TypeOK', UNCHANGED <<map, run, erp, inflight>>,
           \A w : Posted(w) => Posted(w)',
           \A t \in Tailers : \A row \in tail'[t] : Posted(row.push)',
           \A k \in job' : \/ k.status # "SYNCED" /\ Held(k.id.push)'
                           \/ \E j \in job : /\ k.id.push = j.id.push
                                             /\ k.status = "SYNCED" => j.status = "SYNCED"
    PROVE  Sound'
<1>1. \A w : Held(w) => Held(w)'
  BY DEF Held
<1>2. MapFaithful' /\ SyncedMeansRecorded'
  BY RecordsStay DEF Sound
<1>3. NoDanglingReference' /\ ErpGrounded'
  BY NamesGrow, GroundedGrows DEF Sound, NoDanglingReference, ErpGrounded
<1>4. Underway'
  <2>1. \A r \in Runners : Doing(r)' = Doing(r)
    BY DEF Doing
  <2> QED BY <2>1, NamesGrow, GroundedGrows DEF Sound, Underway
<1>5. FromLedger'
  BY <1>1 DEF Sound, FromLedger, Doing
<1> QED BY <1>2, <1>3, <1>4, <1>5 DEF Sound

LEMMA SoundLedger ==
    ASSUME Sound, TypeOK', LedgerNext
    PROVE  Sound'
<1> USE DEF ledgerVars, queueVars, erpVars
<1>1. UNCHANGED <<map, run, erp, inflight, tail, job>>
  BY DEF LedgerNext, BeginPost, CommitPost, Deliver, Reissue, TransferVehicle
<1>2. ASSUME NEW w, Posted(w) PROVE Posted(w)'
  <2>1. ledger' = ledger \/ \E row \in open : CommitPost(row)
    BY DEF LedgerNext, BeginPost, Deliver, Reissue, TransferVehicle
  <2> QED BY <1>2, <2>1 DEF CommitPost, Posted
<1> QED BY <1>1, <1>2, SoundAside DEF Sound, FromLedger

LEMMA SoundOwner ==
    ASSUME Sound, TypeOK', OwnerNext
    PROVE  Sound'
<1> USE DEF ledgerVars, queueVars, erpVars
<1>1. UNCHANGED <<map, run, erp, inflight, tail, ledger>>
  BY DEF OwnerNext, Enable, Disable, Reset, ReplayRead, ReplayWrite
<1>2. ASSUME NEW k \in job'
      PROVE  \E j \in job : k.id.push = j.id.push /\ (k.status = "SYNCED" => j.status = "SYNCED")
  <2>1. CASE job' \subseteq job
    BY <1>2, <2>1
  <2>2. ASSUME NEW y \in Taps, ReplayWrite(y)
        PROVE  \E j \in job : k.id.push = j.id.push /\ (k.status = "SYNCED" => j.status = "SYNCED")
    <3>1. k \in Updated(replaying[y].job.id, "PENDING", 0)
      BY <1>2, <2>2 DEF ReplayWrite
    <3>2. PICK j \in job : k.id = j.id /\ (k.status = j.status \/ k.status = "PENDING")
      BY <3>1, UpdatedRows DEF Sound
    <3> QED BY <3>2
  <2> QED BY <2>1, <2>2 DEF OwnerNext, Enable, Disable, Reset, ReplayRead
<1> QED BY <1>1, <1>2, SoundAside DEF Sound, FromLedger, Posted

\* The jobs of a window of posted rows are PENDING and their documents held.
LEMMA NewJobsHeld ==
    ASSUME NEW rows, \A row \in rows : Posted(row.push), NEW k \in NewJobs(rows)
    PROVE  k.status = "PENDING" /\ Held(k.id.push)
<1>1. PICK row \in rows : k.id.push \in Wanted(row) /\ k.status = "PENDING"
  BY DEF NewJobs, NewId
<1> QED BY <1>1 DEF Wanted, Held

LEMMA SoundTailer ==
    ASSUME Sound, TypeOK', NEW t \in Tailers, TailerStep(t) \/ TailCrash(t)
    PROVE  Sound'
<1> USE DEF ledgerVars, queueVars, erpVars
<1>1. UNCHANGED <<map, run, erp, inflight, ledger>>
  BY DEF TailerStep, TailRead, TailCommit, TailThrow, TailCrash, TailEnds
<1>2. \A w : Posted(w)' = Posted(w)
  BY <1>1 DEF Posted
<1>3. \A u \in Tailers : \A row \in tail'[u] : Posted(row.push)
  <2>1. CASE TailRead(t)
    BY <2>1 DEF TailRead, Window, NewRows, Posted, Sound, FromLedger, TypeOK
  <2>2. CASE tail' = [tail EXCEPT ![t] = {}]
    BY <2>2 DEF Sound, FromLedger, TypeOK
  <2> QED BY <2>1, <2>2 DEF TailerStep, TailCommit, TailThrow, TailCrash, TailEnds
<1>4. \A k \in job' : k \in job \/ (k.status # "SYNCED" /\ Held(k.id.push))
  <2>1. CASE TailCommit(t)
    <3>1. \A row \in tail[t] : Posted(row.push)
      BY DEF Sound, FromLedger
    <3> QED BY <2>1, <3>1, NewJobsHeld DEF TailCommit
  <2>2. CASE job' = job
    BY <2>2
  <2> QED BY <2>1, <2>2 DEF TailerStep, TailRead, TailThrow, TailCrash, TailEnds
<1> QED BY <1>1, <1>2, <1>3, <1>4, SoundAside DEF Held

(***************************************************************************)
(* A runner's step, in four kinds: it moves on without writing, it POSTs,  *)
(* it commits, it records a failure.                                       *)
(***************************************************************************)

\* A map lookup that succeeds finds the referred documents in ERPNext.
LEMMA ResolvedGrounded ==
    ASSUME Sound, NEW w \in Pushes, Resolved(w)
    PROVE  /\ Grounded(w)
           /\ {map[p.src] : p \in Prereq(w)} \subseteq Names
           /\ IsCustomer(w) \/ \E p \in Prereq(w) : IsCustomer(map[p.src])
<1>1. \A p \in Prereq(w) : /\ p \in Pushes /\ p.src \in Sources
                           /\ map[p.src] \in Pushes /\ map[p.src].src = p.src
                           /\ map[p.src] \in Names
  <2>1. \A p \in Prereq(w) : p \in Pushes /\ p.src \in Sources
    BY PrereqType DEF Sound, Pushes, LedgerPushes, Sources
  <2> QED BY <2>1 DEF Sound, MapFaithful, Resolved, TypeOK
<1>2. \A p \in Prereq(w) : IsCustomer(p) => map[p.src] = p
  BY <1>1, ErpSyncAssumption DEF IsCustomer, Pushes, LedgerPushes
<1>3. \A p \in Prereq(w) : p.op = "PUSH_INVOICE" => p \in Names
  <2> SUFFICES ASSUME NEW p \in Prereq(w), p.op = "PUSH_INVOICE" PROVE p \in Names
    OBVIOUS
  <2>1. p.src \in Invoices
    BY <1>1 DEF Pushes, LedgerPushes
  <2>2. map[p.src] = p \/ map[p.src].op = "PUSH_VOID"
    BY <1>1, <2>1, ErpSyncAssumption DEF Pushes, LedgerPushes
  <2>3. CASE map[p.src].op = "PUSH_VOID"
    <3>1. Grounded(map[p.src])
      BY <1>1 DEF Sound, ErpGrounded, Names
    <3>2. InvoicePush(map[p.src]) \in Names
      BY <2>3, <3>1 DEF Grounded, Refers
    <3>3. InvoicePush(map[p.src]) = p
      BY <1>1, <2>1, <2>3 DEF InvoicePush, InvoiceFor, Push, Pushes, LedgerPushes
    <3> QED BY <3>2, <3>3
  <2> QED BY <1>1, <2>2, <2>3
<1>4. CASE w.op = "PUSH_CUSTOMER"
  BY <1>1, <1>4 DEF Grounded, Refers, IsCustomer
<1>5. CASE w.op \in {"PUSH_INVOICE", "PUSH_ADVANCE"}
  <2>1. CustomerPush(w) \in [op: {"PUSH_CUSTOMER"}, src: Customers]
    BY <1>5, ErpSyncAssumption
       DEF CustomerPush, InvoiceFor, Push, Pushes, LedgerPushes, Sound, TypeOK
  <2>2. Prereq(w) = {CustomerPush(w)} /\ IsCustomer(CustomerPush(w))
    BY <1>5, <2>1 DEF Prereq, IsCustomer
  <2>3. {CustomerPush(w)} \in Refers(w)
    BY <1>5, <2>1 DEF Refers
  <2> QED BY <1>1, <1>2, <2>2, <2>3 DEF Grounded
<1>6. CASE w.op \in {"PUSH_PAYMENT", "PUSH_VOID"}
  <2>1. CustomerPush(w) \in [op: {"PUSH_CUSTOMER"}, src: Customers]
    BY <1>6, ErpSyncAssumption
       DEF CustomerPush, InvoiceFor, Push, Pushes, LedgerPushes, Sound, TypeOK
  <2>2. /\ Prereq(w) = {CustomerPush(w), InvoicePush(w)}
        /\ IsCustomer(CustomerPush(w)) /\ InvoicePush(w).op = "PUSH_INVOICE"
    BY <1>6, <2>1 DEF Prereq, IsCustomer, InvoicePush, Push
  <2>3. {CustomerPush(w), InvoicePush(w)} \in Refers(w)
    BY <1>6, <2>1 DEF Refers
  <2> QED BY <1>1, <1>2, <1>3, <2>2, <2>3 DEF Grounded
<1> QED BY <1>4, <1>5, <1>6 DEF Pushes, LedgerPushes

\* A step that writes neither ERPNext, nor a name, nor a SYNCED status needs
\* only what Underway and FromLedger ask of the pass that takes it.
LEMMA SoundQuiet ==
    ASSUME Sound, TypeOK', NEW r \in Runners,
           UNCHANGED <<ledger, tail, map, erp, inflight>>,
           \A q \in Runners \ {r} : run'[q] = run[q],
           \A k \in job' : \E j \in job : /\ k.id.push = j.id.push
                                          /\ k.status = "SYNCED" => j.status = "SYNCED",
           run'[r].pc \notin {"idle", "pass"} =>
              \/ run[r].pc \notin {"idle", "pass"} /\ run'[r].job = run[r].job
              \/ run'[r].job \in job,
           run'[r].pc \in {"preflight", "post"} =>
              /\ Grounded(Doing(r))'
              /\ run'[r].refs \subseteq Names'
              /\ IsCustomer(Doing(r)') \/ \E p \in run'[r].refs : IsCustomer(p),
           run'[r].pc \in {"readback", "commit"} => (Doing(r) \in Names)'
    PROVE  Sound'
<1>1. MapFaithful' /\ SyncedMeansRecorded'
  BY RecordsStay DEF Sound
<1>2. NoDanglingReference' /\ ErpGrounded'
  BY DocumentsStay
<1>3. Underway'
  BY UnderwayStays DEF Sound
<1>4. FromLedger'
  BY FromLedgerStays DEF Sound
<1> QED BY <1>1, <1>2, <1>3, <1>4 DEF Sound

LEMMA SoundControl ==
    ASSUME Sound, TypeOK', NEW r \in Runners,
           UNCHANGED <<ledger, tail, map, erp, inflight>>,
           \/ Abort(r) \/ NextJob(r)
           \/ run[r].pc \notin {"idle", "pass"} /\ Goto(r, "fail"),
           \A k \in job' : \E j \in job : /\ k.id.push = j.id.push
                                          /\ k.status = "SYNCED" => j.status = "SYNCED"
    PROVE  Sound'
<1>1. run \in [Runners -> RunStates]
  BY DEF Sound, TypeOK
<1>2. /\ \A q \in Runners \ {r} : run'[q] = run[q]
      /\ \/ run'[r].pc \in {"idle", "pass"}
         \/ /\ run'[r].pc = "fail" /\ run[r].pc \notin {"idle", "pass"}
            /\ run'[r].job = run[r].job
  <2>1. CASE Abort(r)
    BY <1>1, <2>1 DEF Abort, Idle
  <2>2. CASE NextJob(r)
    BY <1>1, <2>2 DEF NextJob, RunStates
  <2>3. CASE run[r].pc \notin {"idle", "pass"} /\ Goto(r, "fail")
    BY <1>1, <2>3 DEF Goto, RunStates
  <2> QED BY <2>1, <2>2, <2>3
<1> QED BY <1>2, SoundQuiet

LEMMA SoundPreparing ==
    ASSUME Sound, TypeOK', NEW r \in Runners,
           StartPass(r) \/ Pick(r) \/ EndPass(r) \/ Resolve(r)
    PROVE  Sound'
<1> USE DEF ledgerVars, queueVars, erpVars
<1>1. /\ UNCHANGED <<ledger, tail, map, erp, inflight, job>>
      /\ run \in [Runners -> RunStates]
  <2>1. CASE Pick(r)
    BY <2>1 DEF Pick, Sound, TypeOK
  <2>2. CASE StartPass(r) \/ EndPass(r) \/ Resolve(r)
    BY <2>2 DEF StartPass, EndPass, Resolve, Sound, TypeOK
  <2> QED BY <2>1, <2>2
<1>2. CASE StartPass(r)
  <2>1. run'[r].pc = "pass" /\ \A q \in Runners \ {r} : run'[q] = run[q]
    BY <1>1, <1>2 DEF StartPass, RunStates
  <2> QED BY <1>1, <2>1, SoundQuiet
<1>3. CASE EndPass(r)
  BY <1>1, <1>3, SoundControl DEF EndPass
<1>4. CASE Pick(r)
  <2>1. CASE Abort(r)
    BY <1>1, <2>1, SoundControl
  <2>2. CASE ~Abort(r)
    <3>1. /\ \A q \in Runners \ {r} : run'[q] = run[q]
          /\ \/ run'[r].pc = "pass"
             \/ run'[r].pc = "resolve" /\ run'[r].job \in job
      <4>1. CASE \E id \in run[r].batch :
                    run[r].pc = "pass" /\ run' = [run EXCEPT ![r].batch = @ \ {id}]
        BY <1>1, <4>1 DEF RunStates
      <4>2. ASSUME NEW j \in job, NEW id,
                   run' = [run EXCEPT ![r] = [@ EXCEPT !.pc = "resolve", !.job = j,
                                                  !.batch = run[r].batch \ {id}]]
            PROVE  /\ \A q \in Runners \ {r} : run'[q] = run[q]
                   /\ run'[r].pc = "resolve" /\ run'[r].job = j
        BY <1>1, <4>2 DEF RunStates
      <4> QED BY <1>4, <2>2, <4>1, <4>2 DEF Pick
    <3> QED BY <1>1, <3>1, SoundQuiet
  <2> QED BY <2>1, <2>2
<1>5. CASE Resolve(r)
  <2>1. CASE Resolved(Doing(r))
    <3> DEFINE names == {map[p.src] : p \in Prereq(Doing(r))}
    <3>0. run' = [run EXCEPT ![r] = [@ EXCEPT !.pc = "preflight", !.refs = names]]
      BY <1>5, <2>1 DEF Resolve
    <3> HIDE DEF names
    <3>3. /\ \A q \in Runners \ {r} : run'[q] = run[q]
          /\ run'[r].pc = "preflight" /\ run'[r].refs = names
          /\ run'[r].job = run[r].job
      BY <1>1, <3>0 DEF RunStates
    <3>1. Doing(r) \in Pushes /\ Doing(r)' = Doing(r) /\ run[r].pc = "resolve"
      BY <1>5, <3>3 DEF Resolve, Doing, Sound, TypeOK, JobRows, JobIds
    <3>2. /\ Grounded(Doing(r)) /\ names \subseteq Names
          /\ IsCustomer(Doing(r)) \/ \E p \in names : IsCustomer(p)
      BY <2>1, <3>1, ResolvedGrounded DEF names
    <3>4. Grounded(Doing(r))' /\ Names' = Names
      BY <1>1, <3>1, <3>2, GroundedGrows DEF Names, Grounded
    <3> QED BY <1>1, <3>1, <3>2, <3>3, <3>4, SoundQuiet
  <2>2. CASE ~Resolved(Doing(r))
    BY <1>1, <1>5, <2>2, SoundControl DEF Resolve
  <2> QED BY <2>1, <2>2
<1> QED BY <1>2, <1>3, <1>4, <1>5

LEMMA SoundAsking ==
    ASSUME Sound, TypeOK', NEW r \in Runners,
           Preflight(r) \/ PostRefused(r) \/ ReadBack(r) \/ Fault(r)
    PROVE  Sound'
<1> USE DEF ledgerVars, queueVars, erpVars
<1>1. /\ UNCHANGED <<ledger, tail, map, erp, inflight, job>>
      /\ run \in [Runners -> RunStates]
      /\ run[r].pc \notin {"idle", "pass"}
  BY DEF Preflight, PostRefused, ReadBack, Fault, Sound, TypeOK
<1>2. CASE Goto(r, "fail")
  BY <1>1, <1>2, SoundControl
<1>3. CASE (Goto(r, "post") /\ run[r].pc = "preflight")
           \/ (Goto(r, "commit") /\ Doing(r) \in Names)
  <2>1. /\ \A q \in Runners \ {r} : run'[q] = run[q]
        /\ run'[r].job = run[r].job /\ run'[r].refs = run[r].refs
        /\ \/ run'[r].pc = "post" /\ run[r].pc = "preflight"
           \/ run'[r].pc = "commit" /\ Doing(r) \in Names
    BY <1>1, <1>3 DEF Goto, RunStates
  <2>2. Doing(r)' = Doing(r) /\ Names' = Names
    BY <1>1, <2>1 DEF Doing, Names
  <2>3. Grounded(Doing(r)) => Grounded(Doing(r))'
    BY <1>1, <2>2, GroundedGrows DEF Grounded
  <2> QED BY <1>1, <2>1, <2>2, <2>3, SoundQuiet DEF Sound, Underway
<1> QED BY <1>2, <1>3 DEF Preflight, PostRefused, ReadBack, Fault, Names

LEMMA SoundPosting ==
    ASSUME Sound, TypeOK', NEW r \in Runners,
           \/ \E good \in BOOLEAN : Post(r, good)
           \/ PostLate(r) \/ RunnerCrash(r)
    PROVE  Sound'
<1> USE DEF ledgerVars, queueVars, erpVars
<1>1. /\ UNCHANGED <<ledger, tail, map, job>> /\ erp \subseteq erp'
      /\ run \in [Runners -> RunStates]
  <2>1. ASSUME NEW good \in BOOLEAN, Post(r, good)
        PROVE  UNCHANGED <<ledger, tail, map, job>> /\ erp \subseteq erp'
    BY <2>1 DEF Post
  <2> QED BY <2>1 DEF PostLate, RunnerCrash, Sound, TypeOK
<1>2. \A d \in erp' \union inflight' :
          \/ d \in erp \union inflight
          \/ run[r].pc = "post" /\ \E good \in BOOLEAN : d = Payload(r, good)
  <2>1. ASSUME NEW good \in BOOLEAN, Post(r, good)
        PROVE  /\ run[r].pc = "post" /\ inflight' = inflight
               /\ erp' = erp \union {Payload(r, good)}
    BY <2>1 DEF Post
  <2>2. CASE PostLate(r) \/ RunnerCrash(r)
    BY <2>2 DEF PostLate, RunnerCrash
  <2> QED BY <2>1, <2>2
<1>3. /\ \A q \in Runners \ {r} : run'[q] = run[q]
      /\ \/ run'[r].pc = "idle"
         \/ /\ run[r].pc = "post" /\ run'[r].job = run[r].job
            /\ \/ run'[r].pc = "fail"
               \/ run'[r].pc = "readback" /\ Doing(r) \in Names'
  <2>1. ASSUME NEW good \in BOOLEAN, Post(r, good)
        PROVE  run[r].pc = "post" /\ Goto(r, "readback") /\ Doing(r) \in Names'
    <3>1. Payload(r, good) \in erp' /\ Payload(r, good).push = Doing(r)
      BY <2>1 DEF Post, Payload
    <3> QED BY <2>1, <3>1 DEF Post, Names
  <2>2. CASE run[r].pc = "post" /\ Goto(r, "readback") /\ Doing(r) \in Names'
    BY <1>1, <2>2 DEF Goto, RunStates
  <2>3. CASE PostLate(r)
    BY <1>1, <2>3 DEF PostLate, Goto, RunStates
  <2>4. CASE RunnerCrash(r)
    BY <1>1, <2>4 DEF RunnerCrash, Abort, Idle
  <2> QED BY <2>1, <2>2, <2>3, <2>4
<1>4. MapFaithful' /\ SyncedMeansRecorded'
  BY <1>1, RecordsStay DEF Sound
<1>5. NoDanglingReference' /\ ErpGrounded'
  BY <1>1, <1>2, DocumentsStay
<1>6. Underway'
  <2>1. run'[r].job = run[r].job => Doing(r)' = Doing(r)
    BY DEF Doing
  <2> QED BY <1>1, <1>3, <2>1, UnderwayStays DEF Sound
<1>7. FromLedger'
  <2>1. \A d \in inflight' : d \in inflight \/ (run[r].pc = "post" /\ d.push = Doing(r))
    <3>1. CASE inflight' = inflight
      BY <3>1
    <3>2. CASE run[r].pc = "post" /\ inflight' = inflight \union {Payload(r, TRUE)}
      BY <3>2 DEF Payload
    <3> QED BY <3>1, <3>2 DEF Post, PostLate, RunnerCrash
  <2> QED BY <1>1, <1>3, <2>1, FromLedgerStays DEF Sound
<1> QED BY <1>4, <1>5, <1>6, <1>7 DEF Sound

LEMMA SoundLand ==
    ASSUME Sound, TypeOK', NEW d \in inflight, Land(d)
    PROVE  Sound'
<1> USE DEF ledgerVars, queueVars
<1>1. /\ UNCHANGED <<ledger, tail, map, job, run>> /\ erp \subseteq erp'
      /\ erp' \union inflight' \subseteq erp \union inflight
      /\ inflight' \subseteq inflight
  BY DEF Land
<1>2. MapFaithful' /\ SyncedMeansRecorded'
  BY <1>1, RecordsStay DEF Sound
<1>3. NoDanglingReference' /\ ErpGrounded'
  BY <1>1, NamesGrow, GroundedGrows DEF Sound, NoDanglingReference, ErpGrounded
<1>4. Underway'
  <2>1. \A r \in Runners : Doing(r)' = Doing(r)
    BY <1>1 DEF Doing
  <2> QED BY <1>1, <2>1, NamesGrow, GroundedGrows DEF Sound, Underway, Grounded
<1>5. FromLedger'
  BY <1>1 DEF Sound, FromLedger, Held, Posted, Doing
<1> QED BY <1>2, <1>3, <1>4, <1>5 DEF Sound

LEMMA SoundCommit ==
    ASSUME Sound, TypeOK', NEW r \in Runners, Commit(r)
    PROVE  Sound'
<1> USE DEF ledgerVars, queueVars, erpVars
<1>1. /\ UNCHANGED <<ledger, tail, erp, inflight>> /\ run[r].pc = "commit"
      /\ Doing(r) \in Names /\ run \in [Runners -> RunStates]
  BY DEF Commit, Sound, TypeOK, Underway
<1>2. CASE Goto(r, "fail") /\ UNCHANGED <<map, job>>
  BY <1>1, <1>2, SoundControl
<1>3. ASSUME NEW j \in Mine(r), NextJob(r),
             map' = [map EXCEPT ![Doing(r).src] = Doing(r)],
             job' = Updated(j.id, "SYNCED", j.attempts + 1)
      PROVE  Sound'
  <2>1. Names' = Names
    BY <1>1 DEF Names
  <2>2. MapFaithful'
    BY <1>1, <1>3, <2>1 DEF Sound, TypeOK, MapFaithful
  <2>3. \A k \in job' : k.status = "SYNCED" =>
            \/ \E i \in job : i.id.push = k.id.push /\ i.status = "SYNCED"
            \/ k.id.push = Doing(r)
    <3>1. \A i \in job : i.id = j.id => i.id.push = Doing(r)
      BY DEF Mine, Doing
    <3>2. \A k \in job' : \E i \in job :
              k.id = i.id /\ (k.status = i.status \/ i.id = j.id)
      BY <1>3, UpdatedRows DEF Sound
    <3> QED BY <3>1, <3>2
  <2>4. Doing(r).src \in Sources /\ Doing(r) \in Pushes
    BY <1>1 DEF Sound, TypeOK, Doing, JobRows, JobIds, Pushes, LedgerPushes, Sources
  <2>5. /\ map'[Doing(r).src] # NoName
        /\ \A s \in Sources : map[s] # NoName => map'[s] # NoName
    BY <1>3, <2>4, ErpSyncAssumption DEF Sound, TypeOK
  <2>6. SyncedMeansRecorded'
    <3> SUFFICES ASSUME NEW k \in job', k.status = "SYNCED"
                 PROVE  k.id.push \in Names /\ map'[k.id.push.src] # NoName
      BY <2>1 DEF SyncedMeansRecorded
    <3>1. CASE k.id.push = Doing(r)
      BY <1>1, <2>5, <3>1
    <3>2. ASSUME NEW i \in job, i.id.push = k.id.push, i.status = "SYNCED"
          PROVE  k.id.push \in Names /\ map'[k.id.push.src] # NoName
      <4>1. i.id.push.src \in Sources
        BY DEF Sound, TypeOK, JobRows, JobIds, Pushes, LedgerPushes, Sources
      <4> QED BY <2>5, <3>2, <4>1 DEF Sound, SyncedMeansRecorded
    <3> QED BY <2>3, <3>1, <3>2
  <2>7. NoDanglingReference' /\ ErpGrounded'
    BY <1>1, DocumentsStay
  <2>8. run'[r].pc = "pass" /\ \A q \in Runners \ {r} : run'[q] = run[q]
    BY <1>1, <1>3 DEF NextJob, RunStates
  <2>9. Underway'
    BY <1>1, <2>8, UnderwayStays DEF Sound
  <2>10. FromLedger'
    <3>1. \A k \in job' : \E i \in job : k.id = i.id
      BY <1>3, UpdatedRows DEF Sound
    <3> QED BY <1>1, <2>8, <3>1, FromLedgerStays DEF Sound
  <2> QED BY <2>2, <2>6, <2>7, <2>9, <2>10 DEF Sound
<1> QED BY <1>2, <1>3 DEF Commit

LEMMA SoundFailure ==
    ASSUME Sound, TypeOK', NEW r \in Runners, RecordFailure(r)
    PROVE  Sound'
<1> USE DEF ledgerVars, queueVars, erpVars
<1>1. \A k \in job' : \E j \in job : /\ k.id.push = j.id.push
                                     /\ k.status = "SYNCED" => j.status = "SYNCED"
  <2>1. PICK st \in {"DEAD_LETTER", "FAILED"} : \E n :
            job' = Updated(run[r].job.id, st, n)
    BY DEF RecordFailure
  <2>2. \A k \in job' : \E j \in job :
            k.id = j.id /\ (k.status = j.status \/ k.status \in {"DEAD_LETTER", "FAILED"})
    BY <2>1, UpdatedRows DEF Sound
  <2> QED BY <2>2
<1>2. UNCHANGED <<ledger, tail, map, erp, inflight>> /\ (Abort(r) \/ NextJob(r))
  BY DEF RecordFailure
<1> QED BY <1>1, <1>2, SoundControl

LEMMA SoundStep == Sound /\ [Next]_vars => Sound'
<1> SUFFICES ASSUME Sound, [Next]_vars PROVE Sound'
  OBVIOUS
<1>1. TypeOK'
  BY TypeStep DEF Sound
<1>2. CASE LedgerNext
  BY <1>1, <1>2, SoundLedger
<1>3. CASE OwnerNext
  BY <1>1, <1>3, SoundOwner
<1>4. CASE SyncNext
  <2>1. ASSUME NEW r \in Runners,
               \/ RunnerStep(r) \/ Post(r, FALSE) \/ PostLate(r) \/ Fault(r)
               \/ RunnerCrash(r)
        PROVE  Sound'
    BY <1>1, <2>1, SoundPreparing, SoundAsking, SoundPosting, SoundCommit, SoundFailure
       DEF RunnerStep
  <2> QED BY <1>1, <1>4, <2>1, SoundTailer, SoundLand DEF SyncNext
<1>5. CASE UNCHANGED vars
  <2>1. \A w : Posted(w)' = Posted(w)
    BY <1>5 DEF vars, ledgerVars, Posted
  <2> QED BY <1>1, <1>5, <2>1, SoundAside
          DEF vars, ledgerVars, queueVars, erpVars, Sound, FromLedger
<1> QED BY <1>2, <1>3, <1>4, <1>5 DEF Next

\* The invariant holds of every reachable state.
THEOREM SoundAlways == Spec => []Sound
BY SoundInit, SoundStep, PTL DEF Spec

\* A SYNCED job has its document in ERPNext and its name in ErpEntityMap,
\* whichever passes die, overlap or time out: the one-transaction commit.
THEOREM SyncedIsRecorded == Spec => []SyncedMeansRecorded
<1>1. Sound => SyncedMeansRecorded
  BY DEF Sound
<1> QED BY <1>1, SoundAlways, PTL

\* No document is sent before what it refers to, even by a POST that lands
\* after its pass has given it up: the dep gate and the map lookups.
THEOREM NothingDangles == Spec => []NoDanglingReference
<1>1. Sound => NoDanglingReference
  BY DEF Sound
<1> QED BY <1>1, SoundAlways, PTL

(***************************************************************************)
(* The sync implements LedgerCopy: a committed ledger row posts its push,  *)
(* an accepted POST copies it, and nothing else changes what either holds. *)
(***************************************************************************)

CustomerPushes == [op: {"PUSH_CUSTOMER"}, src: Customers]

LEMMA CopiesInit == Init => Copies!Init
<1> SUFFICES ASSUME Init PROVE Copies!Init
  OBVIOUS
<1>1. Names = {} /\ {row.push : row \in ledger} = {}
  BY DEF Init, Names
<1> QED BY <1>1 DEF Copies!Init

\* A step that changes neither the ledger nor ERPNext is a stutter.
LEMMA CopiesStutter ==
    ASSUME UNCHANGED <<ledger, erp>>
    PROVE  UNCHANGED Copies!vars
<1>1. Names' = Names
  BY DEF Names
<1>2. {row.push : row \in ledger}' = {row.push : row \in ledger}
  OBVIOUS
<1> QED BY <1>1, <1>2 DEF Copies!vars

\* A commit of the ledger posts the row's push, and takes no other away.
LEMMA CopiesPost ==
    ASSUME TypeOK, NEW row \in open, CommitPost(row)
    PROVE  Copies!Next
<1>1. Names' = Names
  BY DEF CommitPost, erpVars, Names
<1>2. {q.push : q \in ledger}' = {q.push : q \in ledger} \union {row.push}
  BY DEF CommitPost
<1>3. Copies!Post(row.push)
  BY <1>1, <1>2 DEF Copies!Post
<1>4. row.push \in Pushes
  BY DEF TypeOK, Rows, Pushes
<1> QED BY <1>3, <1>4 DEF Copies!Next

\* ERPNext accepts one document: GarageOS holds it, ERPNext did not, and it
\* has everything the document may refer to.
LEMMA CopiesCopy ==
    ASSUME TypeOK, NEW d \in Documents, UNCHANGED ledger, erp' = erp \union {d},
           Held(d.push), Grounded(d.push), d.push \notin Names
    PROVE  Copies!Next
<1>1. d.push \in Pushes
  BY DEF Documents
<1>2. Names' = Names \union {d.push}
  BY DEF Names
<1>3. {row.push : row \in ledger}' = {row.push : row \in ledger}
  OBVIOUS
<1>4. d.push \in CustomerPushes \union {row.push : row \in ledger}
  <2>1. CASE Posted(d.push)
    BY <2>1 DEF Posted
  <2>2. CASE d.push.op = "PUSH_CUSTOMER"
    BY <1>1, <2>2 DEF Pushes, LedgerPushes, CustomerPushes
  <2> QED BY <2>1, <2>2 DEF Held
<1>5. \E refs \in [w \in Pushes |-> Refers(w)][d.push] : refs \subseteq Names
  BY <1>1 DEF Grounded
<1>6. Copies!Copy(d.push)
  BY <1>2, <1>3, <1>4, <1>5 DEF Copies!Copy, CustomerPushes
<1> QED BY <1>1, <1>6 DEF Copies!Next

LEMMA CopiesStep == Sound /\ [Next]_vars => [Copies!Next]_(Copies!vars)
<1> SUFFICES ASSUME Sound, [Next]_vars PROVE [Copies!Next]_(Copies!vars)
  OBVIOUS
<1> USE DEF ledgerVars, queueVars, erpVars
<1>1. CASE UNCHANGED <<ledger, erp>>
  BY <1>1, CopiesStutter
<1>2. ASSUME NEW row \in open, CommitPost(row) PROVE Copies!Next
  BY <1>2, CopiesPost DEF Sound
<1>3. ASSUME NEW r \in Runners, NEW good \in BOOLEAN, Post(r, good) PROVE Copies!Next
  <2>1. run[r].pc = "post" /\ run[r] \in RunStates /\ Doing(r) \in Pushes
    BY <1>3 DEF Post, Sound, TypeOK, Doing, JobRows, JobIds
  <2>2. Payload(r, good) \in Documents /\ Payload(r, good).push = Doing(r)
    BY <2>1 DEF Payload, Documents, RunStates
  <2>3. Held(Doing(r)) /\ Grounded(Doing(r))
    BY <2>1 DEF Sound, FromLedger, Underway
  <2>4. UNCHANGED ledger /\ erp' = erp \union {Payload(r, good)} /\ Doing(r) \notin Names
    BY <1>3 DEF Post
  <2> QED BY <2>2, <2>3, <2>4, CopiesCopy DEF Sound
<1>4. ASSUME NEW d \in inflight, Land(d) PROVE UNCHANGED <<ledger, erp>> \/ Copies!Next
  <2>1. d \in Documents /\ Held(d.push) /\ Grounded(d.push)
    BY DEF Sound, TypeOK, FromLedger, ErpGrounded
  <2>2. CASE d.push \in Names
    BY <1>4, <2>2 DEF Land
  <2>3. CASE d.push \notin Names
    BY <1>4, <2>1, <2>3, CopiesCopy DEF Land, Sound
  <2> QED BY <2>2, <2>3
<1>5. CASE LedgerNext
  <2>1. UNCHANGED <<ledger, erp>> \/ \E row \in open : CommitPost(row)
    BY <1>5 DEF LedgerNext, BeginPost, Deliver, Reissue, TransferVehicle
  <2> QED BY <1>1, <1>2, <2>1
<1>6. CASE OwnerNext
  BY <1>1, <1>6 DEF OwnerNext, Enable, Disable, Reset, ReplayRead, ReplayWrite
<1>7. CASE SyncNext
  <2>1. ASSUME NEW t \in Tailers, TailerStep(t) \/ TailCrash(t)
        PROVE  UNCHANGED <<ledger, erp>>
    BY <2>1 DEF TailerStep, TailRead, TailCommit, TailThrow, TailCrash, TailEnds
  <2>2. ASSUME NEW r \in Runners,
               \/ RunnerStep(r) \/ Post(r, FALSE) \/ PostLate(r) \/ Fault(r)
               \/ RunnerCrash(r)
        PROVE  UNCHANGED <<ledger, erp>> \/ \E good \in BOOLEAN : Post(r, good)
    BY <2>2 DEF RunnerStep, StartPass, Pick, EndPass, Resolve, Preflight, PostRefused,
       ReadBack, Commit, RecordFailure, PostLate, Fault, RunnerCrash
  <2> QED BY <1>1, <1>3, <1>4, <1>7, <2>1, <2>2 DEF SyncNext
<1>8. CASE UNCHANGED vars
  BY <1>1, <1>8 DEF vars
<1> QED BY <1>5, <1>6, <1>7, <1>8 DEF Next

\* With its queue, cursor, overlapping and dying passes, late POSTs, resets and
\* replays, the sync is a ledger copier: posted documents only, each once, none
\* before what it refers to, none taken back.
THEOREM CopiesTheLedger == Spec => ImplementsLedgerCopy
BY CopiesInit, CopiesStep, SoundAlways, PTL DEF Spec, ImplementsLedgerCopy, Copies!Spec

(***************************************************************************)
(* No event is lost while ledger transactions do not overlap.              *)
(***************************************************************************)

\* Ledger transactions then commit in the order of their rows, behind every window
\* that was read and every cursor that was set, but for a sync told to start later.
Orderly ==
    /\ IsFiniteSet(ledger) /\ IsFiniteSet(open) /\ \A row, q \in open : row = q
    /\ floor <= clock /\ \A n \in cursor : n <= clock
    /\ \A row \in ledger \union open : row.at <= clock
    /\ \A row \in open : /\ \A q \in ledger : q.at < row.at
                         /\ \A n \in cursor : row.at <= n => row.at <= floor
                         /\ \A t \in Tailers : \A q \in tail[t] : q.at < row.at
    /\ \A t \in Tailers : \A q \in tail[t] : q.at <= clock
    /\ cursor = {} => floor = 0

\* A window skips no row that has no job yet.
WindowsWhole ==
    \A t \in Tailers : \A row \in ledger, q \in tail[t] :
        floor < row.at /\ row.at <= q.at => row \in tail[t] \/ Has(row.push)

Caught == TypeOK /\ Orderly /\ WindowsWhole /\ NoEventLost

LEMMA LeastNatural ==
    ASSUME NEW T \in SUBSET Nat, T # {}
    PROVE  \E n \in T : \A m \in T : n <= m
<1> DEFINE R == {p \in Nat \X Nat : p[1] < p[2]}
<1>1. IsWellFoundedOn(R, Nat)
  BY NatLessThanWellFounded, Zenon DEF OpToRel
<1>2. PICK n \in T : \A m \in T : ~(<<m, n>> \in R)
  <2> HIDE DEF R
  <2> QED BY <1>1, WFMin
<1>3. ASSUME NEW m \in T, m < n PROVE FALSE
  <2>1. <<m, n>> \in Nat \X Nat /\ <<m, n>>[1] < <<m, n>>[2]
    BY <1>3
  <2>2. <<m, n>> \in R
    BY <2>1
  <2> HIDE DEF R
  <2> QED BY <1>2, <2>2
<1> HIDE DEF R
<1> QED BY <1>3

LEMMA Earliest ==
    ASSUME NEW rows \in SUBSET Rows, rows # {}
    PROVE  \E q \in rows : \A p \in rows : q.at <= p.at
<1> DEFINE ats == {q.at : q \in rows}
<1>1. ats \in SUBSET Nat /\ ats # {}
  BY DEF Rows
<1>2. PICK n \in ats : \A m \in ats : n <= m
  <2> HIDE DEF ats
  <2> QED BY <1>1, LeastNatural
<1> QED BY <1>2

LEMMA Latest ==
    ASSUME NEW rows \in SUBSET Rows, rows # {}, NEW top \in Nat, \A q \in rows : q.at <= top
    PROVE  \E q \in rows : \A p \in rows : p.at <= q.at
<1> DEFINE gaps == {top - q.at : q \in rows}
<1>1. gaps \in SUBSET Nat /\ gaps # {}
  BY DEF Rows
<1>2. PICK n \in gaps : \A m \in gaps : n <= m
  <2> HIDE DEF gaps
  <2> QED BY <1>1, LeastNatural
<1>3. PICK q \in rows : \A p \in rows : top - q.at <= top - p.at
  BY <1>2
<1>4. \A p \in rows : p.at \in Nat
  BY DEF Rows
<1> QED BY <1>3, <1>4

\* A window that is read has every new row up to its last.
LEMMA WindowFromStart ==
    ASSUME TypeOK, IsFiniteSet(ledger), NEW q \in Window, NEW row \in NewRows, row.at <= q.at
    PROVE  row \in Window
<1> DEFINE below(x) == {p \in NewRows : p.at < x.at}
<1>1. NewRows \subseteq ledger /\ q \in NewRows /\ \A p \in NewRows : p.at \in Nat
  BY DEF NewRows, Window, TypeOK, Rows
<1>2. IsFiniteSet(below(q)) /\ below(row) \subseteq below(q)
  <2>1. below(q) \subseteq ledger /\ below(row) \subseteq below(q)
    BY <1>1
  <2> QED BY <2>1, FS_Subset
<1>3. IsFiniteSet(below(row)) /\ Cardinality(below(row)) <= Cardinality(below(q))
  BY <1>2, FS_Subset
<1>4. Cardinality(below(row)) \in Nat /\ Cardinality(below(q)) \in Nat
  BY <1>2, <1>3, FS_CardinalityType
<1>5. Cardinality(below(q)) < BATCH_SIZE
  BY DEF Window
<1> HIDE DEF below
<1>6. Cardinality(below(row)) < BATCH_SIZE
  BY <1>3, <1>4, <1>5, ErpSyncAssumption
<1> QED BY <1>6 DEF Window, below

\* The commit of a window gives each of its rows a job, its own or one there was.
LEMMA CommitHas ==
    ASSUME TypeOK, NEW t \in Tailers, TailCommit(t), NEW row \in tail[t]
    PROVE  Has(row.push)'
<1>1. CASE Has(row.push)
  BY <1>1 DEF Has, TailCommit
<1>2. CASE ~Has(row.push)
  <2> DEFINE w == row.push
  <2> DEFINE asking == {q \in tail[t] : w \in Wanted(q)}
  <2>1. asking \in SUBSET Rows /\ asking # {} /\ w \in Pushes
    BY DEF TypeOK, Wanted, Rows, Pushes
  <2>2. PICK q \in asking : \A p \in asking : q.at <= p.at
    <3> HIDE DEF asking
    <3> QED BY <2>1, Earliest
  <2>3. /\ q \in tail[t] /\ w \in Wanted(q) /\ First(tail[t], q, w) /\ ~Has(w)
    BY <1>2, <2>2 DEF First
  <2>4. \E k \in NewJobs(tail[t]) : k.id = NewId(q, w)
    <3> DEFINE x == <<q, w>>
    <3>1. /\ x \in {y \in tail[t] \X Pushes : /\ y[2] \in Wanted(y[1])
                                              /\ ~Has(y[2])
                                              /\ First(tail[t], y[1], y[2])}
          /\ x[1] = q /\ x[2] = w
      BY <2>1, <2>3
    <3> HIDE DEF x, w
    <3> DEFINE new(y) == [id |-> NewId(y[1], y[2]), status |-> "PENDING", attempts |-> 0,
                          deps |-> UNION {IdsOf(tail[t], d) : d \in DependsOn(y[2])}]
    <3>2. new(x) \in NewJobs(tail[t])
      BY <3>1 DEF NewJobs
    <3>3. new(x).id = NewId(q, w)
      BY <3>1
    <3> QED BY <3>2, <3>3
  <2> QED BY <2>4 DEF TailCommit, Has, NewId
<1> QED BY <1>1, <1>2

\* Jobs that are updated keep their pushes.
LEMMA UpdatedKeeps ==
    ASSUME TypeOK, NEW id, NEW st, NEW n, NEW j \in job
    PROVE  \E k \in Updated(id, st, n) : k.id = j.id
<1>1. job \subseteq JobRows
  BY DEF TypeOK
<1>2. \A x \in {j} : LET k == IF x.id = id THEN [x EXCEPT !.status = st, !.attempts = n] ELSE x
                     IN  k.id = j.id
  BY <1>1 DEF JobRows
<1> QED BY <1>2 DEF Updated

\* The steps that touch neither rows, cursor nor windows keep it, if jobs stay.
LEMMA CaughtAside ==
    ASSUME Caught, TypeOK', UNCHANGED <<clock, ledger, open, cursor, tail, floor>>,
           \A w \in Pushes : Has(w) => Has(w)'
    PROVE  Caught'
<1>1. Orderly'
  BY DEF Caught, Orderly
<1>2. \A row \in ledger : row.push \in Pushes
  BY DEF Caught, TypeOK, Rows, Pushes
<1>3. WindowsWhole'
  BY <1>2 DEF Caught, WindowsWhole
<1>4. NoEventLost'
  BY <1>2 DEF Caught, NoEventLost
<1> QED BY <1>1, <1>3, <1>4 DEF Caught

LEMMA UpdatedHas ==
    ASSUME TypeOK, NEW id, NEW st, NEW n, job' = Updated(id, st, n)
    PROVE  \A w \in Pushes : Has(w) => Has(w)'
<1> SUFFICES ASSUME NEW w \in Pushes, NEW j \in job, j.id.push = w PROVE Has(w)'
  BY DEF Has
<1>1. PICK k \in Updated(id, st, n) : k.id = j.id
  BY UpdatedKeeps
<1> QED BY <1>1 DEF Has

LEMMA CaughtBegin ==
    ASSUME MaxOpenTxns <= 1, Caught, TypeOK', NEW w \in LedgerPushes, BeginPost(w)
    PROVE  Caught'
<1> DEFINE new == [push |-> w, at |-> clock + 1]
<1>1. /\ clock \in Nat /\ clock' = clock + 1 /\ open' = open \union {new}
      /\ UNCHANGED <<ledger, cursor, tail, floor, job>>
  BY DEF Caught, TypeOK, BeginPost, queueVars
<1>2. open = {}
  <2>1. Cardinality(open) \in Nat /\ IsFiniteSet(open)
    BY FS_CardinalityType DEF Caught, Orderly
  <2>2. Cardinality(open) < 1
    BY <2>1, ErpSyncAssumption DEF BeginPost
  <2> QED BY <2>1, <2>2, FS_EmptySet
<1>3. IsFiniteSet(open') /\ open' = {new} /\ new.at = clock + 1
  BY <1>1, <1>2, FS_EmptySet, FS_AddElement
<1>4. /\ floor \in Nat /\ floor <= clock /\ \A n \in cursor : n \in Nat /\ n <= clock
      /\ \A row \in ledger : row.at \in Nat /\ row.at <= clock
      /\ \A t \in Tailers : \A q \in tail[t] : q.at \in Nat /\ q.at <= clock
  BY DEF Caught, Orderly, TypeOK, Rows
<1> HIDE DEF new
<1>5. Orderly'
  <2>1. IsFiniteSet(ledger)' /\ (cursor = {} => floor = 0)'
    BY <1>1 DEF Caught, Orderly
  <2> QED BY <1>1, <1>3, <1>4, <2>1 DEF Orderly
<1> QED BY <1>1, <1>5 DEF Caught, WindowsWhole, NoEventLost, Has

LEMMA CaughtCommit ==
    ASSUME Caught, TypeOK', NEW row \in open, CommitPost(row)
    PROVE  Caught'
<1>1. /\ open' = open \ {row}
      /\ ledger' = {q \in ledger : q.push # row.push} \union {row}
      /\ UNCHANGED <<clock, cursor, tail, floor, job>>
  BY DEF CommitPost, queueVars
<1>2. IsFiniteSet(ledger') /\ IsFiniteSet(open')
  <2>1. IsFiniteSet({q \in ledger : q.push # row.push})
    BY FS_Subset DEF Caught, Orderly
  <2> QED BY <1>1, <2>1, FS_AddElement, FS_Subset DEF Caught, Orderly
<1>3. open' = {} /\ ledger' \subseteq ledger \union {row}
  BY <1>1 DEF Caught, Orderly
<1>4. Orderly'
  BY <1>1, <1>2, <1>3 DEF Caught, Orderly
<1>5. /\ \A n \in cursor : row.at <= n => row.at <= floor
      /\ \A t \in Tailers : \A q \in tail[t] : q.at < row.at /\ q.at \in Nat
      /\ row.at \in Nat /\ floor \in Nat
  BY DEF Caught, Orderly, TypeOK, Rows
<1>6. WindowsWhole'
  BY <1>1, <1>3, <1>5 DEF Caught, WindowsWhole, Has
<1>7. NoEventLost'
  BY <1>1, <1>3, <1>5 DEF Caught, NoEventLost, Has
<1> QED BY <1>4, <1>6, <1>7 DEF Caught

LEMMA CaughtOwner ==
    ASSUME Caught, TypeOK', OwnerNext
    PROVE  Caught'
<1>1. /\ clock \in Nat /\ floor \in Nat
      /\ \A row \in ledger \union open : row.at \in Nat /\ row.at <= clock
      /\ \A t \in Tailers : \A q \in tail[t] : q.at \in Nat
  BY DEF Caught, Orderly, TypeOK, Rows
<1>2. ASSUME NEW n \in 0..clock, Enable(n) PROVE Caught'
  <2>1. UNCHANGED <<clock, ledger, open, tail, job>>
    BY <1>2 DEF Enable, ledgerVars
  <2>2. CASE cursor # {}
    <3>1. UNCHANGED <<cursor, floor>> /\ \A w \in Pushes : Has(w) => Has(w)'
      BY <1>2, <2>1, <2>2 DEF Enable, Has
    <3> QED BY <2>1, <3>1, CaughtAside
  <2>3. CASE cursor = {}
    <3>1. cursor' = {n} /\ floor' = n /\ floor = 0 /\ n \in Nat /\ n <= clock
      BY <1>1, <1>2, <2>3 DEF Enable, Caught, Orderly
    <3>2. Orderly'
      BY <2>1, <3>1 DEF Caught, Orderly
    <3>3. WindowsWhole'
      BY <1>1, <2>1, <3>1 DEF Caught, WindowsWhole, Has
    <3>4. NoEventLost'
      BY <1>1, <2>1, <3>1 DEF NoEventLost
    <3> QED BY <3>2, <3>3, <3>4 DEF Caught
  <2> QED BY <2>2, <2>3
<1>3. CASE Reset
  <2>1. cursor' = {clock} /\ floor' = clock /\ UNCHANGED <<clock, ledger, open, tail>>
    BY <1>3 DEF Reset, ledgerVars
  <2>2. Orderly'
    BY <1>1, <2>1 DEF Caught, Orderly
  <2>3. WindowsWhole' /\ NoEventLost'
    BY <1>1, <2>1 DEF WindowsWhole, NoEventLost
  <2> QED BY <2>2, <2>3 DEF Caught
<1>4. CASE Disable \/ \E y \in Taps, j \in job : ReplayRead(y, j)
  <2>1. UNCHANGED <<clock, ledger, open, cursor, tail, floor, job>>
    BY <1>4 DEF Disable, ReplayRead, ledgerVars, queueVars
  <2> QED BY <2>1, CaughtAside DEF Has
<1>5. ASSUME NEW y \in Taps, ReplayWrite(y) PROVE Caught'
  <2>1. UNCHANGED <<clock, ledger, open, cursor, tail, floor>>
    BY <1>5 DEF ReplayWrite, ledgerVars, queueVars
  <2>2. \A w \in Pushes : Has(w) => Has(w)'
    BY <1>5, UpdatedHas DEF ReplayWrite, Caught
  <2> QED BY <2>1, <2>2, CaughtAside
<1> QED BY <1>2, <1>3, <1>4, <1>5 DEF OwnerNext

LEMMA CaughtTailer ==
    ASSUME Caught, TypeOK', NEW t \in Tailers, TailerStep(t) \/ TailCrash(t)
    PROVE  Caught'
<1>1. /\ clock \in Nat /\ floor \in Nat /\ ledger \subseteq Rows
      /\ \A row \in ledger \union open : row.at \in Nat /\ row.at <= clock
      /\ tail \in [Tailers -> SUBSET Rows]
      /\ \A u \in Tailers : \A q \in tail[u] : q.at \in Nat /\ q.at <= clock
      /\ \A n \in cursor : n \in Nat
  BY DEF Caught, Orderly, TypeOK, Rows
<1>2. CASE TailRead(t)
  <2>1. /\ cursor # {} /\ tail' = [tail EXCEPT ![t] = Window]
        /\ UNCHANGED <<clock, ledger, open, cursor, floor, job>>
    BY <1>2 DEF TailRead, ledgerVars
  <2>2. Window \subseteq ledger
    BY DEF Window, NewRows
  <2>3. \A u \in Tailers : tail'[u] = IF u = t THEN Window ELSE tail[u]
    BY <1>1, <2>1
  <2>4. Orderly'
    BY <1>1, <2>1, <2>2, <2>3 DEF Caught, Orderly
  <2>5. ASSUME NEW row \in ledger, NEW q \in Window, floor < row.at, row.at <= q.at
        PROVE  row \in Window \/ Has(row.push)
    <3>1. CASE row \in NewRows
      BY <2>5, <3>1, WindowFromStart DEF Caught, Orderly
    <3>2. CASE row \notin NewRows
      BY <1>1, <2>5, <3>2 DEF NewRows, Caught, NoEventLost
    <3> QED BY <3>1, <3>2
  <2>6. WindowsWhole'
    BY <2>1, <2>3, <2>5 DEF Caught, WindowsWhole, Has
  <2>7. NoEventLost'
    BY <2>1 DEF Caught, NoEventLost, Has
  <2> QED BY <2>4, <2>6, <2>7 DEF Caught
<1>3. CASE TailCommit(t)
  <2>1. /\ tail[t] # {} /\ job \subseteq job'
        /\ cursor' = {row.at : row \in {q \in tail[t] : \A p \in tail[t] : p.at <= q.at}}
        /\ tail' = [tail EXCEPT ![t] = {}]
        /\ UNCHANGED <<clock, ledger, open, floor>>
    BY <1>3 DEF TailCommit, ledgerVars
  <2>2. \A n \in cursor' : \E q \in tail[t] : n = q.at
    BY <2>1
  <2>3. cursor' # {}
    <3>1. PICK q \in tail[t] : \A p \in tail[t] : p.at <= q.at
      BY <1>1, <2>1, Latest
    <3> QED BY <2>1, <3>1
  <2>4. \A u \in Tailers : tail'[u] = IF u = t THEN {} ELSE tail[u]
    BY <1>1, <2>1
  <2>5. Orderly'
    <3>1. \A row \in open, n \in cursor' : ~(row.at <= n)
      BY <1>1, <2>2 DEF Caught, Orderly
    <3>2. \A n \in cursor' : n <= clock
      BY <1>1, <2>2
    <3> QED BY <1>1, <2>1, <2>3, <2>4, <3>1, <3>2 DEF Caught, Orderly
  <2>6. \A w \in Pushes : Has(w) => Has(w)'
    BY <2>1 DEF Has
  <2>7. \A row \in ledger : row.push \in Pushes
    BY <1>1 DEF Rows, Pushes
  <2>8. WindowsWhole'
    BY <2>1, <2>4, <2>6, <2>7 DEF Caught, WindowsWhole
  <2>9. ASSUME NEW row \in ledger, NEW n \in cursor', floor < row.at, row.at <= n
        PROVE  Has(row.push)'
    <3>1. PICK q \in tail[t] : n = q.at
      BY <2>2
    <3>2. row \in tail[t] \/ Has(row.push)
      BY <2>9, <3>1 DEF Caught, WindowsWhole
    <3> QED BY <1>3, <2>6, <2>7, <3>2, CommitHas DEF Caught
  <2>10. NoEventLost'
    BY <2>1, <2>9 DEF NoEventLost
  <2> QED BY <2>5, <2>8, <2>10 DEF Caught
<1>4. CASE TailThrow(t) \/ TailCrash(t)
  <2>1. /\ tail' = [tail EXCEPT ![t] = {}]
        /\ UNCHANGED <<clock, ledger, open, cursor, floor, job>>
    BY <1>4 DEF TailThrow, TailCrash, TailEnds, ledgerVars
  <2>2. \A u \in Tailers : tail'[u] = IF u = t THEN {} ELSE tail[u]
    BY <1>1, <2>1
  <2>3. Orderly'
    BY <1>1, <2>1, <2>2 DEF Caught, Orderly
  <2> QED BY <2>1, <2>2, <2>3 DEF Caught, WindowsWhole, NoEventLost, Has
<1> QED BY <1>2, <1>3, <1>4 DEF TailerStep

LEMMA CaughtRunner ==
    ASSUME Caught, TypeOK', NEW r \in Runners,
           RunnerStep(r) \/ Post(r, FALSE) \/ PostLate(r) \/ Fault(r) \/ RunnerCrash(r)
    PROVE  Caught'
<1>1. UNCHANGED <<clock, ledger, open, cursor, tail, floor>>
  BY DEF RunnerStep, StartPass, Pick, EndPass, Resolve, Preflight, Post, PostRefused,
     ReadBack, Commit, RecordFailure, PostLate, Fault, RunnerCrash, ledgerVars, queueVars
<1>2. \A w \in Pushes : Has(w) => Has(w)'
  <2>1. CASE Commit(r)
    <3>1. CASE UNCHANGED job
      BY <3>1 DEF Has
    <3>2. ASSUME NEW j \in job, job' = Updated(j.id, "SYNCED", j.attempts + 1)
          PROVE  \A w \in Pushes : Has(w) => Has(w)'
      BY <3>2, UpdatedHas DEF Caught
    <3> QED BY <2>1, <3>1, <3>2 DEF Commit, Mine
  <2>2. CASE RecordFailure(r)
    BY <2>2, UpdatedHas DEF RecordFailure, Caught
  <2>3. CASE UNCHANGED job
    BY <2>3 DEF Has
  <2> QED BY <2>1, <2>2, <2>3 DEF RunnerStep, StartPass, Pick, EndPass, Resolve, Preflight,
     Post, PostRefused, ReadBack, PostLate, Fault, RunnerCrash
<1> QED BY <1>1, <1>2, CaughtAside

LEMMA CaughtStep == MaxOpenTxns <= 1 /\ Caught /\ [Next]_vars => Caught'
<1> SUFFICES ASSUME MaxOpenTxns <= 1, Caught, [Next]_vars PROVE Caught'
  OBVIOUS
<1>1. TypeOK'
  BY TypeStep DEF Caught
<1>2. ASSUME UNCHANGED <<clock, ledger, open, cursor, tail, floor, job>> PROVE Caught'
  BY <1>1, <1>2, CaughtAside DEF Has
<1>3. CASE LedgerNext
  <2>1. CASE \/ \E i \in Invoices : Deliver(i) \/ Reissue(i)
             \/ \E v \in Vehicles, c \in Customers : TransferVehicle(v, c)
    BY <1>2, <2>1 DEF Deliver, Reissue, TransferVehicle, queueVars
  <2> QED BY <1>1, <1>3, <2>1, CaughtBegin, CaughtCommit DEF LedgerNext
<1>4. CASE SyncNext
  <2>1. ASSUME NEW d \in inflight, Land(d) PROVE Caught'
    BY <1>2, <2>1 DEF Land, ledgerVars, queueVars
  <2> QED BY <1>1, <1>4, <2>1, CaughtTailer, CaughtRunner DEF SyncNext
<1>5. CASE UNCHANGED vars
  BY <1>2, <1>5 DEF vars, ledgerVars, queueVars
<1> QED BY <1>1, <1>3, <1>4, <1>5, CaughtOwner DEF Next

LEMMA CaughtInit == Init => Caught
<1> SUFFICES ASSUME Init PROVE Caught
  OBVIOUS
<1>1. TypeOK
  BY TypeInit
<1> QED BY <1>1, FS_EmptySet DEF Init, Caught, Orderly, WindowsWhole, NoEventLost

\* As long as no two ledger transactions are open at once, every row between the
\* start of the sync and the cursor has its job, however many tailers and runners
\* overlap or die, whatever is reset, reposted or replayed.  (With two open, a row
\* drawn first may commit behind the cursor.)
THEOREM NoEventIsLost == MaxOpenTxns <= 1 => (Spec => []NoEventLost)
<1>1. SUFFICES ASSUME MaxOpenTxns <= 1 PROVE Spec => []NoEventLost
  OBVIOUS
<1>2. Init => Caught
  BY CaughtInit
<1>3. Caught /\ [Next]_vars => Caught'
  BY <1>1, CaughtStep
<1>4. Caught => NoEventLost
  BY DEF Caught
<1> QED BY <1>2, <1>3, <1>4, PTL DEF Spec

\* What the windows hold or have had enqueued up to a payment or void has its
\* invoice's row in it, if that row is before it.
LEMMA WindowsResolve == Caught => StuckOnlyByDisorder
<1> SUFFICES ASSUME Caught, NEW t \in Tailers, NEW row \in tail[t], AfterInvoice(row)
             PROVE  FindsInvoice(tail[t], row)
  BY DEF StuckOnlyByDisorder
<1>1. PICK q \in ledger : q.push = InvoicePush(row.push) /\ floor < q.at /\ q.at < row.at
  BY DEF AfterInvoice
<1>2. q.at <= row.at
  BY <1>1 DEF Caught, TypeOK, Rows
<1>3. q \in tail[t] \/ Has(q.push)
  BY <1>1, <1>2 DEF Caught, WindowsWhole
<1> QED BY <1>1, <1>3 DEF FindsInvoice

\* As long as ledger transactions do not overlap, a payment or void whose invoice is
\* booked before it and after the start of the sync never makes the tailer throw,
\* whatever the batch size, however its passes overlap and die, whatever is reset,
\* edited, voided or reissued in between.
THEOREM TailerGetsThrough == MaxOpenTxns <= 1 => (Spec => []StuckOnlyByDisorder)
<1>1. SUFFICES ASSUME MaxOpenTxns <= 1 PROVE Spec => []StuckOnlyByDisorder
  OBVIOUS
<1>2. Init => Caught
  BY CaughtInit
<1>3. Caught /\ [Next]_vars => Caught'
  BY <1>1, CaughtStep
<1>4. Caught => StuckOnlyByDisorder
  BY WindowsResolve
<1> QED BY <1>2, <1>3, <1>4, PTL DEF Spec

(***************************************************************************)
(* With one runner pass at a time, only a late tap takes SYNCED back.      *)
(***************************************************************************)

OneRunner == \A r, q \in Runners : r = q

\* The job that a tap has read, if it is still in the table.
FailedStill(y) == \A j \in job : j.id = replaying[y].job.id =>
                                     j.status \in {"FAILED", "DEAD_LETTER"}

\* A job in hand is PENDING in the table, one that a tap has read has failed, unless
\* the tap is late; neither is an id that a later tailer transaction could give out.
Exclusive ==
    /\ TypeOK
    /\ \A j \in job : j.id.pass <= pass
    /\ \A j, k \in job : j.id = k.id => j = k
    /\ \A r \in Runners : run[r].job # NoJob =>
           /\ run[r].job.id.pass <= pass
           /\ \A j \in job : j.id = run[r].job.id => j.status = "PENDING"
    /\ \A y \in Taps : replaying[y].job # NoJob =>
           /\ replaying[y].job.id.pass <= pass
           /\ ~replaying[y].late => FailedStill(y)

SyncedStays == \A j \in job : j.status = "SYNCED" =>
                   \/ \E k \in job' : k.id = j.id /\ k.status = "SYNCED"
                   \/ \E y \in Taps : /\ replaying[y].late /\ replaying'[y] = NoReplay
                                     /\ replaying[y].job.id = j.id

LEMMA ExclusiveInit == Init => Exclusive
<1> SUFFICES ASSUME Init PROVE Exclusive
  OBVIOUS
<1>1. TypeOK
  BY TypeInit
<1> QED BY <1>1 DEF Init, Exclusive, Idle, NoReplay

\* A row that is updated keeps its id and takes the status; the others are as before.
LEMMA UpdatedExactly ==
    ASSUME TypeOK, NEW id, NEW st, NEW n
    PROVE  /\ \A j \in job : j.id # id => j \in Updated(id, st, n)
           /\ \A k \in Updated(id, st, n) :
                  \E j \in job : k.id = j.id /\ IF j.id = id THEN k.status = st ELSE k = j
           /\ (\A j, k \in job : j.id = k.id => j = k)
                  => \A j, k \in Updated(id, st, n) : j.id = k.id => j = k
<1> DEFINE new(j) == IF j.id = id THEN [j EXCEPT !.status = st, !.attempts = n] ELSE j
<1>1. ASSUME NEW j \in job
      PROVE  new(j).id = j.id /\ IF j.id = id THEN new(j).status = st ELSE new(j) = j
  BY DEF TypeOK, JobRows
<1>2. Updated(id, st, n) = {new(j) : j \in job}
  BY DEF Updated
<1> HIDE DEF new
<1> QED BY <1>1, <1>2

\* The parts about the table, when one row is updated.
LEMMA ExclusiveUpdate ==
    ASSUME Exclusive, NEW id, NEW st, NEW n, job' = Updated(id, st, n)
    PROVE  /\ \A k \in job' : \E j \in job : k.id = j.id
           /\ \A j, k \in job' : j.id = k.id => j = k
           /\ \A k \in job' : k.id = id => k.status = st
           /\ \A k \in job' : k.id # id => k \in job
           /\ \A j \in job : j.id # id => j \in job'
           /\ (\A j \in job : j.id = id => j.status # "SYNCED") => SyncedStays
<1>1. TypeOK /\ \A j, k \in job : j.id = k.id => j = k
  BY DEF Exclusive
<1>2. /\ \A j \in job : j.id # id => j \in job'
      /\ \A k \in job' : \E j \in job : k.id = j.id /\ IF j.id = id THEN k.status = st ELSE k = j
      /\ \A j, k \in job' : j.id = k.id => j = k
  BY <1>1, UpdatedExactly
<1> QED BY <1>2 DEF SyncedStays

\* A window's new jobs have ids of their own, later than all there were.
LEMMA NewJobsApart ==
    ASSUME Exclusive, NEW rows \in SUBSET Rows
    PROVE  /\ \A k \in NewJobs(rows) : k.id.pass = pass + 1
           /\ \A j, k \in NewJobs(rows) : j.id = k.id => j = k
<1> DEFINE new(x) == [id |-> NewId(x[1], x[2]), status |-> "PENDING", attempts |-> 0,
                      deps |-> UNION {IdsOf(rows, d) : d \in DependsOn(x[2])}]
<1>1. ASSUME NEW x PROVE new(x).id = [pass |-> pass + 1, at |-> x[1].at, push |-> x[2]]
  BY DEF NewId
<1>2. ASSUME NEW x, NEW y, new(x).id = new(y).id PROVE new(x) = new(y)
  <2>1. x[2] = y[2] /\ x[1].at = y[1].at
    <3> HIDE DEF new
    <3>1. [pass |-> pass + 1, at |-> x[1].at, push |-> x[2]]
            = [pass |-> pass + 1, at |-> y[1].at, push |-> y[2]]
      BY <1>1, <1>2
    <3> QED BY <3>1
  <2>2. NewId(x[1], x[2]) = NewId(y[1], y[2])
    BY <2>1 DEF NewId
  <2> QED BY <2>1, <2>2, Zenon
<1>3. \A k \in NewJobs(rows) : \E x : k = new(x)
  BY DEF NewJobs
<1>4. ASSUME NEW x PROVE new(x).id.pass = pass + 1
  BY DEF NewId
<1>5. \A x, y : new(x).id = new(y).id => new(x) = new(y)
  <2> HIDE DEF new
  <2> QED BY <1>2
<1> HIDE DEF new
<1> QED BY <1>3, <1>4, <1>5

\* Steps that leave the table alone.
LEMMA ExclusiveAside ==
    ASSUME Exclusive, TypeOK', UNCHANGED <<job, pass>>,
           UNCHANGED replaying,
           \A r \in Runners : run'[r].job # NoJob => run'[r].job = run[r].job
    PROVE  Exclusive' /\ SyncedStays
BY DEF Exclusive, SyncedStays, FailedStill

LEMMA ExclusiveOwner ==
    ASSUME Exclusive, TypeOK', OwnerNext
    PROVE  Exclusive' /\ SyncedStays
<1>1. ASSUME NEW n \in 0..clock, Enable(n) PROVE Exclusive' /\ SyncedStays
  BY <1>1, ExclusiveAside DEF Enable
<1>2. CASE Disable
  BY <1>2, ExclusiveAside DEF Disable, queueVars
<1>3. CASE Reset
  <2>1. /\ job' = {j \in job : j.status # "PENDING"}
        /\ UNCHANGED <<pass, run, replaying>>
    BY <1>3 DEF Reset
  <2> QED BY <2>1 DEF Exclusive, SyncedStays, FailedStill
<1>4. ASSUME NEW y \in Taps, NEW j \in job, ReplayRead(y, j) PROVE Exclusive' /\ SyncedStays
  <2>1. /\ j.status \in {"FAILED", "DEAD_LETTER"} /\ UNCHANGED <<job, pass, run>>
        /\ \A x \in Taps : replaying'[x].late = replaying[x].late
        /\ \A x \in Taps : replaying'[x].job = IF x = y THEN j ELSE replaying[x].job
    BY <1>4 DEF ReplayRead, queueVars, Exclusive, TypeOK
  <2>2. \A x \in Taps : replaying'[x].job # NoJob =>
            /\ replaying'[x].job.id.pass <= pass
            /\ ~replaying'[x].late => FailedStill(x)'
    BY <2>1 DEF Exclusive, FailedStill
  <2> QED BY <2>1, <2>2 DEF Exclusive, SyncedStays
<1>5. ASSUME NEW y \in Taps, ReplayWrite(y) PROVE Exclusive' /\ SyncedStays
  <2> DEFINE id == replaying[y].job.id
  <2>1. /\ replaying[y].job # NoJob /\ job' = Updated(id, "PENDING", 0)
        /\ UNCHANGED <<pass, run>> /\ replaying'[y] = NoReplay
    BY <1>5 DEF ReplayWrite, queueVars
  <2>2. \A x \in Taps \ {y} :
            /\ replaying'[x].job = replaying[x].job
            /\ ~replaying'[x].late => ~replaying[x].late
            /\ replaying[x].job # NoJob /\ ~replaying'[x].late => replaying[x].job.id # id
    BY <1>5 DEF ReplayWrite, AlsoRead, Exclusive, TypeOK
  <2>3. ~replaying[y].late => \A j \in job : j.id = id => j.status # "SYNCED"
    BY <2>1 DEF Exclusive, FailedStill
  <2> HIDE DEF id
  <2>4. /\ \A k \in job' : \E j \in job : k.id = j.id
        /\ \A j, k \in job' : j.id = k.id => j = k
        /\ \A k \in job' : k.id = id => k.status = "PENDING"
        /\ \A k \in job' : k.id # id => k \in job
        /\ \A j \in job : j.id # id => j \in job'
        /\ (\A j \in job : j.id = id => j.status # "SYNCED") => SyncedStays
    BY <2>1, ExclusiveUpdate
  <2>5. SyncedStays
    <3>1. CASE ~replaying[y].late
      BY <2>3, <2>4, <3>1
    <3>2. CASE replaying[y].late
      BY <2>1, <2>4, <3>2 DEF SyncedStays, id
    <3> QED BY <3>1, <3>2
  <2>6. ASSUME NEW x \in Taps, replaying'[x].job # NoJob
        PROVE  /\ replaying'[x].job.id.pass <= pass
               /\ ~replaying'[x].late => FailedStill(x)'
    <3>1. x # y
      BY <2>1, <2>6 DEF NoReplay
    <3> QED BY <2>2, <2>4, <2>6, <3>1 DEF Exclusive, FailedStill
  <2>7. \A r \in Runners : run[r].job # NoJob =>
            /\ run[r].job.id.pass <= pass
            /\ \A j \in job' : j.id = run[r].job.id => j.status = "PENDING"
    BY <2>4 DEF Exclusive
  <2>8. \A j \in job' : j.id.pass <= pass
    BY <2>4 DEF Exclusive
  <2> QED BY <2>1, <2>4, <2>5, <2>6, <2>7, <2>8 DEF Exclusive
<1> QED BY <1>1, <1>2, <1>3, <1>4, <1>5 DEF OwnerNext

LEMMA ExclusiveTailer ==
    ASSUME Exclusive, TypeOK', NEW t \in Tailers, TailerStep(t) \/ TailCrash(t)
    PROVE  Exclusive' /\ SyncedStays
<1>1. CASE TailCommit(t)
  <2>1. /\ job' = job \union NewJobs(tail[t]) /\ UNCHANGED <<run, replaying>>
        /\ pass' = IF NewJobs(tail[t]) = {} THEN pass ELSE pass + 1
        /\ tail[t] \in SUBSET Rows /\ pass \in Nat
    BY <1>1 DEF TailCommit, Exclusive, TypeOK
  <2> DEFINE new == NewJobs(tail[t])
  <2>2. /\ \A k \in new : k.id.pass = pass + 1
        /\ \A j, k \in new : j.id = k.id => j = k
    BY <2>1, NewJobsApart
  <2> HIDE DEF new
  <2>3. job' = job \union new /\ pass' = IF new = {} THEN pass ELSE pass + 1
    BY <2>1 DEF new
  <2>4. /\ \A j \in job : j.id.pass \in Nat
        /\ \A r \in Runners : run[r].job # NoJob => run[r].job.id.pass \in Nat
        /\ \A y \in Taps : replaying[y].job # NoJob => replaying[y].job.id.pass \in Nat
    BY DEF Exclusive, TypeOK, RunStates, JobRows, JobIds
  <2>5. (\A j \in job : j.id.pass <= pass)' /\ (\A j, k \in job : j.id = k.id => j = k)'
    <3>1. \A j \in job, k \in new : j.id # k.id
      BY <2>1, <2>2, <2>4 DEF Exclusive
    <3> QED BY <2>1, <2>2, <2>3, <2>4, <3>1 DEF Exclusive
  <2>6. ASSUME NEW r \in Runners, run[r].job # NoJob
        PROVE  /\ run[r].job.id.pass <= pass'
               /\ \A j \in job' : j.id = run[r].job.id => j.status = "PENDING"
    BY <2>1, <2>2, <2>3, <2>4, <2>6 DEF Exclusive
  <2>7. ASSUME NEW y \in Taps, replaying[y].job # NoJob
        PROVE  /\ replaying[y].job.id.pass <= pass'
               /\ ~replaying[y].late => FailedStill(y)'
    BY <2>1, <2>2, <2>3, <2>4, <2>7 DEF Exclusive, FailedStill
  <2>8. SyncedStays
    BY <2>1 DEF SyncedStays
  <2> QED BY <2>1, <2>5, <2>6, <2>7, <2>8 DEF Exclusive
<1>2. CASE TailRead(t) \/ TailThrow(t) \/ TailCrash(t)
  BY <1>2, ExclusiveAside DEF TailRead, TailThrow, TailCrash, TailEnds
<1> QED BY <1>1, <1>2 DEF TailerStep

\* What the control of a runner does to the jobs in hand.
LEMMA ControlJobs ==
    ASSUME TypeOK, NEW r \in Runners
    PROVE  /\ Abort(r) \/ NextJob(r) =>
                  \A q \in Runners : run'[q].job = IF q = r THEN NoJob ELSE run[q].job
           /\ \A pc : Goto(r, pc) => \A q \in Runners : run'[q].job = run[q].job
<1>1. run \in [Runners -> RunStates]
  BY DEF TypeOK
<1>2. Abort(r) => \A q \in Runners : run'[q].job = IF q = r THEN NoJob ELSE run[q].job
  BY <1>1 DEF Abort, Idle
<1>3. NextJob(r) => \A q \in Runners : run'[q].job = IF q = r THEN NoJob ELSE run[q].job
  BY <1>1 DEF NextJob, RunStates
<1>4. \A pc : Goto(r, pc) => \A q \in Runners : run'[q].job = run[q].job
  BY <1>1 DEF Goto, RunStates
<1> QED BY <1>2, <1>3, <1>4

\* A verdict on the job in hand ends it; no other pass or replay has that job.
LEMMA ExclusiveVerdict ==
    ASSUME OneRunner, Exclusive, TypeOK', NEW r \in Runners, run[r].job # NoJob,
           NEW st, NEW n, job' = Updated(run[r].job.id, st, n),
           Abort(r) \/ NextJob(r), UNCHANGED <<pass, replaying>>
    PROVE  Exclusive' /\ SyncedStays
<1>1. \A j \in job : j.id = run[r].job.id => j.status = "PENDING"
  BY DEF Exclusive
<1>2. PICK id : id = run[r].job.id
  OBVIOUS
<1>3. \A j \in job : j.id = id => j.status # "SYNCED"
  BY <1>1, <1>2
<1>4. /\ \A k \in job' : \E j \in job : k.id = j.id
      /\ \A j, k \in job' : j.id = k.id => j = k
      /\ \A k \in job' : k.id # id => k \in job
      /\ SyncedStays
  BY <1>2, <1>3, ExclusiveUpdate
<1>5. \A q \in Runners : run'[q].job = NoJob
  BY ControlJobs DEF OneRunner, Exclusive
<1>6. ASSUME NEW y \in Taps, replaying[y].job # NoJob, ~replaying[y].late,
             NEW k \in job', k.id = replaying[y].job.id
      PROVE  k.status \in {"FAILED", "DEAD_LETTER"}
  <2>1. PICK j \in job : k.id = j.id
    BY <1>4
  <2>2. k.id # id
    BY <1>1, <1>2, <1>6, <2>1 DEF Exclusive, FailedStill
  <2> QED BY <1>4, <1>6, <2>2 DEF Exclusive, FailedStill
<1>7. \A k \in job' : k.id.pass <= pass
  BY <1>4 DEF Exclusive
<1> QED BY <1>4, <1>5, <1>6, <1>7 DEF Exclusive, FailedStill

LEMMA ExclusiveRunner ==
    ASSUME OneRunner, Exclusive, TypeOK', NEW r \in Runners,
           RunnerStep(r) \/ Post(r, FALSE) \/ PostLate(r) \/ Fault(r) \/ RunnerCrash(r)
    PROVE  Exclusive' /\ SyncedStays
<1>0. TypeOK /\ run \in [Runners -> RunStates]
  BY DEF Exclusive, TypeOK
<1>1. UNCHANGED <<pass, replaying>>
  BY DEF RunnerStep, StartPass, Pick, EndPass, Resolve, Preflight, Post, PostRefused,
     ReadBack, Commit, RecordFailure, PostLate, Fault, RunnerCrash, queueVars
<1>2. CASE Pick(r)
  <2>1. UNCHANGED job
    BY <1>2 DEF Pick
  <2>2. PICK id \in run[r].batch :
             \/ Abort(r)
             \/ run' = [run EXCEPT ![r].batch = @ \ {id}]
             \/ \E j \in job : /\ j.id = id /\ Ready(j)
                               /\ run' = [run EXCEPT ![r] = [@ EXCEPT !.pc = "resolve", !.job = j,
                                                             !.batch = run[r].batch \ {id}]]
    BY <1>2 DEF Pick
  <2>3. CASE Abort(r)
    BY <1>0, <1>1, <2>1, <2>3, ControlJobs, ExclusiveAside
  <2>4. CASE run' = [run EXCEPT ![r].batch = @ \ {id}]
    <3>1. \A q \in Runners : run'[q].job = run[q].job
      BY <1>0, <2>4 DEF RunStates
    <3> QED BY <1>1, <2>1, <3>1, ExclusiveAside
  <2>5. ASSUME NEW j \in job, j.id = id, Ready(j),
               run' = [run EXCEPT ![r] = [@ EXCEPT !.pc = "resolve", !.job = j,
                                                   !.batch = run[r].batch \ {id}]]
        PROVE  Exclusive' /\ SyncedStays
    <3>1. \A q \in Runners : run'[q].job = IF q = r THEN j ELSE run[q].job
      BY <1>0, <2>5 DEF RunStates
    <3>2. \A y \in Taps : replaying'[y] = replaying[y] /\ (FailedStill(y) => FailedStill(y)')
      BY <1>1, <2>1 DEF FailedStill
    <3> QED BY <1>1, <2>1, <2>5, <3>1, <3>2 DEF Exclusive, SyncedStays, Ready
  <2> QED BY <2>2, <2>3, <2>4, <2>5
<1>3. CASE Commit(r)
  <2>1. CASE Goto(r, "fail") /\ UNCHANGED job
    BY <1>0, <1>1, <2>1, ControlJobs, ExclusiveAside
  <2>2. ASSUME NEW j \in Mine(r), job' = Updated(j.id, "SYNCED", j.attempts + 1), NextJob(r)
        PROVE  Exclusive' /\ SyncedStays
    <3>1. run[r].job \in JobRows
      BY <1>0, <1>3 DEF Commit, TypeOK
    <3>2. run[r].job # NoJob
      BY <3>1, ErpSyncAssumption
    <3>3. job' = Updated(run[r].job.id, "SYNCED", j.attempts + 1)
      BY <2>2 DEF Mine
    <3> QED BY <1>1, <2>2, <3>2, <3>3, ExclusiveVerdict
  <2> QED BY <1>3, <2>1, <2>2 DEF Commit
<1>4. CASE RecordFailure(r)
  <2>1. run[r].job # NoJob
    BY <1>0, <1>4, ErpSyncAssumption DEF RecordFailure, TypeOK
  <2> QED BY <1>1, <1>4, <2>1, ExclusiveVerdict DEF RecordFailure
<1>5. CASE StartPass(r) \/ Resolve(r)
  <2>1. \A q \in Runners : run'[q].job = run[q].job
    BY <1>0, <1>5, ControlJobs DEF StartPass, Resolve, RunStates
  <2> QED BY <1>1, <1>5, <2>1, ExclusiveAside DEF StartPass, Resolve
<1>6. CASE EndPass(r) \/ RunnerCrash(r)
  BY <1>0, <1>1, <1>6, ControlJobs, ExclusiveAside DEF EndPass, RunnerCrash
<1>7. ASSUME NEW pc, Goto(r, pc), UNCHANGED job PROVE Exclusive' /\ SyncedStays
  BY <1>0, <1>1, <1>7, ControlJobs, ExclusiveAside
<1>8. CASE Preflight(r) \/ Post(r, TRUE) \/ PostRefused(r) \/ ReadBack(r) \/ Post(r, FALSE)
           \/ PostLate(r) \/ Fault(r)
  BY <1>7, <1>8 DEF Preflight, Post, PostRefused, ReadBack, PostLate, Fault
<1> QED BY <1>2, <1>3, <1>4, <1>5, <1>6, <1>8 DEF RunnerStep

LEMMA ExclusiveStep == OneRunner /\ Exclusive /\ [Next]_vars => Exclusive' /\ SyncedStays
<1> SUFFICES ASSUME OneRunner, Exclusive, [Next]_vars PROVE Exclusive' /\ SyncedStays
  OBVIOUS
<1>1. TypeOK'
  BY TypeStep DEF Exclusive
<1>2. ASSUME UNCHANGED <<job, pass, run, replaying>> PROVE Exclusive' /\ SyncedStays
  BY <1>1, <1>2, ExclusiveAside
<1>3. CASE LedgerNext
  BY <1>2, <1>3 DEF LedgerNext, BeginPost, CommitPost, Deliver, Reissue, TransferVehicle, queueVars
<1>4. CASE SyncNext
  <2>1. ASSUME NEW d \in inflight, Land(d) PROVE Exclusive' /\ SyncedStays
    BY <1>2, <2>1 DEF Land, queueVars
  <2> QED BY <1>1, <1>4, <2>1, ExclusiveTailer, ExclusiveRunner DEF SyncNext
<1>5. CASE UNCHANGED vars
  BY <1>2, <1>5 DEF vars, queueVars
<1> QED BY <1>1, <1>3, <1>4, <1>5, ExclusiveOwner DEF Next

\* With at most one runner pass alive, a SYNCED job stays SYNCED but for a tap that
\* was late: no verdict of a pass ever writes over it, and no tap that found it FAILED
\* unless another tap has put it back since, through any number of faults, crashes,
\* resets, taps and overlapping tailers.
THEOREM SyncedStaysSynced == OneRunner => (Spec => SyncedIsFinal)
<1>1. SUFFICES ASSUME OneRunner PROVE Spec => SyncedIsFinal
  OBVIOUS
<1>2. Init => Exclusive
  BY ExclusiveInit
<1>3. Exclusive /\ [Next]_vars => Exclusive' /\ [SyncedStays]_vars
  BY <1>1, ExclusiveStep
<1> QED BY <1>2, <1>3, PTL DEF Spec, SyncedIsFinal, SyncedStays

(***************************************************************************)
(* Where nothing goes wrong outside, no job fails.                         *)
(***************************************************************************)

\* One runner pass at a time, no POST that is given up on, no misbooked document, no
\* vehicle that changes hands, no reset: what is left is crashes and faults.
Quiet ==
    /\ OneRunner
    /\ \A b \in Budgets : \A k \in {"late", "misbook", "transfer", "reset"} : b[k] = 0

Unfaulted == \A b \in Budgets : budget["fault"] >= b["fault"]

Spent ==
    /\ budget \in [BudgetKeys -> Nat]
    /\ \A k \in {"late", "misbook", "transfer", "reset"} : budget[k] = 0
    /\ \E b \in Budgets : budget["fault"] <= b["fault"]

\* What a job waits for is listed, and an invoice has a name only if its customer has.
NamesInOrder ==
    /\ \A j \in job : \A d \in DependsOn(j.id.push) : \E id \in j.deps : id.push = d
    /\ \A i \in Invoices : map[i] # NoName => map[owner[VehicleOf[i]]] # NoName

\* The job in hand is still in the table, with all names its payload needs.
InHand(r) ==
    run[r].job # NoJob =>
        /\ \E j \in job : j.id = run[r].job.id
        /\ Resolved(Doing(r))
        /\ run[r].pc = "post" => Doing(r) \notin Names

NothingFailed ==
    Unfaulted => /\ \A j \in job : j.status \in {"PENDING", "SYNCED"}
                 /\ \A y \in Taps : replaying[y].job = NoJob
                 /\ \A r \in Runners : run[r].pc # "fail"

Smooth ==
    /\ Spent
    /\ inflight = {} /\ \A d \in erp : d.ok = TRUE
    /\ NamesInOrder
    /\ \A r \in Runners : InHand(r)
    /\ NothingFailed

LEMMA SmoothInit == Quiet /\ Init => Smooth
<1> SUFFICES ASSUME Quiet, Init PROVE Smooth
  OBVIOUS
<1>1. Spent
  BY ErpSyncAssumption DEF Quiet, Init, Spent, BudgetKeys
<1>2. NamesInOrder
  BY ErpSyncAssumption DEF Init, NamesInOrder, Sources
<1> QED BY <1>1, <1>2 DEF Init, Smooth, InHand, NothingFailed, Idle, NoReplay

LEMMA SpentStays ==
    ASSUME Spent, \/ UNCHANGED budget
                  \/ \E k \in BudgetKeys : Spend(k)
    PROVE  Spent' /\ (Unfaulted' => Unfaulted)
<1>1. budget["fault"] \in Nat /\ \A b \in Budgets : b["fault"] \in Nat
  BY ErpSyncAssumption DEF Spent, BudgetKeys
<1>2. CASE UNCHANGED budget
  BY <1>2 DEF Spent, Unfaulted
<1>3. ASSUME NEW k \in BudgetKeys, Spend(k) PROVE Spent' /\ (Unfaulted' => Unfaulted)
  <2>1. budget' \in [BudgetKeys -> Nat] /\ budget[k] > 0
    BY <1>3, SpendType DEF Spent, Spend
  <2>2. \A l \in BudgetKeys : budget'[l] <= budget[l] /\ (l # k => budget'[l] = budget[l])
    BY <1>3 DEF Spent, Spend
  <2> QED BY <1>1, <2>1, <2>2 DEF Spent, Unfaulted, BudgetKeys
<1> QED BY <1>2, <1>3

\* A fault that is spent shows.
LEMMA FaultShows ==
    ASSUME Spent, Spend("fault")
    PROVE  ~Unfaulted'
<1>1. PICK b \in Budgets : budget["fault"] <= b["fault"]
  BY DEF Spent
<1>2. budget["fault"] \in Nat /\ b["fault"] \in Nat /\ budget'["fault"] = budget["fault"] - 1
  BY ErpSyncAssumption DEF Spent, Spend, BudgetKeys
<1>3. ~(budget'["fault"] >= b["fault"])
  BY <1>1, <1>2
<1> QED BY <1>3 DEF Unfaulted

\* Names that are there stay there, and so do the jobs.
Grows == /\ UNCHANGED owner
         /\ \A s \in Sources : map[s] # NoName => map'[s] # NoName
         /\ \A j \in job : \E k \in job' : k.id = j.id

LEMMA ResolvedStays ==
    ASSUME TypeOK, Grows, NEW w \in Pushes, Resolved(w)
    PROVE  Resolved(w)'
<1>1. Prereq(w)' = Prereq(w)
  BY DEF Grows, Prereq, CustomerPush
<1>2. \A p \in Prereq(w) : p.src \in Sources
  BY PrereqType DEF Pushes, LedgerPushes, Sources
<1> QED BY <1>1, <1>2 DEF Resolved, Grows

\* A pass that keeps its job keeps what it has for it.
LEMMA InHandStays ==
    ASSUME TypeOK, Grows, NEW r \in Runners, InHand(r),
           run'[r].job # NoJob => run'[r].job = run[r].job,
           run'[r].job # NoJob /\ run'[r].pc = "post" => Doing(r) \notin Names'
    PROVE  InHand(r)'
<1> SUFFICES ASSUME run'[r].job # NoJob PROVE InHand(r)'
  BY DEF InHand
<1>1. run'[r].job = run[r].job /\ run[r].job # NoJob /\ Doing(r)' = Doing(r)
  BY DEF Doing
<1>2. PICK w \in Pushes : w = Doing(r)
  BY <1>1 DEF TypeOK, RunStates, JobRows, JobIds, Doing
<1>3. Resolved(w)'
  BY <1>1, <1>2, ResolvedStays DEF InHand
<1>4. Resolved(Doing(r))'
  <2>1. Doing(r)' = w
    BY <1>1, <1>2
  <2> QED BY <1>3, <2>1 DEF Resolved, Prereq, CustomerPush, InvoicePush, InvoiceFor
<1>5. \E j \in job' : j.id = run'[r].job.id
  BY <1>1 DEF InHand, Grows
<1> QED BY <1>1, <1>4, <1>5 DEF InHand

\* The dep gate: a job that is ready has all the names its payload needs.
LEMMA ReadyResolved ==
    ASSUME TypeOK, SyncedMeansRecorded, NamesInOrder, NEW j \in job, DepsSynced(j)
    PROVE  Resolved(j.id.push)
<1> DEFINE w == j.id.push
<1>1. w \in Pushes
  BY DEF TypeOK, JobRows, JobIds
<1>2. \A d \in DependsOn(w) : map[d.src] # NoName
  <2> SUFFICES ASSUME NEW d \in DependsOn(w) PROVE map[d.src] # NoName
    OBVIOUS
  <2>1. PICK id \in j.deps : id.push = d
    BY DEF NamesInOrder
  <2>2. PICK k \in job : k.id = id /\ k.status = "SYNCED"
    BY DEF DepsSynced
  <2> QED BY <2>1, <2>2 DEF SyncedMeansRecorded
<1> HIDE DEF w
<1>3. CASE w.op \in {"PUSH_PAYMENT", "PUSH_VOID"}
  <2>1. map[InvoiceFor(w)] # NoName /\ InvoiceFor(w) \in Invoices
    BY <1>1, <1>2, <1>3, ErpSyncAssumption DEF DependsOn, NeedsInvoice, InvoicePush,
       InvoiceFor, Push, Pushes, LedgerPushes
  <2>2. map[owner[VehicleOf[InvoiceFor(w)]]] # NoName
    BY <2>1 DEF NamesInOrder
  <2>3. Prereq(w) = {CustomerPush(w), InvoicePush(w)}
    BY <1>3 DEF Prereq
  <2> QED BY <2>1, <2>2, <2>3 DEF Resolved, CustomerPush, InvoicePush, Push, w
<1>4. CASE w.op \notin {"PUSH_PAYMENT", "PUSH_VOID"}
  BY <1>2, <1>4 DEF DependsOn, NeedsInvoice, Resolved, w
<1> QED BY <1>3, <1>4

\* Every push a new job waits for has a job, and the job lists it.
LEMMA NewJobsList ==
    ASSUME TypeOK, NEW rows \in SUBSET Rows, Resolvable(rows),
           NEW k \in NewJobs(rows), NEW d \in DependsOn(k.id.push)
    PROVE  \E id \in k.deps : id.push = d
<1> DEFINE new(x) == [id |-> NewId(x[1], x[2]), status |-> "PENDING", attempts |-> 0,
                      deps |-> UNION {IdsOf(rows, c) : c \in DependsOn(x[2])}]
<1>1. PICK x \in {y \in rows \X Pushes : /\ y[2] \in Wanted(y[1])
                                         /\ ~Has(y[2])
                                         /\ First(rows, y[1], y[2])} : k = new(x)
  BY DEF NewJobs
<1>2. PICK row \in rows : row = x[1]
  BY <1>1
<1>3. PICK w \in Pushes : w = x[2]
  BY <1>1
<1>4. w \in Wanted(row) /\ k.id.push = w /\ IdsOf(rows, d) \subseteq k.deps
  <2>1. k.id.push = w
    BY <1>1, <1>3 DEF NewId
  <2>2. k.deps = UNION {IdsOf(rows, c) : c \in DependsOn(w)}
    BY <1>1, <1>3
  <2> QED BY <1>1, <1>2, <1>3, <2>1, <2>2
<1> HIDE DEF new
<1>5. w = row.push
  <2>1. w = row.push \/ w.op = "PUSH_CUSTOMER"
    BY <1>4 DEF Wanted
  <2>2. w.op = "PUSH_CUSTOMER" => DependsOn(w) = {}
    BY DEF DependsOn, NeedsInvoice, Prereq
  <2> QED BY <1>4, <2>1, <2>2
<1>6. d \in Pushes /\ d \in DependsOn(row.push)
  BY <1>4, <1>5, DependsOnType
<1>7. Has(d) \/ \E q \in rows : d \in Wanted(q)
  <2>1. CASE row.push.op \in {"PUSH_PAYMENT", "PUSH_VOID"}
    <3>1. d = InvoicePush(row.push)
      BY <1>6, <2>1 DEF DependsOn, NeedsInvoice
    <3> QED BY <2>1, <3>1 DEF Resolvable, FindsInvoice, NeedsInvoice, Wanted
  <2>2. CASE row.push.op \notin {"PUSH_PAYMENT", "PUSH_VOID"}
    <3>1. d.op = "PUSH_CUSTOMER"
      BY <1>6, <2>2 DEF DependsOn, NeedsInvoice, Prereq, CustomerPush, Push, Rows,
         LedgerPushes
    <3> QED BY <1>6, <3>1 DEF Wanted
  <2> QED BY <2>1, <2>2
<1>8. \E id \in IdsOf(rows, d) : id.push = d
  <2>1. CASE Has(d)
    BY <2>1 DEF Has, IdsOf
  <2>2. CASE ~Has(d)
    <3> DEFINE asking == {q \in rows : d \in Wanted(q)}
    <3>1. asking \in SUBSET Rows /\ asking # {}
      BY <1>7, <2>2
    <3>2. PICK q \in asking : \A p \in asking : q.at <= p.at
      <4> HIDE DEF asking
      <4> QED BY <3>1, Earliest
    <3>3. q \in {p \in rows : ~Has(d) /\ d \in Wanted(p) /\ First(rows, p, d)}
      BY <2>2, <3>2 DEF First
    <3>4. NewId(q, d) \in IdsOf(rows, d)
      BY <3>3 DEF IdsOf
    <3> QED BY <3>4 DEF NewId
  <2> QED BY <2>1, <2>2
<1> QED BY <1>4, <1>8

\* Steps that touch nothing of it but budgets.
LEMMA SmoothAside ==
    ASSUME Smooth, UNCHANGED <<owner, job, run, map, erp, inflight, replaying>>,
           UNCHANGED budget \/ \E k \in BudgetKeys : Spend(k)
    PROVE  Smooth'
<1>1. Spent' /\ (Unfaulted' => Unfaulted)
  BY SpentStays DEF Smooth
<1>2. NamesInOrder'
  BY DEF Smooth, NamesInOrder, DependsOn, Prereq, CustomerPush
<1>3. ASSUME NEW r \in Runners PROVE InHand(r)'
  BY DEF Smooth, InHand, Resolved, Doing, Prereq, CustomerPush, Names
<1>4. NothingFailed'
  BY <1>1 DEF Smooth, NothingFailed
<1> QED BY <1>1, <1>2, <1>3, <1>4 DEF Smooth

\* Jobs that keep their ids and what they wait for keep the list complete.
LEMMA StillListed ==
    ASSUME NamesInOrder, UNCHANGED owner, NEW k, NEW j \in job, k.id = j.id, k.deps = j.deps
    PROVE  \A d \in DependsOn(k.id.push)' : \E id \in k.deps : id.push = d
<1>1. PICK w : w = k.id.push
  OBVIOUS
<1>2. DependsOn(w)' = DependsOn(w)
  BY DEF DependsOn, Prereq, CustomerPush
<1>3. \A d \in DependsOn(w) : \E id \in k.deps : id.push = d
  BY <1>1 DEF NamesInOrder
<1> QED BY <1>1, <1>2, <1>3

LEMMA UpdatedDeps ==
    ASSUME TypeOK, NEW id, NEW st, NEW n
    PROVE  \A k \in Updated(id, st, n) : \E j \in job : k.id = j.id /\ k.deps = j.deps
<1>1. ASSUME NEW j \in job, NEW k,
             k = IF j.id = id THEN [j EXCEPT !.status = st, !.attempts = n] ELSE j
      PROVE  k.id = j.id /\ k.deps = j.deps
  BY <1>1 DEF TypeOK, JobRows
<1> QED BY <1>1 DEF Updated

LEMMA NamesUpdated ==
    ASSUME TypeOK, NamesInOrder, UNCHANGED owner, NEW id, NEW st, NEW n,
           job' = Updated(id, st, n),
           \A i \in Invoices : map'[i] # NoName => map'[owner[VehicleOf[i]]] # NoName
    PROVE  NamesInOrder'
<1>1. ASSUME NEW k \in job' PROVE \A d \in DependsOn(k.id.push)' : \E x \in k.deps : x.push = d
  <2>1. PICK j \in job : k.id = j.id /\ k.deps = j.deps
    BY UpdatedDeps
  <2> QED BY <2>1, StillListed
<1> QED BY <1>1 DEF NamesInOrder

LEMMA SmoothOwner ==
    ASSUME TypeOK, Smooth, OwnerNext
    PROVE  Smooth'
<1> USE DEF BudgetKeys
<1>1. ASSUME NEW n \in 0..clock, Enable(n) PROVE Smooth'
  BY <1>1, SmoothAside DEF Enable, ledgerVars, erpVars
<1>2. CASE Disable
  BY <1>2, SmoothAside DEF Disable, ledgerVars, erpVars
<1>3. CASE Reset
  BY <1>3 DEF Reset, Spend, Smooth, Spent
<1>4. ASSUME NEW y \in Taps, NEW j \in job, ReplayRead(y, j) PROVE Smooth'
  <2>1. /\ ~Unfaulted /\ j.status \in {"FAILED", "DEAD_LETTER"}
        /\ UNCHANGED <<owner, job, run, map, erp, inflight, budget>>
    BY <1>4 DEF ReplayRead, ledgerVars, erpVars, Smooth, NothingFailed
  <2>2. Spent' /\ ~Unfaulted'
    BY <2>1 DEF Smooth, Spent, Unfaulted
  <2>3. NamesInOrder'
    BY <2>1 DEF Smooth, NamesInOrder, DependsOn, Prereq, CustomerPush
  <2>4. ASSUME NEW r \in Runners PROVE InHand(r)'
    BY <2>1 DEF Smooth, InHand, Resolved, Doing, Prereq, CustomerPush, Names
  <2> QED BY <2>1, <2>2, <2>3, <2>4 DEF Smooth, NothingFailed
<1>5. ASSUME NEW y \in Taps, ReplayWrite(y) PROVE Smooth'
  <2>1. /\ replaying[y].job # NoJob /\ job' = Updated(replaying[y].job.id, "PENDING", 0)
        /\ UNCHANGED <<owner, run, map, erp, inflight, budget>>
    BY <1>5 DEF ReplayWrite, ledgerVars, erpVars
  <2>2. Spent' /\ ~Unfaulted'
    BY <2>1 DEF Smooth, NothingFailed, Spent, Unfaulted
  <2>3. Grows
    BY <2>1, UpdatedKeeps DEF Grows
  <2>4. NamesInOrder'
    BY <2>1, NamesUpdated DEF Smooth, NamesInOrder
  <2>5. ASSUME NEW r \in Runners PROVE InHand(r)'
    BY <2>1, <2>3, InHandStays DEF Smooth, InHand, Names
  <2> QED BY <2>1, <2>2, <2>4, <2>5 DEF Smooth, NothingFailed
<1> QED BY <1>1, <1>2, <1>3, <1>4, <1>5 DEF OwnerNext

LEMMA SmoothTailer ==
    ASSUME TypeOK, Smooth, NEW t \in Tailers, TailerStep(t) \/ TailCrash(t)
    PROVE  Smooth'
<1> USE DEF BudgetKeys
<1>1. CASE TailRead(t) \/ TailThrow(t) \/ TailCrash(t)
  BY <1>1, SmoothAside DEF TailRead, TailThrow, TailCrash, TailEnds, ledgerVars, erpVars
<1>2. CASE TailCommit(t)
  <2>1. /\ tail[t] \in SUBSET Rows /\ Resolvable(tail[t])
        /\ job' = job \union NewJobs(tail[t])
        /\ UNCHANGED <<owner, run, map, erp, inflight, replaying, budget>>
    BY <1>2 DEF TailCommit, ledgerVars, erpVars, TypeOK
  <2>2. Spent' /\ (Unfaulted' <=> Unfaulted)
    BY <2>1 DEF Smooth, Spent, Unfaulted
  <2>3. Grows
    BY <2>1 DEF Grows
  <2>4. ASSUME NEW k \in job' PROVE \A d \in DependsOn(k.id.push)' : \E x \in k.deps : x.push = d
    <3>1. CASE k \in job
      BY <2>1, <3>1, StillListed DEF Smooth
    <3>2. CASE k \in NewJobs(tail[t])
      <4>1. PICK w : w = k.id.push
        OBVIOUS
      <4>2. DependsOn(w)' = DependsOn(w)
        BY <2>1 DEF DependsOn, Prereq, CustomerPush
      <4>3. \A d \in DependsOn(k.id.push) : \E x \in k.deps : x.push = d
        BY <2>1, <3>2, NewJobsList
      <4> QED BY <4>1, <4>2, <4>3
    <3> QED BY <2>1, <3>1, <3>2
  <2>5. NamesInOrder'
    BY <2>1, <2>4 DEF Smooth, NamesInOrder
  <2>6. ASSUME NEW r \in Runners PROVE InHand(r)'
    BY <2>1, <2>3, InHandStays DEF Smooth, InHand, Names
  <2>7. \A k \in NewJobs(tail[t]) : k.status = "PENDING"
    BY DEF NewJobs
  <2> QED BY <2>1, <2>2, <2>5, <2>6, <2>7 DEF Smooth, NothingFailed
<1> QED BY <1>1, <1>2 DEF TailerStep

\* A runner's step that leaves the tables alone.
LEMMA SmoothControl ==
    ASSUME OneRunner, TypeOK, Smooth, NEW r \in Runners,
           UNCHANGED <<owner, job, map, inflight, replaying>>,
           erp \subseteq erp', \A d \in erp' : d.ok = TRUE,
           UNCHANGED budget \/ \E k \in BudgetKeys : Spend(k),
           run'[r].job # NoJob => run'[r].job = run[r].job,
           run'[r].job # NoJob /\ run'[r].pc = "post" => Doing(r) \notin Names',
           Unfaulted' => run'[r].pc # "fail"
    PROVE  Smooth'
<1>1. Spent' /\ (Unfaulted' => Unfaulted)
  BY SpentStays DEF Smooth
<1>2. NamesInOrder'
  BY DEF Smooth, NamesInOrder, DependsOn, Prereq, CustomerPush
<1>3. Grows
  BY DEF Grows
<1>4. \A q \in Runners : q = r
  BY DEF OneRunner
<1>5. InHand(r)'
  BY <1>3, InHandStays DEF Smooth
<1>6. ASSUME NEW q \in Runners PROVE InHand(q)'
  <2>1. q = r
    BY <1>4
  <2> QED BY <1>5, <2>1 DEF InHand, Resolved, Doing, Prereq, CustomerPush, InvoicePush, InvoiceFor, Names
<1>7. NothingFailed'
  BY <1>1, <1>4 DEF Smooth, NothingFailed
<1> QED BY <1>1, <1>2, <1>6, <1>7 DEF Smooth

\* A verdict on the job in hand ends it.
LEMMA SmoothVerdict ==
    ASSUME OneRunner, TypeOK, Smooth, NEW r \in Runners, NEW id, NEW st, NEW n,
           job' = Updated(id, st, n), UNCHANGED <<owner, erp, inflight, replaying, budget>>,
           \A i \in Invoices : map'[i] # NoName => map'[owner[VehicleOf[i]]] # NoName,
           Abort(r) \/ NextJob(r),
           st \in {"PENDING", "SYNCED"} \/ ~Unfaulted
    PROVE  Smooth'
<1>1. Spent' /\ (Unfaulted' <=> Unfaulted)
  BY DEF Smooth, Spent, Unfaulted
<1>2. NamesInOrder'
  BY NamesUpdated DEF Smooth
<1>3. \A q \in Runners : run'[q].job = NoJob /\ run'[q].pc \in {"idle", "pass"}
  <2>0. run \in [Runners -> RunStates]
    BY DEF TypeOK
  <2>1. run'[r].job = NoJob /\ run'[r].pc \in {"idle", "pass"}
    <3>1. CASE Abort(r)
      BY <2>0, <3>1 DEF Abort, Idle
    <3>2. CASE NextJob(r)
      BY <2>0, <3>2 DEF NextJob, RunStates
    <3> QED BY <3>1, <3>2
  <2> QED BY <2>1 DEF OneRunner
<1>4. NothingFailed'
  <2>1. Unfaulted => \A k \in job' : k.status \in {"PENDING", "SYNCED"}
    BY UpdatedRows DEF Smooth, NothingFailed
  <2> QED BY <1>1, <1>3, <2>1 DEF Smooth, NothingFailed
<1> QED BY <1>1, <1>2, <1>3, <1>4 DEF Smooth, InHand

LEMMA SmoothPick ==
    ASSUME OneRunner, TypeOK, SyncedMeansRecorded, Smooth, NEW r \in Runners, Pick(r)
    PROVE  Smooth'
<1>0. run \in [Runners -> RunStates] /\ \A q \in Runners : q = r
  BY DEF TypeOK, OneRunner
<1>1. /\ UNCHANGED <<owner, job, map, erp, inflight, replaying, budget>>
      /\ run[r].pc = "pass"
  BY DEF Pick, ledgerVars, erpVars
<1>2. PICK id \in run[r].batch :
             \/ Abort(r)
             \/ run' = [run EXCEPT ![r].batch = @ \ {id}]
             \/ \E j \in job : /\ Ready(j)
                               /\ run' = [run EXCEPT ![r] = [@ EXCEPT !.pc = "resolve", !.job = j,
                                                             !.batch = run[r].batch \ {id}]]
  BY DEF Pick
<1>3. CASE Abort(r) \/ run' = [run EXCEPT ![r].batch = @ \ {id}]
  <2>1. /\ run'[r].job # NoJob => run'[r].job = run[r].job
        /\ run'[r].pc \in {"idle", "pass"}
    BY <1>0, <1>1, <1>3 DEF Abort, Idle, RunStates
  <2> QED BY <1>1, <2>1, SmoothControl DEF Smooth
<1>4. ASSUME NEW j \in job, Ready(j),
             run' = [run EXCEPT ![r] = [@ EXCEPT !.pc = "resolve", !.job = j,
                                                 !.batch = run[r].batch \ {id}]]
      PROVE  Smooth'
  <2>1. run'[r].job = j /\ run'[r].pc = "resolve"
    BY <1>0, <1>4 DEF RunStates
  <2>2. Resolved(j.id.push)
    BY <1>4, ReadyResolved DEF Ready, Smooth
  <2>3. PICK w : w = j.id.push
    OBVIOUS
  <2>4. Resolved(w)'
    BY <1>1, <2>2, <2>3 DEF Resolved, Prereq, CustomerPush, InvoicePush, InvoiceFor
  <2>5. Doing(r)' = w
    BY <2>1, <2>3 DEF Doing
  <2>6. InHand(r)'
    BY <1>1, <2>1, <2>4, <2>5 DEF InHand, Resolved, Prereq, CustomerPush, InvoicePush, InvoiceFor
  <2>7. \A q \in Runners : InHand(q)'
    BY <1>0, <2>6 DEF InHand, Resolved, Doing, Prereq, CustomerPush, InvoicePush, InvoiceFor, Names
  <2>8. Spent' /\ NamesInOrder'
    BY <1>1 DEF Smooth, Spent, NamesInOrder, DependsOn, Prereq, CustomerPush
  <2>9. NothingFailed'
    BY <1>0, <1>1, <2>1 DEF Smooth, NothingFailed, Unfaulted
  <2> QED BY <1>1, <2>7, <2>8, <2>9 DEF Smooth
<1> QED BY <1>2, <1>3, <1>4

\* The commit finds its row; the name it records comes after those it needed.
LEMMA SmoothCommit ==
    ASSUME OneRunner, TypeOK, Smooth, NEW r \in Runners, Commit(r)
    PROVE  Smooth'
<1>1. run[r].job \in JobRows /\ run[r].job # NoJob /\ Doing(r) \in Pushes
  BY ErpSyncAssumption DEF Commit, TypeOK, JobRows, JobIds, Doing
<1>2. Mine(r) # {} /\ Resolved(Doing(r))
  BY <1>1 DEF Smooth, InHand, Mine
<1>3. PICK j \in Mine(r) : /\ map' = [map EXCEPT ![Doing(r).src] = Doing(r)]
                           /\ job' = Updated(j.id, "SYNCED", j.attempts + 1)
                           /\ NextJob(r)
  BY <1>2 DEF Commit
<1>4. UNCHANGED <<owner, erp, inflight, replaying, budget>>
  BY DEF Commit, ledgerVars, erpVars
<1>5. ASSUME NEW i \in Invoices, map'[i] # NoName PROVE map'[owner[VehicleOf[i]]] # NoName
  <2> DEFINE c == owner[VehicleOf[i]]
  <2>1. c \in Sources /\ i \in Sources
    BY ErpSyncAssumption DEF TypeOK, Sources
  <2>2. map[c] # NoName => map'[c] # NoName
    BY <1>1, <1>3, <2>1, ErpSyncAssumption DEF TypeOK
  <2>3. CASE i # Doing(r).src
    BY <1>3, <1>5, <2>1, <2>2, <2>3 DEF TypeOK, Smooth, NamesInOrder
  <2>4. CASE i = Doing(r).src
    <3>1. Doing(r).op \in {"PUSH_INVOICE", "PUSH_VOID"}
      BY <1>1, <2>4, ErpSyncAssumption DEF Pushes, LedgerPushes
    <3>2. CustomerPush(Doing(r)) \in Prereq(Doing(r)) /\ CustomerPush(Doing(r)).src = c
      BY <2>4, <3>1 DEF Prereq, CustomerPush, InvoiceFor, Push
    <3> QED BY <1>2, <2>2, <3>2 DEF Resolved
  <2> QED BY <2>3, <2>4
<1>6. \A i \in Invoices : map'[i] # NoName => map'[owner[VehicleOf[i]]] # NoName
  BY <1>5
<1> QED BY <1>3, <1>4, <1>6, SmoothVerdict

LEMMA SmoothRunner ==
    ASSUME OneRunner, TypeOK, SyncedMeansRecorded, Smooth, NEW r \in Runners,
           RunnerStep(r) \/ Post(r, FALSE) \/ PostLate(r) \/ Fault(r) \/ RunnerCrash(r)
    PROVE  Smooth'
<1> USE DEF BudgetKeys
<1>0. /\ run \in [Runners -> RunStates] /\ \A d \in erp : d.ok = TRUE
      /\ run[r].pc \notin {"idle", "pass"} => run[r].job # NoJob
  BY ErpSyncAssumption DEF TypeOK, Smooth
<1>1. ASSUME NEW pc, Goto(r, pc) PROVE run'[r].pc = pc /\ run'[r].job = run[r].job
  BY <1>0, <1>1 DEF Goto, RunStates
<1>2. CASE StartPass(r) \/ EndPass(r)
  <2>1. /\ run'[r].job # NoJob => run'[r].job = run[r].job
        /\ run'[r].pc \in {"idle", "pass"}
    <3>1. CASE StartPass(r)
      BY <1>0, <3>1 DEF StartPass, RunStates
    <3>2. CASE EndPass(r)
      BY <1>0, <3>2 DEF EndPass, Abort, Idle
    <3> QED BY <1>2, <3>1, <3>2
  <2> QED BY <1>0, <1>2, <2>1, SmoothControl DEF StartPass, EndPass, ledgerVars, erpVars
<1>3. CASE Resolve(r)
  <2>1. Resolved(Doing(r))
    BY <1>0, <1>3 DEF Resolve, Smooth, InHand
  <2>2. run'[r].job = run[r].job /\ run'[r].pc = "preflight"
    BY <1>0, <1>3, <2>1 DEF Resolve, RunStates
  <2> QED BY <1>0, <1>3, <2>2, SmoothControl DEF Resolve, ledgerVars, erpVars
<1>4. CASE Preflight(r)
  <2>1. Goto(r, IF Doing(r) \in Names THEN "commit" ELSE "post")
    BY <1>4 DEF Preflight
  <2>2. run'[r].job = run[r].job /\ run'[r].pc = IF Doing(r) \in Names THEN "commit" ELSE "post"
    BY <1>1, <2>1
  <2>3. UNCHANGED <<owner, job, map, erp, inflight, replaying, budget>>
    BY <1>4 DEF Preflight, ledgerVars, erpVars
  <2> QED BY <1>0, <2>2, <2>3, SmoothControl DEF Names
<1>5. CASE Post(r, TRUE)
  <2>1. run'[r].job = run[r].job /\ run'[r].pc = "readback"
    BY <1>1, <1>5 DEF Post
  <2>2. erp' = erp \union {Payload(r, TRUE)} /\ Payload(r, TRUE).ok = TRUE
    BY <1>5 DEF Post, Payload
  <2> QED BY <1>0, <1>5, <2>1, <2>2, SmoothControl DEF Post, ledgerVars
<1>6. CASE Post(r, FALSE)
  BY <1>6 DEF Post, Spend, Smooth, Spent
<1>7. CASE PostRefused(r)
  BY <1>0, <1>7 DEF PostRefused, Smooth, InHand
<1>8. CASE ReadBack(r)
  <2>1. Goto(r, "commit")
    BY <1>0, <1>8 DEF ReadBack
  <2>2. run'[r].job = run[r].job /\ run'[r].pc = "commit"
    BY <1>1, <2>1
  <2> QED BY <1>0, <1>8, <2>2, SmoothControl DEF ReadBack, ledgerVars, erpVars
<1>9. CASE RecordFailure(r)
  <2>1. ~Unfaulted
    BY <1>9 DEF RecordFailure, Smooth, NothingFailed
  <2>2. /\ \E st, n : job' = Updated(run[r].job.id, st, n)
        /\ UNCHANGED <<owner, map, erp, inflight, replaying, budget>>
        /\ Abort(r) \/ NextJob(r)
    BY <1>9 DEF RecordFailure, ledgerVars, erpVars
  <2>3. \A i \in Invoices : map'[i] # NoName => map'[owner[VehicleOf[i]]] # NoName
    BY <2>2 DEF Smooth, NamesInOrder
  <2> QED BY <2>1, <2>2, <2>3, SmoothVerdict
<1>10. CASE PostLate(r)
  BY <1>10 DEF PostLate, Spend, Smooth, Spent
<1>11. CASE Fault(r)
  <2>1. ~Unfaulted'
    BY <1>11, FaultShows DEF Fault, Smooth
  <2>2. run'[r].job = run[r].job /\ run'[r].pc = "fail"
    BY <1>1, <1>11 DEF Fault
  <2> QED BY <1>0, <1>11, <2>1, <2>2, SmoothControl DEF Fault, ledgerVars, erpVars
<1>12. CASE RunnerCrash(r)
  <2>1. Spend("crash") /\ UNCHANGED inflight
    <3>1. ~Spend("late")
      BY DEF Spend, Smooth, Spent
    <3> QED BY <1>12, <3>1 DEF RunnerCrash
  <2>2. run'[r].job = NoJob /\ run'[r].pc = "idle"
    BY <1>0, <1>12 DEF RunnerCrash, Abort, Idle
  <2> QED BY <1>0, <1>12, <2>1, <2>2, SmoothControl DEF RunnerCrash, ledgerVars
<1> QED BY <1>2, <1>3, <1>4, <1>5, <1>6, <1>7, <1>8, <1>9, <1>10, <1>11, <1>12,
           SmoothPick, SmoothCommit DEF RunnerStep

LEMMA SmoothStep ==
    ASSUME OneRunner, Sound, Smooth, [Next]_vars
    PROVE  Smooth'
<1> USE DEF BudgetKeys
<1>0. TypeOK /\ SyncedMeansRecorded
  BY DEF Sound
<1>1. CASE LedgerNext
  <2>1. ASSUME NEW v \in Vehicles, NEW c \in Customers, TransferVehicle(v, c) PROVE Smooth'
    BY <2>1 DEF TransferVehicle, Spend, Smooth, Spent
  <2>2. ASSUME (\E w \in LedgerPushes : BeginPost(w)) \/ (\E row \in open : CommitPost(row))
               \/ \E i \in Invoices : Deliver(i) \/ Reissue(i)
        PROVE  Smooth'
    <3>1. UNCHANGED <<owner, job, run, map, erp, inflight, replaying>>
      BY <2>2 DEF BeginPost, CommitPost, Deliver, Reissue, erpVars
    <3>2. UNCHANGED budget \/ \E k \in BudgetKeys : Spend(k)
      BY <2>2 DEF BeginPost, CommitPost, Deliver, Reissue, MayRepost
    <3> QED BY <3>1, <3>2, SmoothAside
  <2> QED BY <1>1, <2>1, <2>2 DEF LedgerNext
<1>2. CASE SyncNext
  <2>1. ASSUME NEW d \in inflight PROVE Smooth'
    BY DEF Smooth
  <2> QED BY <1>0, <1>2, <2>1, SmoothTailer, SmoothRunner DEF SyncNext
<1>3. CASE UNCHANGED vars
  BY <1>3, SmoothAside DEF vars, ledgerVars, erpVars
<1> QED BY <1>0, <1>1, <1>2, <1>3, SmoothOwner DEF Next

\* As long as no request and no query has failed, no job has: whatever is posted,
\* delivered, recomputed, enabled or disabled, and however often a pass is killed, in
\* any window between the lookup, the POST, the read-back and the commit.
THEOREM NoJobFailsByItself == Quiet => (Spec => []NoFailureWithoutFault)
<1>1. SUFFICES ASSUME Quiet PROVE Spec => []NoFailureWithoutFault
  OBVIOUS
<1>2. OneRunner
  BY <1>1 DEF Quiet
<1>3. Init => Sound /\ Smooth
  BY <1>1, SoundInit, SmoothInit
<1>4. Sound /\ Smooth /\ [Next]_vars => (Sound /\ Smooth)'
  BY <1>2, SoundStep, SmoothStep
<1>5. Sound /\ Smooth => NoFailureWithoutFault
  BY DEF Smooth, NothingFailed, Unfaulted, NoFailureWithoutFault
<1> QED BY <1>3, <1>4, <1>5, PTL DEF Spec

=============================================================================
