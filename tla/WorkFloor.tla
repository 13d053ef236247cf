----------------------------- MODULE WorkFloor -----------------------------
(***************************************************************************)
(* The workshop floor of one garage: job cards, who has claimed them, and  *)
(* the timers of the technicians (src/app/actions/jobs.ts, techsteps.ts,   *)
(* delivery.ts, src/lib/jobcard-status.ts, claim.ts, work-session.ts and   *)
(* the nightly cron).                                                      *)
(*                                                                         *)
(* A server action is a request: it reads the card, decides, writes the    *)
(* card, and then opens or closes timers, each in a database call of its   *)
(* own.  Requests run side by side and may be killed between two calls.    *)
(* One call is one action; a request that refuses changes nothing and is   *)
(* no action.                                                              *)
(*                                                                         *)
(* What technicians write down and hand over is in Findings, composed with *)
(* this module.  The card's other writers (part requests, estimates,       *)
(* invoices) are in CardGates; their holds have the shape of HOLD, and the *)
(* auto-claim of a part request that of LogStep.                           *)
(***************************************************************************)
EXTENDS JobCard, FiniteSets

CONSTANTS
    Jobs, Techs,     \* job cards, users with the TECH or MASTER role
    Masters,         \* the MASTER logins among Techs
    Requests,        \* server actions that may be under way at once
    MaxSessions,     \* WorkSession rows that may be created
    Scenarios,       \* cards to start from; how many requests of each sort, and kills
    NoJob, NoTech

\* EndReason; "OPEN" is a row whose endedAt is null.
EndReasons == {"SWITCHED", "SENT_FOR_ESTIMATE", "COMPLETED", "JOB_CLOSED", "AUTO_CLOSED"}
Ends       == EndReasons \union {"OPEN"}

Sorts == {"decide", "claim", "start", "join", "leave", "log", "release", "reassign",
          "kill"}

Cards == [status: Statuses, heldFrom: Linear \union {"NONE"},
          claimedBy: Techs \union {NoTech}, assigned: Techs \union {NoTech},
          helpers: SUBSET Techs]

ASSUME WorkFloorAssumption ==
    /\ Masters \subseteq Techs /\ MaxSessions \in Nat
    /\ Scenarios \subseteq [card: [Jobs -> Cards], budget: [Sorts -> Nat]]
    /\ NoJob \notin Jobs /\ NoTech \notin Techs

VARIABLES
    card,     \* card[j]: JobCard (status, heldFrom, claimedById, assignedToId, helpers)
    session,  \* WorkSession
    started,  \* the last session id given out
    old,      \* sessions up to this id are more than twelve hours old
    req,      \* req[p]: the locals of request p between two database calls
    cron,     \* the stale sessions autoCloseStaleSessions has read and not yet ended
    budget    \* what is left of the scenario's budget

vars == <<card, session, started, old, req, cron, budget>>

Spend(k) == budget[k] > 0 /\ budget' = [budget EXCEPT ![k] = @ - 1]

-----------------------------------------------------------------------------
(* What the technicians write to a card.                                   *)

\* sendForEstimateAction, markCompleteAction (from ESTIMATE when the latest
\* estimate is approved), sendForReestimateAction (when there are extras).
TechPuts(c, t) ==
    {Put("ESTIMATE", "NONE", "SENT_FOR_ESTIMATE") :
        s \in {x \in {c.status} : t = c.claimedBy /\ x \in {"ARRIVED", "INSPECTION", "ON_HOLD"}}}
    \union {Put("TECH_COMPLETE", "NONE", "COMPLETED") :
        s \in {x \in {c.status} : /\ t = c.claimedBy \/ t \in c.helpers
                                  /\ x \in {"APPROVED", "REPAIR", "ESTIMATE"}}}
    \union {Put("EXTRA_WORK_AWAITING_APPROVAL", "NONE", "NONE") :
        s \in {x \in {c.status} : /\ t = c.claimedBy \/ t \in c.helpers
                                  /\ x \in {"APPROVED", "REPAIR"}}}

-----------------------------------------------------------------------------
(* Requests.                                                               *)

Idle == [pc |-> "idle", job |-> NoJob, tech |-> NoTech, put |-> NoPut,
         rows |-> {}, due |-> {}]

OpenOn(j)  == {s.id : s \in {x \in session : x.job = j /\ x.end = "OPEN"}}
OpenOf(t)  == {s \in session : s.tech = t /\ s.end = "OPEN"}

Free(p)      == req[p].pc = "idle"
Goto(p, pc)  == req' = [req EXCEPT ![p].pc = pc]
Finish(p)    == req' = [req EXCEPT ![p] = Idle]
Begin(p, pc, j, t) ==
    /\ Free(p)
    /\ req' = [req EXCEPT ![p] = [Idle EXCEPT !.pc = pc, !.job = j, !.tech = t]]

\* On to closeJobSessions; due remembers which timers are running by then.
ThenClose(p, j, reason) ==
    req' = [req EXCEPT ![p] = [Idle EXCEPT !.pc = "closing", !.job = j,
                                           !.put = Put("NONE", "NONE", reason),
                                           !.due = OpenOn(j)]]

\* The read and the decision of a status change ...
Decide(p, j) ==
    /\ Free(p)
    /\ \E put \in OfficePuts(card[j]) \union UNION {TechPuts(card[j], t) : t \in Techs} :
          req' = [req EXCEPT ![p] = [Idle EXCEPT !.pc = "write", !.job = j, !.put = put]]
    /\ Spend("decide")
    /\ UNCHANGED <<card, session, started, old, cron>>

\* ... and the write, by id, whatever the card says by now.
WriteStatus(p) ==
    LET j == req[p].job
        put == req[p].put IN
    /\ req[p].pc = "write"
    /\ card' = [card EXCEPT ![j].status = put.status, ![j].heldFrom = put.heldFrom]
    /\ IF put.reason = "NONE" THEN Finish(p) ELSE ThenClose(p, j, put.reason)
    /\ UNCHANGED <<session, started, old, cron, budget>>

\* claimJobAction: one conditional update, then a second one, then the timer.
Claim(p, j, t) ==
    /\ card[j].claimedBy = NoTech /\ card[j].status \notin Terminal
    /\ t \in Masters \/ card[j].assigned \in {NoTech, t}
    /\ card' = [card EXCEPT ![j].claimedBy = t]
    /\ Begin(p, "promote", j, t)
    /\ Spend("claim")
    /\ UNCHANGED <<session, started, old, cron>>

Promote(p) ==
    LET j == req[p].job IN
    /\ req[p].pc = "promote"
    /\ card' = IF card[j].status = "ARRIVED"
               THEN [card EXCEPT ![j].status = "INSPECTION"] ELSE card
    /\ Goto(p, "start")
    /\ UNCHANGED <<session, started, old, cron, budget>>

\* canLogWork: the claimer, a helper, or anyone while the card is unclaimed.
CanLogWork(c, t) == c.claimedBy \in {NoTech, t} \/ t \in c.helpers

\* startWorkAction: "I'm on this car now".
StartWork(p, j, t) ==
    /\ card[j].status \notin Terminal \union {"TECH_COMPLETE", "INVOICED"}
    /\ CanLogWork(card[j], t)
    /\ Begin(p, "start", j, t)
    /\ Spend("start")
    /\ UNCHANGED <<card, session, started, old, cron>>

\* joinJobAction: the check, then the JobHelper row, then the timer.
JoinRead(p, j, t) ==
    /\ card[j].claimedBy \notin {NoTech, t} /\ card[j].status \notin Terminal
    /\ t \notin card[j].helpers
    /\ Begin(p, "join", j, t)
    /\ Spend("join")
    /\ UNCHANGED <<card, session, started, old, cron>>

\* A second JobHelper row of the same technician is refused by its index.
Join(p) ==
    LET j == req[p].job IN
    /\ req[p].pc = "join"
    /\ IF req[p].tech \in card[j].helpers
       THEN Finish(p) /\ UNCHANGED card
       ELSE Goto(p, "start") /\ card' = [card EXCEPT ![j].helpers = @ \union {req[p].tech}]
    /\ UNCHANGED <<session, started, old, cron, budget>>

LeaveHelper(j, t) ==
    /\ t \in card[j].helpers
    /\ card' = [card EXCEPT ![j].helpers = @ \ {t}]
    /\ Spend("leave")
    /\ UNCHANGED <<session, started, old, req, cron>>

\* addStepAction on an unclaimed card claims it, after a read of its status.
LogStepRead(p, j, t) ==
    /\ card[j].status \notin Terminal \union {"TECH_COMPLETE", "INVOICED"}
    /\ card[j].claimedBy = NoTech
    /\ Begin(p, "autoclaim", j, t)
    /\ Spend("log")
    /\ UNCHANGED <<card, session, started, old, cron>>

\* Bug: the update trusts what was read.
AutoClaimBlind(p) ==
    /\ req[p].pc = "autoclaim"
    /\ card' = [card EXCEPT ![req[p].job].claimedBy = req[p].tech]
    /\ Finish(p)
    /\ UNCHANGED <<session, started, old, cron, budget>>

AutoClaim(p) ==
    LET j == req[p].job IN
    /\ req[p].pc = "autoclaim"
    /\ card' = IF card[j].claimedBy = NoTech
               THEN [card EXCEPT ![j].claimedBy = req[p].tech] ELSE card
    /\ Finish(p)
    /\ UNCHANGED <<session, started, old, cron, budget>>

\* releaseJobAction: the update is conditional on the claim, what follows is not.
Release(p, j, t) ==
    /\ Free(p)
    /\ card' = IF card[j].claimedBy = t
               THEN [card EXCEPT ![j].claimedBy = NoTech] ELSE card
    /\ ThenClose(p, j, "JOB_CLOSED")
    /\ Spend("release")
    /\ UNCHANGED <<session, started, old, cron>>

\* Only a TECH is assigned, never a MASTER.
Assignees == (Techs \ Masters) \union {NoTech}

\* reassignJobAction: the advisor gives the card to one technician or the pool.
Reassign(p, j, t) ==
    /\ Free(p)
    /\ card' = [card EXCEPT ![j].assigned = t, ![j].claimedBy = NoTech]
    /\ ThenClose(p, j, "JOB_CLOSED")
    /\ Spend("reassign")
    /\ UNCHANGED <<session, started, old, cron>>

-----------------------------------------------------------------------------
(* Timers.  A row is updated by its id: an end it already has is replaced. *)

EndRows(rows, reason) == {IF s.id \in rows THEN [s EXCEPT !.end = reason] ELSE s : s \in session}

\* startWorkSession: the read of its transaction ...
StartRead(p) ==
    LET mine == OpenOf(req[p].tech) IN
    /\ req[p].pc = "start"
    /\ IF \E s \in mine : s.job = req[p].job
       THEN Finish(p)
       ELSE req' = [req EXCEPT ![p].pc = "opening", ![p].rows = {s.id : s \in mine}]
    /\ UNCHANGED <<card, session, started, old, cron, budget>>

NewSession(p) ==
    [id |-> started + 1, tech |-> req[p].tech, job |-> req[p].job, end |-> "OPEN"]

\* Bug: there is no unique index on open sessions.
StartWriteUnindexed(p) ==
    /\ req[p].pc = "opening" /\ started < MaxSessions
    /\ session' = EndRows(req[p].rows, "SWITCHED") \union {NewSession(p)}
    /\ started' = started + 1
    /\ Finish(p)
    /\ UNCHANGED <<card, old, cron, budget>>

\* ... and its commit, which the unique index on open sessions may refuse.
StartWrite(p) ==
    /\ req[p].pc = "opening" /\ started < MaxSessions
    /\ IF \E s \in OpenOf(req[p].tech) : s.id \notin req[p].rows
       THEN UNCHANGED <<session, started>>
       ELSE /\ session' = EndRows(req[p].rows, "SWITCHED") \union {NewSession(p)}
            /\ started' = started + 1
    /\ Finish(p)
    /\ UNCHANGED <<card, old, cron, budget>>

\* Bug: only the claimer's timer is looked for.
CloseReadClaimer(p) ==
    LET j == req[p].job
        rows == {s.id : s \in {x \in session : /\ x.job = j /\ x.end = "OPEN"
                                              /\ x.tech = card[j].claimedBy}} IN
    /\ req[p].pc = "closing"
    /\ IF rows = {} THEN Finish(p)
                    ELSE req' = [req EXCEPT ![p].pc = "ending", ![p].rows = rows]
    /\ UNCHANGED <<card, session, started, old, cron, budget>>

\* closeMatchingSessions: the open rows of the card, then one update for each.
CloseRead(p) ==
    LET rows == OpenOn(req[p].job) IN
    /\ req[p].pc = "closing"
    /\ IF rows = {} THEN Finish(p)
                    ELSE req' = [req EXCEPT ![p].pc = "ending", ![p].rows = rows]
    /\ UNCHANGED <<card, session, started, old, cron, budget>>

CloseWrite(p) ==
    /\ req[p].pc = "ending"
    /\ session' = EndRows(req[p].rows, req[p].put.reason)
    /\ Finish(p)
    /\ UNCHANGED <<card, started, old, cron, budget>>

\* A function is killed, or a best-effort timer call fails and is logged.
Kill(p) ==
    /\ ~Free(p) /\ Spend("kill")
    /\ Finish(p)
    /\ UNCHANGED <<card, session, started, old, cron>>

\* Time passes: one more session is past the twelve-hour cutoff.
Age ==
    /\ old < started /\ old' = old + 1
    /\ UNCHANGED <<card, session, started, req, cron, budget>>

\* Bug: only sessions of cards still in the workshop are looked for.
StaleActive == {s.id : s \in {x \in session : /\ x.end = "OPEN" /\ x.id <= old
                                             /\ card[x.job].status \notin Terminal}}

\* autoCloseStaleSessions, nightly.
Stale == {s.id : s \in {x \in session : x.end = "OPEN" /\ x.id <= old}}

AutoRead ==
    /\ cron = {} /\ Stale # {}
    /\ cron' = Stale
    /\ UNCHANGED <<card, session, started, old, req, budget>>

AutoWrite ==
    /\ cron # {}
    /\ session' = EndRows(cron, "AUTO_CLOSED")
    /\ cron' = {}
    /\ UNCHANGED <<card, started, old, req, budget>>

AutoKill ==
    /\ cron # {} /\ Spend("kill")
    /\ cron' = {}
    /\ UNCHANGED <<card, session, started, old, req>>

-----------------------------------------------------------------------------
Init ==
    /\ \E s \in Scenarios : card = s.card /\ budget = s.budget
    /\ session = {} /\ started = 0 /\ old = 0
    /\ req = [p \in Requests |-> Idle]
    /\ cron = {}

RequestStep(p) ==
    \/ WriteStatus(p) \/ Promote(p) \/ Join(p) \/ AutoClaim(p)
    \/ StartRead(p) \/ StartWrite(p) \/ CloseRead(p) \/ CloseWrite(p) \/ Kill(p)

NewRequest(p) ==
    \/ \E j \in Jobs : Decide(p, j)
    \/ \E j \in Jobs, t \in Techs : \/ Claim(p, j, t) \/ StartWork(p, j, t)
                                    \/ JoinRead(p, j, t) \/ LogStepRead(p, j, t)
                                    \/ Release(p, j, t)
    \/ \E j \in Jobs, t \in Assignees : Reassign(p, j, t)

Nightly == AutoRead \/ AutoWrite

Next ==
    \/ \E p \in Requests : NewRequest(p) \/ RequestStep(p)
    \/ \E j \in Jobs, t \in Techs : LeaveHelper(j, t)
    \/ Age \/ Nightly \/ AutoKill

Spec == Init /\ [][Next]_vars

\* Time passes, and the cron runs every night (vercel.json); people owe nothing.
FairSpec == Spec /\ WF_vars(Age) /\ WF_vars(Nightly)

-----------------------------------------------------------------------------
(* Properties.                                                             *)

Sessions == [id: Nat, tech: Techs, job: Jobs, end: Ends]
Puts == [status: Statuses \union {"NONE"}, heldFrom: Linear \union {"NONE"},
         reason: EndReasons \union {"NONE"}]
PCs  == {"idle", "write", "promote", "join", "autoclaim", "start", "opening",
         "closing", "ending"}
Reqs == [pc: PCs, job: Jobs \union {NoJob}, tech: Techs \union {NoTech}, put: Puts,
         rows: SUBSET Nat, due: SUBSET Nat]

\* Every variable has its type, and every step of a request has the values it
\* works with.
TypeOK ==
    /\ card \in [Jobs -> Cards]
    /\ session \subseteq Sessions /\ started \in Nat /\ old \in Nat
    /\ req \in [Requests -> Reqs]
    /\ \A p \in Requests :
          /\ req[p].pc # "idle" => req[p].job \in Jobs
          /\ req[p].pc = "write" => req[p].put.status \in Statuses
          /\ req[p].pc \in {"promote", "join", "autoclaim", "start", "opening"}
                => req[p].tech \in Techs
          /\ req[p].pc \in {"closing", "ending"} => req[p].put.reason \in EndReasons
    /\ cron \subseteq Nat /\ budget \in [Sorts -> Nat]

\* A claim is never taken from the technician who has it: it passes through
\* "unclaimed" (jobs.ts: "no double-assignment"), whichever of the claim button
\* and the auto-claims race.
ClaimIsExclusive ==
    [][\A j \in Jobs : card[j].claimedBy # NoTech
                           => card'[j].claimedBy \in {card[j].claimedBy, NoTech}]_vars

\* A technician is on one car at a time (work-session.ts: "even racing taps
\* can't leave two timers running").
OneOpenPerTech ==
    \A s, q \in session : s.tech = q.tech /\ s.end = "OPEN" /\ q.end = "OPEN" => s = q

\* When a request that closes a card's timers comes to its end, every timer
\* that was running when it wrote the card has been stopped, helpers' too,
\* whatever else starts, switches or closes in between (work-session.ts: "Close
\* every open segment on a JOB").
StopsEveryTimer ==
    [][\A p \in Requests :
          req[p].pc \in {"closing", "ending"} /\ req'[p].pc = "idle" /\ budget' = budget
              => \A s \in session' : s.id \in req[p].due => s.end # "OPEN"]_vars

\* No timer runs for ever: what the cards' own closers miss the night ends.
EveryTimerEnds ==
    \A i \in 1..MaxSessions :
        (\E s \in session : s.id = i /\ s.end = "OPEN")
            ~> (\E s \in session : s.id = i /\ s.end # "OPEN")
=============================================================================
