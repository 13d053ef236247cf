--------------------------- MODULE FindingsProofs ---------------------------
(* Safety of WorkFloor, and of Findings with the floor it is composed with, *)
(* proved for every value of the constants.                                 *)
EXTENDS Findings, TLAPS

(***************************************************************************)
(* Facts about the operators.                                              *)
(***************************************************************************)

\* The timeline holds linear statuses.
LEMMA TimelineType == \A i \in 1..8 : Timeline[i] \in Linear
<1> TAKE i \in 1..8
<1>1. i = 1 \/ i = 2 \/ i = 3 \/ i = 4 \/ i = 5 \/ i = 6 \/ i = 7 \/ i = 8
  OBVIOUS
<1> QED BY <1>1 DEF Timeline, Linear

\* A request writes statuses, and closes timers with an end reason or not at all.
LEMMA OfficePutsType ==
    ASSUME NEW c \in Cards, NEW put \in OfficePuts(c)
    PROVE  put \in Puts /\ put.status \in Statuses
<1> USE DEF Puts, Put, Statuses, EndReasons
<1>1. CASE put \in Transitions(c)
  <2>1. \A s \in NextStatus(c.status) : s \in Linear
    BY TimelineType DEF NextStatus
  <2> QED BY <1>1, <2>1 DEF Transitions, Cards, Linear
<1>2. CASE put \in {Put(s, "NONE", "NONE") : s \in SkippableTargets(c.status)}
  <2>1. \A s \in SkippableTargets(c.status) : s \in Linear
    BY TimelineType DEF SkippableTargets
  <2> QED BY <1>2, <2>1
<1>3. CASE put \in {Put("DELIVERED", "NONE", "NONE") : s \in {c.status} \intersect {"INVOICED"}}
  BY <1>3 DEF Linear
<1> QED BY <1>1, <1>2, <1>3 DEF OfficePuts

LEMMA TechPutsType ==
    ASSUME NEW c \in Cards, NEW t \in Techs, NEW put \in TechPuts(c, t)
    PROVE  put \in Puts /\ put.status \in Statuses
BY DEF TechPuts, Puts, Put, Statuses, EndReasons, Linear

LEMMA SpendType ==
    ASSUME budget \in [Sorts -> Nat], NEW k \in Sorts, Spend(k)
    PROVE  budget' \in [Sorts -> Nat] /\ budget' # budget
<1>1. budget'[k] = budget[k] - 1 /\ budget[k] \in Nat
  BY DEF Spend
<1> QED BY <1>1 DEF Spend

\* What an update of session rows by id does: ended rows get the reason, the
\* others stay as they are.
LEMMA EndRowsFacts ==
    ASSUME session \subseteq Sessions, NEW rows, NEW reason \in EndReasons
    PROVE  /\ EndRows(rows, reason) \subseteq Sessions
           /\ \A s \in EndRows(rows, reason) : \E q \in session :
                 /\ s.id = q.id /\ s.job = q.job /\ s.tech = q.tech
                 /\ s.id \in rows => s.end = reason
                 /\ s.id \notin rows => s = q
                 /\ s = IF q.id \in rows THEN [q EXCEPT !.end = reason] ELSE q
<1>1. \A q \in session : LET s == IF q.id \in rows THEN [q EXCEPT !.end = reason] ELSE q IN
         /\ s \in Sessions
         /\ s.id = q.id /\ s.job = q.job /\ s.tech = q.tech
         /\ s.id \in rows => s.end = reason
         /\ s.id \notin rows => s = q
  BY DEF Sessions, Ends
<1> QED BY <1>1 DEF EndRows

(***************************************************************************)
(* Type correctness.                                                       *)
(***************************************************************************)

\* What TypeOK says of one request.
ReqOK(q) ==
    /\ q \in Reqs
    /\ q.pc # "idle" => q.job \in Jobs
    /\ q.pc = "write" => q.put.status \in Statuses
    /\ q.pc \in {"promote", "join", "autoclaim", "start", "opening"} => q.tech \in Techs
    /\ q.pc \in {"closing", "ending"} => q.put.reason \in EndReasons

LEMMA ReqOKType ==
    TypeOK <=> /\ card \in [Jobs -> Cards]
               /\ session \subseteq Sessions /\ started \in Nat /\ old \in Nat
               /\ req \in [Requests -> Reqs] /\ \A p \in Requests : ReqOK(req[p])
               /\ cron \subseteq Nat /\ budget \in [Sorts -> Nat]
BY DEF TypeOK, ReqOK

\* A request whose slot gets a well-typed value leaves the others alone.
LEMMA ReqStep ==
    ASSUME req \in [Requests -> Reqs], \A p \in Requests : ReqOK(req[p]),
           NEW p \in Requests, NEW q, ReqOK(q), req' = [req EXCEPT ![p] = q]
    PROVE  req' \in [Requests -> Reqs] /\ \A r \in Requests : ReqOK(req'[r])
BY DEF ReqOK

LEMMA IdleType == ReqOK(Idle)
BY DEF ReqOK, Idle, Reqs, PCs, NoPut, Put, Puts

LEMMA FinishType ==
    ASSUME req \in [Requests -> Reqs], \A p \in Requests : ReqOK(req[p]),
           NEW p \in Requests, Finish(p)
    PROVE  req' \in [Requests -> Reqs] /\ \A r \in Requests : ReqOK(req'[r])
BY IdleType, ReqStep DEF Finish

LEMMA BeginType ==
    ASSUME req \in [Requests -> Reqs], \A p \in Requests : ReqOK(req[p]),
           NEW p \in Requests, NEW j \in Jobs, NEW t \in Techs,
           NEW pc \in {"promote", "join", "autoclaim", "start"}, Begin(p, pc, j, t)
    PROVE  req' \in [Requests -> Reqs] /\ \A r \in Requests : ReqOK(req'[r])
<1> DEFINE q == [Idle EXCEPT !.pc = pc, !.job = j, !.tech = t]
<1>1. ReqOK(q)
  BY DEF ReqOK, Idle, Reqs, PCs, NoPut, Put, Puts
<1> QED BY <1>1, ReqStep DEF Begin

LEMMA OpenOnType ==
    ASSUME session \subseteq Sessions, NEW j
    PROVE  OpenOn(j) \subseteq Nat
BY DEF OpenOn, Sessions

LEMMA ThenCloseType ==
    ASSUME req \in [Requests -> Reqs], \A p \in Requests : ReqOK(req[p]),
           session \subseteq Sessions, NEW p \in Requests, NEW j \in Jobs,
           NEW reason \in EndReasons, ThenClose(p, j, reason)
    PROVE  req' \in [Requests -> Reqs] /\ \A r \in Requests : ReqOK(req'[r])
<1> DEFINE q == [Idle EXCEPT !.pc = "closing", !.job = j,
                             !.put = Put("NONE", "NONE", reason), !.due = OpenOn(j)]
<1>1. ReqOK(q)
  BY OpenOnType DEF ReqOK, Idle, Reqs, PCs, Put, Puts
<1> QED BY <1>1, ReqStep DEF ThenClose

LEMMA GotoType ==
    ASSUME req \in [Requests -> Reqs], \A p \in Requests : ReqOK(req[p]),
           NEW p \in Requests, req[p].pc \in {"promote", "join"}, Goto(p, "start")
    PROVE  req' \in [Requests -> Reqs] /\ \A r \in Requests : ReqOK(req'[r])
<1> DEFINE q == [req[p] EXCEPT !.pc = "start"]
<1>1. ReqOK(q)
  BY DEF ReqOK, Reqs, PCs
<1> QED BY <1>1, ReqStep DEF Goto

LEMMA TypeInit == Init => TypeOK
BY IdleType, WorkFloorAssumption DEF Init, Assignees, TypeOK, ReqOK, Cards, Statuses

\* A request that begins.
LEMMA TypeNewRequest ==
    ASSUME TypeOK, NEW p \in Requests, NewRequest(p)
    PROVE  TypeOK'
<1>1. /\ card \in [Jobs -> Cards] /\ session \subseteq Sessions
      /\ req \in [Requests -> Reqs] /\ \A r \in Requests : ReqOK(req[r])
      /\ budget \in [Sorts -> Nat]
  BY ReqOKType
<1>2. SUFFICES /\ card' \in [Jobs -> Cards]
               /\ req' \in [Requests -> Reqs] /\ \A r \in Requests : ReqOK(req'[r])
               /\ budget' \in [Sorts -> Nat]
               /\ UNCHANGED <<session, started, old, cron>>
  BY DEF TypeOK, ReqOK
<1>3. ASSUME NEW j \in Jobs, Decide(p, j)
      PROVE  /\ req' \in [Requests -> Reqs] /\ \A r \in Requests : ReqOK(req'[r])
             /\ UNCHANGED card /\ budget' \in [Sorts -> Nat]
  <2>1. PICK put \in OfficePuts(card[j]) \union UNION {TechPuts(card[j], t) : t \in Techs} :
          req' = [req EXCEPT ![p] = [Idle EXCEPT !.pc = "write", !.job = j, !.put = put]]
    BY <1>3 DEF Decide
  <2>2. put \in Puts /\ put.status \in Statuses
    BY <1>1, OfficePutsType, TechPutsType
  <2>3. ReqOK([Idle EXCEPT !.pc = "write", !.job = j, !.put = put])
    BY <2>2 DEF ReqOK, Idle, Reqs, PCs
  <2> QED BY <1>1, <1>3, <2>1, <2>3, ReqStep, SpendType DEF Decide, Sorts
<1>4. ASSUME NEW j \in Jobs, NEW t \in Techs,
             Claim(p, j, t) \/ StartWork(p, j, t) \/ JoinRead(p, j, t) \/ LogStepRead(p, j, t)
      PROVE  /\ req' \in [Requests -> Reqs] /\ \A r \in Requests : ReqOK(req'[r])
             /\ card' \in [Jobs -> Cards] /\ budget' \in [Sorts -> Nat]
  <2>1. \E pc \in {"promote", "join", "autoclaim", "start"} : Begin(p, pc, j, t)
    BY <1>4 DEF Claim, StartWork, JoinRead, LogStepRead
  <2>2. req' \in [Requests -> Reqs] /\ \A r \in Requests : ReqOK(req'[r])
    BY <1>1, <2>1, BeginType
  <2>3. budget' \in [Sorts -> Nat]
    BY <1>1, <1>4, SpendType DEF Claim, StartWork, JoinRead, LogStepRead, Sorts
  <2>4. card' \in [Jobs -> Cards]
    BY <1>1, <1>4 DEF Claim, StartWork, JoinRead, LogStepRead, Cards
  <2> QED BY <2>2, <2>3, <2>4
<1>5. ASSUME NEW j \in Jobs, NEW t \in Techs \union {NoTech}, Release(p, j, t) \/ Reassign(p, j, t)
      PROVE  /\ req' \in [Requests -> Reqs] /\ \A r \in Requests : ReqOK(req'[r])
             /\ card' \in [Jobs -> Cards] /\ budget' \in [Sorts -> Nat]
  <2>1. ThenClose(p, j, "JOB_CLOSED")
    BY <1>5 DEF Release, Reassign
  <2>2. req' \in [Requests -> Reqs] /\ \A r \in Requests : ReqOK(req'[r])
    BY <1>1, <2>1, ThenCloseType DEF EndReasons
  <2>3. budget' \in [Sorts -> Nat]
    BY <1>1, <1>5, SpendType DEF Release, Reassign, Sorts
  <2>4. card' \in [Jobs -> Cards]
    BY <1>1, <1>5 DEF Release, Reassign, Cards
  <2> QED BY <2>2, <2>3, <2>4
<1>6. UNCHANGED <<session, started, old, cron>>
  BY DEF NewRequest, Decide, Claim, StartWork, JoinRead, LogStepRead, Release, Reassign
<1> QED BY <1>1, <1>3, <1>4, <1>5, <1>6 DEF NewRequest, Assignees

\* A request that goes on.
LEMMA TypeRequestStep ==
    ASSUME TypeOK, NEW p \in Requests, RequestStep(p)
    PROVE  TypeOK'
<1> USE DEF TypeOK
<1>0. /\ card \in [Jobs -> Cards] /\ session \subseteq Sessions
      /\ req \in [Requests -> Reqs] /\ \A r \in Requests : ReqOK(req[r])
      /\ budget \in [Sorts -> Nat]
  BY ReqOKType
<1> SUFFICES /\ card' \in [Jobs -> Cards]
             /\ req' \in [Requests -> Reqs] /\ \A r \in Requests : ReqOK(req'[r])
             /\ session' \subseteq Sessions /\ started' \in Nat /\ old' \in Nat
             /\ cron' \subseteq Nat /\ budget' \in [Sorts -> Nat]
  BY DEF ReqOK
<1> HIDE DEF TypeOK
<1>1. CASE WriteStatus(p)
  <2>1. ReqOK(req[p]) /\ req[p].pc = "write"
    BY <1>0, <1>1 DEF WriteStatus
  <2>2. card' \in [Jobs -> Cards]
    <3>1. /\ req[p].job \in Jobs /\ req[p].put.status \in Statuses
          /\ req[p].put.heldFrom \in Linear \union {"NONE"}
      BY <2>1 DEF ReqOK, Reqs, Puts
    <3> DEFINE c == [card[req[p].job] EXCEPT !.status = req[p].put.status,
                                             !.heldFrom = req[p].put.heldFrom]
    <3>2. c \in Cards
      <4>1. card[req[p].job] \in Cards
        BY <1>0, <3>1
      <4> QED BY <3>1, <4>1 DEF Cards
    <3>3. card' = [card EXCEPT ![req[p].job] = c]
      BY <1>0, <1>1, <3>1 DEF WriteStatus
    <3> QED BY <1>0, <3>1, <3>2, <3>3
  <2>3. req' \in [Requests -> Reqs] /\ \A r \in Requests : ReqOK(req'[r])
    <3>1. CASE req[p].put.reason = "NONE"
      BY <1>0, <1>1, <3>1, FinishType DEF WriteStatus
    <3>2. CASE req[p].put.reason # "NONE"
      <4>1. req[p].put.reason \in EndReasons /\ req[p].job \in Jobs
        BY <2>1, <3>2 DEF ReqOK, Reqs, Puts
      <4> QED BY <1>0, <1>1, <3>2, <4>1, ThenCloseType DEF WriteStatus
    <3> QED BY <3>1, <3>2
  <2> QED BY <1>1, <2>2, <2>3 DEF WriteStatus, TypeOK
<1>2. CASE Promote(p)
  <2>1. card' \in [Jobs -> Cards]
    <3>1. req[p].job \in Jobs /\ "INSPECTION" \in Statuses
      BY <1>0, <1>2 DEF Promote, ReqOK, Statuses, Linear
    <3> QED BY <1>0, <1>2, <3>1 DEF Promote, Cards
  <2>2. req' \in [Requests -> Reqs] /\ \A r \in Requests : ReqOK(req'[r])
    BY <1>0, <1>2, GotoType DEF Promote
  <2> QED BY <1>2, <2>1, <2>2 DEF Promote, TypeOK
<1>3. CASE Join(p)
  <2>1. req[p].tech \in Techs
    BY <1>0, <1>3 DEF Join, ReqOK
  <2>2. card' \in [Jobs -> Cards]
    BY <1>0, <1>3, <2>1 DEF Join, Cards
  <2>3. req' \in [Requests -> Reqs] /\ \A r \in Requests : ReqOK(req'[r])
    BY <1>0, <1>3, GotoType, FinishType DEF Join
  <2> QED BY <1>3, <2>2, <2>3 DEF Join, TypeOK
<1>4. CASE AutoClaim(p)
  <2>1. req[p].tech \in Techs
    BY <1>0, <1>4 DEF AutoClaim, ReqOK
  <2>2. card' \in [Jobs -> Cards]
    BY <1>0, <1>4, <2>1 DEF AutoClaim, Cards
  <2> QED BY <1>0, <1>4, <2>2, FinishType DEF AutoClaim, TypeOK
<1>5. CASE StartRead(p)
  <2>1. CASE \E s \in OpenOf(req[p].tech) : s.job = req[p].job
    BY <1>0, <1>5, <2>1, FinishType DEF StartRead, TypeOK
  <2>2. CASE ~\E s \in OpenOf(req[p].tech) : s.job = req[p].job
    <3> DEFINE rows == {s.id : s \in OpenOf(req[p].tech)}
               q == [req[p] EXCEPT !.pc = "opening", !.rows = rows]
    <3>1. rows \subseteq Nat
      BY <1>0 DEF OpenOf, Sessions
    <3>2. ReqOK(req[p]) /\ req[p].pc = "start"
      BY <1>0, <1>5 DEF StartRead
    <3>3. ReqOK(q)
      BY <3>1, <3>2 DEF ReqOK, Reqs, PCs
    <3>4. req' = [req EXCEPT ![p] = q]
      BY <1>0, <1>5, <2>2 DEF StartRead
    <3> QED BY <1>0, <1>5, <3>3, <3>4, ReqStep DEF StartRead, TypeOK
  <2> QED BY <2>1, <2>2
<1>6. CASE StartWrite(p)
  <2>1. req[p].tech \in Techs /\ req[p].job \in Jobs
    BY <1>0, <1>6 DEF StartWrite, ReqOK
  <2>2. NewSession(p) \in Sessions
    BY <2>1 DEF NewSession, Sessions, Ends, TypeOK
  <2>3. session' \subseteq Sessions /\ started' \in Nat
    BY <1>0, <1>6, <2>2, EndRowsFacts DEF StartWrite, EndReasons, TypeOK
  <2> QED BY <1>0, <1>6, <2>3, FinishType DEF StartWrite, TypeOK
<1>7. CASE CloseRead(p)
  <2>1. CASE OpenOn(req[p].job) = {}
    BY <1>0, <1>7, <2>1, FinishType DEF CloseRead, TypeOK
  <2>2. CASE OpenOn(req[p].job) # {}
    <3> DEFINE q == [req[p] EXCEPT !.pc = "ending", !.rows = OpenOn(req[p].job)]
    <3>1. ReqOK(req[p]) /\ req[p].pc = "closing"
      BY <1>0, <1>7 DEF CloseRead
    <3>2. ReqOK(q)
      BY <1>0, <3>1, OpenOnType DEF ReqOK, Reqs, PCs
    <3>3. req' = [req EXCEPT ![p] = q]
      BY <1>0, <1>7, <2>2 DEF CloseRead
    <3> QED BY <1>0, <1>7, <3>2, <3>3, ReqStep DEF CloseRead, TypeOK
  <2> QED BY <2>1, <2>2
<1>8. CASE CloseWrite(p)
  <2>1. req[p].put.reason \in EndReasons
    BY <1>0, <1>8 DEF CloseWrite, ReqOK
  <2>2. session' \subseteq Sessions
    BY <1>0, <1>8, <2>1, EndRowsFacts DEF CloseWrite
  <2> QED BY <1>0, <1>8, <2>2, FinishType DEF CloseWrite, TypeOK
<1>9. CASE Kill(p)
  BY <1>0, <1>9, FinishType, SpendType DEF Kill, Sorts, TypeOK
<1> QED BY <1>1, <1>2, <1>3, <1>4, <1>5, <1>6, <1>7, <1>8, <1>9 DEF RequestStep

\* Everything else: helpers who leave, time, and the nightly cron.
LEMMA TypeOthers ==
    ASSUME TypeOK,
           \/ \E j \in Jobs, t \in Techs : LeaveHelper(j, t)
           \/ Age \/ Nightly \/ AutoKill
    PROVE  TypeOK'
<1>1. ASSUME NEW j \in Jobs, NEW t \in Techs, LeaveHelper(j, t) PROVE TypeOK'
  <2>1. card' \in [Jobs -> Cards]
    BY <1>1 DEF LeaveHelper, TypeOK, Cards
  <2>2. budget' \in [Sorts -> Nat]
    BY <1>1, SpendType DEF LeaveHelper, TypeOK, Sorts
  <2> QED BY <1>1, <2>1, <2>2 DEF LeaveHelper, TypeOK
<1>2. CASE Age
  BY <1>2 DEF Age, TypeOK
<1>3. CASE AutoRead
  BY <1>3 DEF AutoRead, Stale, TypeOK, Sessions
<1>4. CASE AutoWrite
  <2>1. session' \subseteq Sessions
    BY <1>4, EndRowsFacts DEF AutoWrite, TypeOK, EndReasons
  <2> QED BY <1>4, <2>1 DEF AutoWrite, TypeOK
<1>5. CASE AutoKill
  BY <1>5, SpendType DEF AutoKill, TypeOK, Sorts
<1> QED BY <1>1, <1>2, <1>3, <1>4, <1>5 DEF Nightly

LEMMA TypeStep == TypeOK /\ [Next]_vars => TypeOK'
<1>1. ASSUME TypeOK, UNCHANGED vars PROVE TypeOK'
  BY <1>1 DEF TypeOK, vars
<1> QED BY <1>1, TypeNewRequest, TypeRequestStep, TypeOthers DEF Next

\* Every variable has its type in every reachable state: whatever cards,
\* technicians and requests there are, however they race and die.
THEOREM TypeCorrect == Spec => []TypeOK
BY TypeInit, TypeStep, PTL DEF Spec

(***************************************************************************)
(* Claims.                                                                 *)
(***************************************************************************)

LEMMA ClaimStep ==
    ASSUME TypeOK, [Next]_vars, NEW j \in Jobs, card[j].claimedBy # NoTech
    PROVE  card'[j].claimedBy \in {card[j].claimedBy, NoTech}
<1> USE DEF TypeOK, Cards
<1>1. ASSUME UNCHANGED card PROVE card'[j].claimedBy \in {card[j].claimedBy, NoTech}
  BY <1>1
<1>2. ASSUME NEW p \in Requests, NewRequest(p)
      PROVE  card'[j].claimedBy \in {card[j].claimedBy, NoTech}
  <2>1. CASE \E i \in Jobs : Decide(p, i)
    BY <2>1 DEF Decide
  <2>2. ASSUME NEW i \in Jobs, NEW t \in Techs,
               Claim(p, i, t) \/ StartWork(p, i, t) \/ JoinRead(p, i, t) \/ LogStepRead(p, i, t)
        PROVE  card'[j].claimedBy \in {card[j].claimedBy, NoTech}
    BY <2>2 DEF Claim, StartWork, JoinRead, LogStepRead
  <2>3. ASSUME NEW i \in Jobs, NEW t \in Techs, Release(p, i, t)
        PROVE  card'[j].claimedBy \in {card[j].claimedBy, NoTech}
    BY <2>3 DEF Release
  <2>4. ASSUME NEW i \in Jobs, NEW t \in Techs \union {NoTech}, Reassign(p, i, t)
        PROVE  card'[j].claimedBy \in {card[j].claimedBy, NoTech}
    <3>1. CASE i = j
      BY <2>4, <3>1 DEF Reassign
    <3>2. CASE i # j
      BY <2>4, <3>2 DEF Reassign
    <3> QED BY <3>1, <3>2
  <2> QED BY <1>2, <2>1, <2>2, <2>3, <2>4 DEF NewRequest, Assignees
<1>3. ASSUME NEW p \in Requests, RequestStep(p)
      PROVE  card'[j].claimedBy \in {card[j].claimedBy, NoTech}
  <2>1. CASE WriteStatus(p)
    <3>1. req[p].job \in Jobs
      BY <2>1 DEF WriteStatus
    <3>2. card'[j].claimedBy = card[j].claimedBy
      BY <2>1, <3>1 DEF WriteStatus
    <3> QED BY <3>2
  <2>2. CASE Promote(p) \/ Join(p) \/ AutoClaim(p)
    BY <2>2 DEF Promote, Join, AutoClaim
  <2>3. CASE StartRead(p) \/ StartWrite(p) \/ CloseRead(p) \/ CloseWrite(p) \/ Kill(p)
    BY <2>3 DEF StartRead, StartWrite, CloseRead, CloseWrite, Kill
  <2> QED BY <1>3, <2>1, <2>2, <2>3 DEF RequestStep
<1>4. ASSUME NEW i \in Jobs, NEW t \in Techs, LeaveHelper(i, t)
      PROVE  card'[j].claimedBy \in {card[j].claimedBy, NoTech}
  BY <1>4 DEF LeaveHelper
<1>5. Age \/ Nightly \/ AutoKill \/ UNCHANGED vars => UNCHANGED card
  BY DEF Age, Nightly, AutoRead, AutoWrite, AutoKill, vars
<1> QED BY <1>1, <1>2, <1>3, <1>4, <1>5 DEF Next

\* No claim is ever taken from the technician who has it, however many claim,
\* log work, release and reassign at once.
THEOREM ClaimsAreExclusive == Spec => ClaimIsExclusive
<1>1. TypeOK /\ [Next]_vars
        => [\A j \in Jobs : card[j].claimedBy # NoTech
               => card'[j].claimedBy \in {card[j].claimedBy, NoTech}]_vars
  BY ClaimStep
<1> QED BY <1>1, TypeCorrect, PTL DEF Spec, ClaimIsExclusive

(***************************************************************************)
(* Timers.  Session ids are unique and given out in order; what a closer   *)
(* remembers as running is on its card, and once it has read the open      *)
(* rows it has every one of them that still runs.                          *)
(***************************************************************************)

UniqueIds == /\ \A s, q \in session : s.id = q.id => s = q
             /\ \A s \in session : s.id <= started

Tracked(q) ==
    /\ \A i \in q.due : i <= started
    /\ \A s \in session : s.id \in q.due => s.job = q.job
    /\ q.pc = "ending" =>
          \A s \in session : s.id \in q.due /\ s.end = "OPEN" => s.id \in q.rows

TimerInv == UniqueIds /\ OneOpenPerTech /\ \A p \in Requests : Tracked(req[p])

\* A step keeps every row's id, card and technician, opens no row again, and
\* gives a new row a new id.
Kept == /\ \/ started' = started
           \/ started' = started + 1
        /\ \A s \in session' :
              \/ \E q \in session : /\ s.id = q.id /\ s.job = q.job /\ s.tech = q.tech
                                    /\ s.end = "OPEN" => s = q
              \/ s.id = started + 1 /\ started' = started + 1

\* The rows after an update by id are still unique, and no fewer are ended.
LEMMA EndRowsKept ==
    ASSUME session \subseteq Sessions, UniqueIds, OneOpenPerTech,
           NEW rows, NEW reason \in EndReasons
    PROVE  /\ \A s, q \in EndRows(rows, reason) : s.id = q.id => s = q
           /\ \A s \in EndRows(rows, reason) : s.id <= started
           /\ \A s, q \in EndRows(rows, reason) :
                 s.tech = q.tech /\ s.end = "OPEN" /\ q.end = "OPEN" => s = q
           /\ \A s \in EndRows(rows, reason) : \E q \in session :
                 /\ s.id = q.id /\ s.job = q.job /\ s.tech = q.tech
                 /\ s.end = "OPEN" => s = q /\ s.id \notin rows
<1>1. reason # "OPEN"
  BY DEF EndReasons
<1>2. \A s \in EndRows(rows, reason) : \E q \in session :
         /\ s.id = q.id /\ s.job = q.job /\ s.tech = q.tech
         /\ s.end = "OPEN" => s = q /\ s.id \notin rows
  BY <1>1, EndRowsFacts
<1>3. \A s, q \in EndRows(rows, reason) : s.id = q.id => s = q
  <2> TAKE s, q \in EndRows(rows, reason)
  <2>1. PICK a \in session : s.id = a.id
                             /\ s = IF a.id \in rows THEN [a EXCEPT !.end = reason] ELSE a
    BY EndRowsFacts
  <2>2. PICK b \in session : q.id = b.id
                             /\ q = IF b.id \in rows THEN [b EXCEPT !.end = reason] ELSE b
    BY EndRowsFacts
  <2> QED BY <2>1, <2>2 DEF UniqueIds
<1>4. \A s \in EndRows(rows, reason) : s.id <= started
  BY <1>2 DEF UniqueIds
<1>5. \A s, q \in EndRows(rows, reason) :
         s.tech = q.tech /\ s.end = "OPEN" /\ q.end = "OPEN" => s = q
  BY <1>2 DEF OneOpenPerTech
<1> QED BY <1>2, <1>3, <1>4, <1>5

\* A request that a step leaves alone stays tracked.
LEMMA TrackedStays ==
    ASSUME TypeOK, Kept, NEW p \in Requests, Tracked(req[p]), req'[p] = req[p]
    PROVE  (Tracked(req[p]))'
<1>1. req[p].due \subseteq Nat /\ started \in Nat
  BY DEF TypeOK, Reqs
<1>2. \A i \in req'[p].due : i <= started'
  BY <1>1 DEF Tracked, Kept
<1>3. \A s \in session' : s.id \in req[p].due =>
         \E q \in session : s.id = q.id /\ s.job = q.job /\ (s.end = "OPEN" => s = q)
  BY <1>1 DEF Tracked, Kept
<1> QED BY <1>2, <1>3 DEF Tracked

\* So does one that gets no new due rows and is not about to end any.
LEMMA TrackedMoves ==
    ASSUME TypeOK, Kept, NEW p \in Requests, Tracked(req[p]),
           req'[p].due = {} \/ (req'[p].due = req[p].due /\ req'[p].job = req[p].job),
           req'[p].pc # "ending"
    PROVE  (Tracked(req[p]))'
<1>1. req[p].due \subseteq Nat /\ started \in Nat
  BY DEF TypeOK, Reqs
<1>2. \A i \in req'[p].due : i <= started'
  BY <1>1 DEF Tracked, Kept
<1>3. \A s \in session' : s.id \in req'[p].due => s.job = req'[p].job
  BY <1>1 DEF Tracked, Kept
<1> QED BY <1>2, <1>3 DEF Tracked

\* A request that goes on to close a card's timers has those running on it.
LEMMA TrackedClose ==
    ASSUME TypeOK, UniqueIds, NEW p \in Requests, NEW j \in Jobs, NEW reason,
           ThenClose(p, j, reason), UNCHANGED <<session, started>>
    PROVE  (Tracked(req[p]))'
<1>1. req'[p].due = OpenOn(j) /\ req'[p].job = j /\ req'[p].pc = "closing"
  BY DEF ThenClose, Idle, TypeOK
<1>2. \A i \in OpenOn(j) : \E s \in session : s.id = i /\ s.job = j
  BY DEF OpenOn
<1> QED BY <1>1, <1>2 DEF Tracked, UniqueIds

LEMMA KeptAlways ==
    ASSUME TypeOK, TimerInv, [Next]_vars
    PROVE  Kept
<1>0. session \subseteq Sessions /\ UniqueIds /\ OneOpenPerTech
  BY DEF TypeOK, TimerInv
<1>1. ASSUME UNCHANGED <<session, started>> PROVE Kept
  BY <1>1 DEF Kept
<1>2. ASSUME NEW p \in Requests, StartWrite(p) PROVE Kept
  BY <1>0, <1>1, <1>2, EndRowsKept DEF StartWrite, Kept, NewSession, EndReasons
<1>3. ASSUME NEW p \in Requests, CloseWrite(p) PROVE Kept
  <2>1. req[p].put.reason \in EndReasons
    BY <1>3 DEF CloseWrite, TypeOK
  <2> QED BY <1>0, <1>3, <2>1, EndRowsKept DEF CloseWrite, Kept
<1>4. ASSUME AutoWrite PROVE Kept
  BY <1>0, <1>4, EndRowsKept DEF AutoWrite, Kept, EndReasons
<1>5. ASSUME NEW p \in Requests, NewRequest(p) PROVE UNCHANGED <<session, started>>
  BY <1>5 DEF NewRequest, Decide, Claim, StartWork, JoinRead, LogStepRead, Release, Reassign
<1>6. ASSUME NEW p \in Requests,
             \/ WriteStatus(p) \/ Promote(p) \/ Join(p) \/ AutoClaim(p)
             \/ StartRead(p) \/ CloseRead(p) \/ Kill(p)
      PROVE  UNCHANGED <<session, started>>
  BY <1>6 DEF WriteStatus, Promote, Join, AutoClaim, StartRead, CloseRead, Kill
<1>7. ASSUME \/ \E j \in Jobs, t \in Techs : LeaveHelper(j, t)
             \/ Age \/ AutoRead \/ AutoKill \/ UNCHANGED vars
      PROVE  UNCHANGED <<session, started>>
  BY <1>7 DEF LeaveHelper, Age, AutoRead, AutoKill, vars
<1> QED BY <1>1, <1>2, <1>3, <1>4, <1>5, <1>6, <1>7 DEF Next, RequestStep, Nightly

\* Rows stay unique, one open for each technician.
LEMMA RowsStep ==
    ASSUME TypeOK, TimerInv, [Next]_vars
    PROVE  UniqueIds' /\ OneOpenPerTech'
<1>0. session \subseteq Sessions /\ UniqueIds /\ OneOpenPerTech /\ started \in Nat
  BY DEF TypeOK, TimerInv
<1>1. ASSUME UNCHANGED <<session, started>> PROVE UniqueIds' /\ OneOpenPerTech'
  BY <1>0, <1>1 DEF UniqueIds, OneOpenPerTech
<1>2. ASSUME NEW rows, NEW reason \in EndReasons,
             session' = EndRows(rows, reason), started' = started
      PROVE  UniqueIds' /\ OneOpenPerTech'
  BY <1>0, <1>2, EndRowsKept DEF UniqueIds, OneOpenPerTech
<1>3. ASSUME NEW p \in Requests, StartWrite(p) PROVE UniqueIds' /\ OneOpenPerTech'
  <2> DEFINE kept == EndRows(req[p].rows, "SWITCHED")
  <2>1. CASE \E s \in OpenOf(req[p].tech) : s.id \notin req[p].rows
    BY <1>1, <1>3, <2>1 DEF StartWrite
  <2>2. CASE \A s \in OpenOf(req[p].tech) : s.id \in req[p].rows
    <3>1. session' = kept \union {NewSession(p)} /\ started' = started + 1
      BY <1>3, <2>2 DEF StartWrite
    <3>2. \A s \in kept : s.id <= started /\ s.id \in Nat
      BY <1>0, EndRowsKept, EndRowsFacts DEF EndReasons, Sessions
    <3>3. NewSession(p).id = started + 1 /\ NewSession(p).tech = req[p].tech
      BY DEF NewSession
    <3>4. UniqueIds'
      <4>1. \A s, q \in kept : s.id = q.id => s = q
        BY <1>0, EndRowsKept DEF EndReasons
      <4> QED BY <1>0, <3>1, <3>2, <3>3, <4>1 DEF UniqueIds
    <3>5. \A s \in kept : s.end = "OPEN" => s.tech # req[p].tech
      <4> TAKE s \in kept
      <4> HAVE s.end = "OPEN"
      <4>1. s \in session /\ s.id \notin req[p].rows
        BY <1>0, EndRowsKept DEF EndReasons
      <4> QED BY <2>2, <4>1 DEF OpenOf
    <3>6. \A s, q \in kept : s.tech = q.tech /\ s.end = "OPEN" /\ q.end = "OPEN" => s = q
      BY <1>0, EndRowsKept DEF EndReasons
    <3>7. OneOpenPerTech'
      BY <3>1, <3>3, <3>5, <3>6 DEF OneOpenPerTech
    <3> QED BY <3>4, <3>7
  <2> QED BY <2>1, <2>2
<1>4. ASSUME NEW p \in Requests, CloseWrite(p) PROVE UniqueIds' /\ OneOpenPerTech'
  <2>1. req[p].put.reason \in EndReasons
    BY <1>4 DEF CloseWrite, TypeOK
  <2> QED BY <1>2, <1>4, <2>1 DEF CloseWrite
<1>5. ASSUME AutoWrite PROVE UniqueIds' /\ OneOpenPerTech'
  BY <1>2, <1>5 DEF AutoWrite, EndReasons
<1>6. ASSUME NEW p \in Requests, NewRequest(p) PROVE UNCHANGED <<session, started>>
  BY <1>6 DEF NewRequest, Decide, Claim, StartWork, JoinRead, LogStepRead, Release, Reassign
<1>7. ASSUME NEW p \in Requests,
             \/ WriteStatus(p) \/ Promote(p) \/ Join(p) \/ AutoClaim(p)
             \/ StartRead(p) \/ CloseRead(p) \/ Kill(p)
      PROVE  UNCHANGED <<session, started>>
  BY <1>7 DEF WriteStatus, Promote, Join, AutoClaim, StartRead, CloseRead, Kill
<1>8. ASSUME \/ \E j \in Jobs, t \in Techs : LeaveHelper(j, t)
             \/ Age \/ AutoRead \/ AutoKill \/ UNCHANGED vars
      PROVE  UNCHANGED <<session, started>>
  BY <1>8 DEF LeaveHelper, Age, AutoRead, AutoKill, vars
<1> QED BY <1>1, <1>3, <1>4, <1>5, <1>6, <1>7, <1>8 DEF Next, RequestStep, Nightly

\* Every request stays tracked.
LEMMA TrackedStep ==
    ASSUME TypeOK, TimerInv, [Next]_vars, NEW r \in Requests
    PROVE  (Tracked(req[r]))'
<1>0. Kept /\ UniqueIds /\ Tracked(req[r]) /\ req \in [Requests -> Reqs]
  BY KeptAlways DEF TimerInv, TypeOK
<1>1. ASSUME req'[r] = req[r] PROVE (Tracked(req[r]))'
  BY <1>0, <1>1, TrackedStays
<1>2. ASSUME Finish(r) PROVE (Tracked(req[r]))'
  BY <1>0, <1>2, TrackedMoves DEF Finish, Idle
<1>3. ASSUME NewRequest(r) PROVE (Tracked(req[r]))'
  <2>1. CASE \E j \in Jobs : Decide(r, j)
    BY <1>0, <2>1, TrackedMoves DEF Decide, Idle
  <2>2. ASSUME NEW j \in Jobs, NEW t \in Techs,
               Claim(r, j, t) \/ StartWork(r, j, t) \/ JoinRead(r, j, t) \/ LogStepRead(r, j, t)
        PROVE  (Tracked(req[r]))'
    BY <1>0, <2>2, TrackedMoves DEF Claim, StartWork, JoinRead, LogStepRead, Begin, Idle
  <2>3. ASSUME NEW j \in Jobs, NEW t \in Techs \union {NoTech}, Release(r, j, t) \/ Reassign(r, j, t)
        PROVE  (Tracked(req[r]))'
    BY <1>0, <2>3, TrackedClose DEF Release, Reassign
  <2> QED BY <1>3, <2>1, <2>2, <2>3 DEF NewRequest, Assignees
<1>4. ASSUME RequestStep(r) PROVE (Tracked(req[r]))'
  <2>1. CASE WriteStatus(r)
    <3>1. CASE req[r].put.reason = "NONE"
      BY <1>2, <2>1, <3>1 DEF WriteStatus
    <3>2. CASE req[r].put.reason # "NONE"
      <4>1. req[r].job \in Jobs
        BY <2>1 DEF WriteStatus, TypeOK
      <4> QED BY <1>0, <2>1, <3>2, <4>1, TrackedClose DEF WriteStatus
    <3> QED BY <3>1, <3>2
  <2>2. CASE Promote(r) \/ Join(r)
    <3>1. CASE Finish(r)
      BY <1>2, <3>1
    <3>2. CASE Goto(r, "start")
      BY <1>0, <3>2, TrackedMoves DEF Goto, Reqs
    <3> QED BY <2>2, <3>1, <3>2 DEF Promote, Join
  <2>3. CASE AutoClaim(r) \/ StartWrite(r) \/ CloseWrite(r) \/ Kill(r)
    BY <1>2, <2>3 DEF AutoClaim, StartWrite, CloseWrite, Kill
  <2>4. CASE StartRead(r)
    <3>1. CASE Finish(r)
      BY <1>2, <3>1
    <3>2. CASE ~Finish(r)
      BY <1>0, <2>4, <3>2, TrackedMoves DEF StartRead, Reqs
    <3> QED BY <3>1, <3>2
  <2>5. CASE CloseRead(r)
    <3>1. CASE Finish(r)
      BY <1>2, <3>1
    <3>2. CASE ~Finish(r)
      <4>1. /\ req'[r].pc = "ending" /\ req'[r].rows = OpenOn(req[r].job)
            /\ req'[r].due = req[r].due /\ req'[r].job = req[r].job
            /\ UNCHANGED <<session, started>>
        BY <1>0, <2>5, <3>2 DEF CloseRead, Reqs
      <4>2. \A s \in session : s.job = req[r].job /\ s.end = "OPEN" => s.id \in OpenOn(req[r].job)
        BY DEF OpenOn
      <4> QED BY <1>0, <4>1, <4>2 DEF Tracked
    <3> QED BY <3>1, <3>2
  <2> QED BY <1>4, <2>1, <2>2, <2>3, <2>4, <2>5 DEF RequestStep
<1>5. ASSUME NEW p \in Requests, p # r, NewRequest(p) \/ RequestStep(p)
      PROVE  req'[r] = req[r]
  <2>1. ASSUME NewRequest(p) PROVE req'[r] = req[r]
    BY <1>0, <1>5, <2>1 DEF NewRequest, Decide, Claim, StartWork, JoinRead, LogStepRead, Release,
       Reassign, Begin, ThenClose
  <2>2. ASSUME RequestStep(p) PROVE req'[r] = req[r]
    BY <1>0, <1>5, <2>2 DEF RequestStep, WriteStatus, Promote, Join, AutoClaim, StartRead,
       StartWrite, CloseRead, CloseWrite, Kill, Finish, Goto, ThenClose
  <2> QED BY <1>5, <2>1, <2>2
<1>6. ASSUME \/ \E j \in Jobs, t \in Techs : LeaveHelper(j, t)
             \/ Age \/ Nightly \/ AutoKill \/ UNCHANGED vars
      PROVE  req'[r] = req[r]
  BY <1>6 DEF LeaveHelper, Age, Nightly, AutoRead, AutoWrite, AutoKill, vars
<1> QED BY <1>1, <1>3, <1>4, <1>5, <1>6 DEF Next

LEMMA TimerInit == Init => TimerInv
BY DEF Init, TimerInv, UniqueIds, OneOpenPerTech, Tracked, Idle

LEMMA TimerStep == TypeOK /\ TimerInv /\ [Next]_vars => TimerInv'
BY RowsStep, TrackedStep DEF TimerInv

\* Session ids stay unique, one timer runs for each technician, and every request
\* that closes a card's timers has all of them in hand.
THEOREM TimersTracked == Spec => []TimerInv
BY TimerInit, TimerStep, TypeCorrect, PTL DEF Spec

\* No technician has two timers running, however many requests start one.
THEOREM OneCarAtATime == Spec => []OneOpenPerTech
<1>1. TimerInv => OneOpenPerTech
  BY DEF TimerInv
<1> QED BY <1>1, TimersTracked, PTL

\* A closer that comes to its end, and was not killed, ends with its last read
\* or with its update.
LEMMA CloserEnds ==
    ASSUME TypeOK, [Next]_vars, NEW p \in Requests,
           req[p].pc \in {"closing", "ending"}, req'[p].pc = "idle", budget' = budget
    PROVE  CloseRead(p) \/ CloseWrite(p)
<1>0. req \in [Requests -> Reqs] /\ budget \in [Sorts -> Nat]
  BY DEF TypeOK
<1>1. \A k \in Sorts : ~Spend(k)
  BY <1>0, SpendType
<1>2. ASSUME NEW q \in Requests, NewRequest(q) PROVE FALSE
  BY <1>1, <1>2 DEF NewRequest, Decide, Claim, StartWork, JoinRead, LogStepRead, Release,
     Reassign, Sorts
<1>3. ASSUME NEW q \in Requests, q # p, RequestStep(q) PROVE FALSE
  <2>1. req'[p] = req[p]
    BY <1>0, <1>3 DEF RequestStep, WriteStatus, Promote, Join, AutoClaim, StartRead,
       StartWrite, CloseRead, CloseWrite, Kill, Finish, Goto, ThenClose
  <2> QED BY <2>1
<1>4. CASE RequestStep(p)
  <2>1. ~Kill(p)
    BY <1>1 DEF Kill, Sorts
  <2> QED BY <1>4, <2>1 DEF RequestStep, WriteStatus, Promote, Join, AutoClaim, StartRead, StartWrite
<1>5. ASSUME (\E j \in Jobs, t \in Techs : LeaveHelper(j, t)) \/ AutoKill PROVE FALSE
  BY <1>1, <1>5 DEF LeaveHelper, AutoKill, Sorts
<1>6. ASSUME Age \/ Nightly \/ UNCHANGED vars PROVE FALSE
  BY <1>6 DEF Age, Nightly, AutoRead, AutoWrite, vars
<1> QED BY <1>2, <1>3, <1>4, <1>5, <1>6 DEF Next

\* Then none of the timers it was to stop still runs.
LEMMA DueAreStopped ==
    ASSUME TypeOK, TimerInv, NEW p \in Requests, req'[p].pc = "idle",
           CloseRead(p) \/ CloseWrite(p), NEW s \in session', s.id \in req[p].due
    PROVE  s.end # "OPEN"
<1>0. /\ req \in [Requests -> Reqs] /\ session \subseteq Sessions
      /\ UniqueIds /\ OneOpenPerTech /\ Tracked(req[p])
  BY DEF TypeOK, TimerInv
<1>1. CASE CloseRead(p)
  <2>1. OpenOn(req[p].job) = {}
    <3> SUFFICES ASSUME OpenOn(req[p].job) # {} PROVE FALSE
      OBVIOUS
    <3>1. req' = [req EXCEPT ![p].pc = "ending", ![p].rows = OpenOn(req[p].job)]
      BY <1>1 DEF CloseRead
    <3>2. req'[p].pc = "ending"
      BY <1>0, <3>1 DEF Reqs
    <3> QED BY <3>2
  <2>2. s \in session /\ s.job = req[p].job
    BY <1>0, <1>1 DEF CloseRead, Tracked
  <2> QED BY <2>1, <2>2 DEF OpenOn
<1>2. CASE CloseWrite(p)
  <2>1. req[p].pc = "ending" /\ req[p].put.reason \in EndReasons
    BY <1>2 DEF CloseWrite, TypeOK
  <2>2. PICK q \in session : /\ s.id = q.id
                             /\ s.end = "OPEN" => s = q /\ s.id \notin req[p].rows
    BY <1>0, <1>2, <2>1, EndRowsKept DEF CloseWrite
  <2> QED BY <1>0, <2>1, <2>2 DEF Tracked
<1> QED BY <1>1, <1>2

\* A closer stops every timer that ran on its card when it wrote the card.
THEOREM StopsTimers == Spec => StopsEveryTimer
<1>1. TypeOK /\ TimerInv /\ [Next]_vars
        => [\A p \in Requests :
              req[p].pc \in {"closing", "ending"} /\ req'[p].pc = "idle" /\ budget' = budget
                  => \A s \in session' : s.id \in req[p].due => s.end # "OPEN"]_vars
  BY CloserEnds, DueAreStopped
<1> QED BY <1>1, TypeCorrect, TimersTracked, PTL DEF Spec, StopsEveryTimer

(***************************************************************************)
(* The papers of a card, and the floor under them.                         *)
(***************************************************************************)

LineRows == [est: Drafts, item: Items, nth: Nat]
ItemRows == [job: Jobs \union {NoJob}, kind: Kinds \union {"NONE"},
             fate: {"NONE", "THERE", "TAKEN_BACK", "QUOTED"}, line: SUBSET LineRows]
Notes    == [pc: {"idle", "claim", "act", "stamp", "advance", "roll", "price"},
             act: PaperSorts \union {"NONE"}, job: Jobs \union {NoJob},
             tech: Techs \union {NoTech}, items: SUBSET Items, refused: BOOLEAN,
             early: BOOLEAN]

\* Every variable of the papers has its type.
PaperTypeOK ==
    /\ finding \in [Jobs -> [text: BOOLEAN, submitted: BOOLEAN]]
    /\ repair \in [Jobs -> [done: BOOLEAN, qc: BOOLEAN]]
    /\ item \in [Items -> ItemRows]
    /\ lines \subseteq LineRows /\ removed \subseteq lines /\ made \in Nat
    /\ note \in [Hands -> Notes]

\* What a request may rely on between two of its calls: it is let in unless it has a
\* claim to make first, and the parts it is about are the card's, of the kind it takes.
NoteOK(n) ==
    /\ n.pc # "idle" \/ n.act # "NONE" => n.job \in Jobs
    /\ n.pc = "claim" => n.tech \in Techs
    /\ n.refused => n.pc = "claim"
    /\ n.act = "qc" /\ ~n.refused => repair[n.job].done
    /\ n.act = "unneed" => \A k \in n.items : item[k].job = n.job /\ item[k].kind = "REQUIRED"
    /\ n.act = "unuse" => \A k \in n.items : item[k].job = n.job /\ item[k].kind = "USED"
    /\ n.act \in {"unextra", "reestimate"} => \A k \in n.items : item[k].kind = "EXTRA"
    /\ n.pc = "roll" => n.act = "reestimate"
    /\ n.pc = "price" => \E k \in Items : n.items = {k} /\ item[k].kind \in {"REQUIRED", "USED"}

From(k) == {l \in lines : l.item = k}

\* What became of the part in row k, and of the lines made from it.
ItemOK(k) ==
    /\ item[k].kind = "NONE" => item[k].fate = "NONE" /\ From(k) = {}
    /\ item[k].kind # "NONE" => item[k].fate # "NONE" /\ item[k].job \in Jobs
    /\ item[k].kind = "EXTRA" =>
          /\ item[k].line = {}
          /\ item[k].fate = "THERE" => From(k) = {}
          /\ item[k].fate = "QUOTED" => From(k) # {}
    /\ item[k].line \subseteq From(k) \ removed
    /\ k \notin past =>
          /\ \A l, m \in From(k) \ removed : l = m
          /\ item[k].fate = "THERE" => From(k) \ removed = item[k].line
          /\ item[k].kind = "EXTRA" /\ item[k].fate = "TAKEN_BACK" => From(k) = {}

\* What is signed off is complete, what is submitted has a text.
CardOK(j) ==
    /\ repair[j].qc => repair[j].done
    /\ finding[j].submitted /\ j \notin past => finding[j].text

PaperInv ==
    /\ \A h \in Hands : NoteOK(note[h])
    /\ \A k \in Items : ItemOK(k)
    /\ \A j \in Jobs : CardOK(j)
    /\ \A l \in lines : l.nth < made

\* The invariant of the composition.
BothInv == TypeOK /\ TimerInv /\ PaperTypeOK /\ PaperInv

(***************************************************************************)
(* The floor.  A request of the papers leaves timers and requests of the   *)
(* floor alone; what it does to a card takes no claim from anybody.        *)
(***************************************************************************)

Gentle ==
    /\ UNCHANGED <<session, started, old, req, cron, budget>>
    /\ card' \in [Jobs -> Cards]
    /\ \A j \in Jobs : card[j].claimedBy # NoTech => card'[j].claimedBy = card[j].claimedBy

LEMMA GentleWrite ==
    ASSUME TypeOK, NEW j \in Jobs, NEW s \in Statuses, NEW f \in Linear \union {"NONE"},
           card' = [card EXCEPT ![j].status = s, ![j].heldFrom = f]
                \/ card' = [card EXCEPT ![j].status = s]
    PROVE  /\ card' \in [Jobs -> Cards]
           /\ \A i \in Jobs : card'[i].claimedBy = card[i].claimedBy
<1>1. card \in [Jobs -> Cards]
  BY DEF TypeOK
<1>2. card' \in [Jobs -> Cards]
  BY <1>1 DEF Cards
<1>3. ASSUME NEW i \in Jobs PROVE card'[i].claimedBy = card[i].claimedBy
  <2>1. CASE i = j
    BY <1>1, <2>1 DEF Cards
  <2>2. CASE i # j
    BY <1>1, <2>2
  <2> QED BY <2>1, <2>2
<1> QED BY <1>2, <1>3

LEMMA GentleSteps ==
    ASSUME TypeOK, NEW h \in Hands, NoteOK(note[h]), NewPaper(h) \/ PaperStep(h)
    PROVE  Gentle
<1>0. card \in [Jobs -> Cards]
  BY DEF TypeOK
<1>1. ASSUME UNCHANGED vars PROVE Gentle
  BY <1>0, <1>1 DEF vars, Gentle
<1>2. CASE NewPaper(h)
  <2>1. ASSUME NEW act, NEW j, NEW t, Work(h, act, j, t) \/ OnExtras(h, act, j, t)
        PROVE  UNCHANGED vars
    BY <2>1 DEF Work, OnExtras
  <2>2. ASSUME NEW k, PriceRead(h, k) PROVE UNCHANGED vars
    BY <2>2 DEF PriceRead
  <2> QED BY <1>1, <1>2, <2>1, <2>2 DEF NewPaper
<1>3. CASE Save(h) \/ AddPart(h) \/ DropPart(h) \/ SubmitRead(h) \/ SubmitStamp(h)
              \/ Stamp(h) \/ Price(h) \/ KillNote(h)
  BY <1>1, <1>3 DEF Save, AddPart, DropPart, SubmitRead, SubmitStamp, Stamp, Price, KillNote
<1>4. CASE ClaimFree(h)
  <2> DEFINE j == note[h].job
             t == note[h].tech
  <2>1. j \in Jobs /\ t \in Techs /\ UNCHANGED <<session, started, old, req, cron, budget>>
    BY <1>4 DEF ClaimFree, NoteOK
  <2>2. CASE card[j].claimedBy = NoTech
    <3>1. card' = [card EXCEPT ![j].claimedBy = t]
      BY <1>4, <2>2 DEF ClaimFree
    <3>2. card' \in [Jobs -> Cards]
      <4>1. card[j] \in Cards
        BY <1>0, <2>1
      <4>2. [card[j] EXCEPT !.claimedBy = t] \in Cards
        BY <2>1, <4>1 DEF Cards
      <4>3. card' = [card EXCEPT ![j] = [card[j] EXCEPT !.claimedBy = t]]
        BY <1>0, <3>1
      <4> QED BY <1>0, <2>1, <4>2, <4>3
    <3>3. \A i \in Jobs : i # j => card'[i] = card[i]
      BY <1>0, <2>1, <3>1
    <3> QED BY <2>1, <2>2, <3>2, <3>3 DEF Gentle
  <2>3. CASE card[j].claimedBy # NoTech
    BY <1>0, <1>4, <2>1, <2>3 DEF ClaimFree, Gentle
  <2> QED BY <2>2, <2>3
<1>5. CASE SubmitAdvance(h)
  <2>1. note[h].job \in Jobs /\ UNCHANGED <<session, started, old, req, cron, budget>>
    BY <1>5 DEF SubmitAdvance, NoteOK
  <2>2. card' = card \/ card' = [card EXCEPT ![note[h].job].status = "ESTIMATE"]
    BY <1>5 DEF SubmitAdvance
  <2>3. "ESTIMATE" \in Statuses
    BY DEF Statuses, Linear
  <2> QED BY <1>0, <2>1, <2>2, <2>3, GentleWrite DEF Gentle
<1>6. CASE Reestimate(h)
  <2>1. note[h].job \in Jobs /\ UNCHANGED <<session, started, old, req, cron, budget>>
    BY <1>6 DEF Reestimate, NoteOK
  <2>2. card' = [card EXCEPT ![note[h].job].status = "EXTRA_WORK_AWAITING_APPROVAL",
                             ![note[h].job].heldFrom = "NONE"]
    BY <1>6 DEF Reestimate
  <2>3. "EXTRA_WORK_AWAITING_APPROVAL" \in Statuses
    BY DEF Statuses
  <2> QED BY <2>1, <2>2, <2>3, GentleWrite DEF Gentle
<1> QED BY <1>2, <1>3, <1>4, <1>5, <1>6 DEF PaperStep

\* The hold of a dearer quote closes timers like a release.
LEMMA AwaitHolds ==
    ASSUME TypeOK, NEW p \in Requests, NEW j \in Jobs, AwaitApproval(p, j)
    PROVE  /\ UNCHANGED <<session, started, old, cron, budget>>
           /\ card' \in [Jobs -> Cards]
           /\ \A i \in Jobs : card'[i].claimedBy = card[i].claimedBy
<1>1. card[j].status \in Linear /\ "ON_HOLD" \in Statuses
  BY DEF AwaitApproval, Statuses
<1>2. card' = [card EXCEPT ![j].status = "ON_HOLD", ![j].heldFrom = card[j].status]
  BY DEF AwaitApproval
<1>3. UNCHANGED <<session, started, old, cron, budget>>
  BY DEF AwaitApproval
<1> QED BY <1>1, <1>2, <1>3, GentleWrite

\* Every step of the composition is one of these four, as far as the floor goes.
LEMMA OnTheFloor ==
    ASSUME TypeOK, PaperInv, [PaperNext]_<<vars, paperVars>>
    PROVE  [Next]_vars \/ Gentle \/ \E p \in Requests, j \in Jobs : AwaitApproval(p, j)
<1>1. ASSUME NEW h \in Hands, NewPaper(h) \/ PaperStep(h) PROVE Gentle
  BY <1>1, GentleSteps DEF PaperInv
<1>2. ASSUME NEW l \in lines, RemoveLine(l) PROVE UNCHANGED vars
  BY <1>2 DEF RemoveLine
<1>3. FloorStep => Next
  BY DEF FloorStep
<1> QED BY <1>1, <1>2, <1>3 DEF PaperNext

LEMMA FloorTypeStep ==
    ASSUME TypeOK, PaperInv, [PaperNext]_<<vars, paperVars>>
    PROVE  TypeOK'
<1>1. CASE [Next]_vars
  BY <1>1, TypeStep
<1>2. CASE Gentle
  BY <1>2 DEF Gentle, TypeOK
<1>3. ASSUME NEW p \in Requests, NEW j \in Jobs, AwaitApproval(p, j) PROVE TypeOK'
  <2>1. /\ req \in [Requests -> Reqs] /\ \A r \in Requests : ReqOK(req[r])
        /\ session \subseteq Sessions /\ "JOB_CLOSED" \in EndReasons
    BY ReqOKType DEF EndReasons
  <2>2. ThenClose(p, j, "JOB_CLOSED")
    BY <1>3 DEF AwaitApproval
  <2>3. req' \in [Requests -> Reqs] /\ \A r \in Requests : ReqOK(req'[r])
    BY <2>1, <2>2, ThenCloseType
  <2>4. /\ card' \in [Jobs -> Cards]
        /\ UNCHANGED <<session, started, old, cron, budget>>
    BY <1>3, AwaitHolds
  <2> QED BY <2>3, <2>4 DEF TypeOK, ReqOK
<1> QED BY <1>1, <1>2, <1>3, OnTheFloor

LEMMA FloorTimerStep ==
    ASSUME TypeOK, TimerInv, PaperInv, [PaperNext]_<<vars, paperVars>>
    PROVE  TimerInv'
<1>1. CASE [Next]_vars
  BY <1>1, TimerStep
<1>2. CASE Gentle
  BY <1>2 DEF Gentle, TimerInv, UniqueIds, OneOpenPerTech, Tracked
<1>3. ASSUME NEW p \in Requests, NEW j \in Jobs, AwaitApproval(p, j) PROVE TimerInv'
  <2>1. ThenClose(p, j, "JOB_CLOSED") /\ UNCHANGED <<session, started>>
    BY <1>3 DEF AwaitApproval
  <2>2. UniqueIds /\ OneOpenPerTech /\ \A r \in Requests : Tracked(req[r])
    BY DEF TimerInv
  <2>3. Kept
    BY <2>1 DEF Kept
  <2>4. ASSUME NEW r \in Requests PROVE (Tracked(req[r]))'
    <3>1. CASE r = p
      BY <2>1, <2>2, <3>1, TrackedClose
    <3>2. CASE r # p
      <4>1. req'[r] = req[r]
        BY <2>1, <3>2 DEF ThenClose, TypeOK
      <4> QED BY <2>2, <2>3, <4>1, TrackedStays
    <3> QED BY <3>1, <3>2
  <2>5. UniqueIds' /\ OneOpenPerTech'
    BY <2>1, <2>2 DEF UniqueIds, OneOpenPerTech
  <2> QED BY <2>4, <2>5 DEF TimerInv
<1> QED BY <1>1, <1>2, <1>3, OnTheFloor

(***************************************************************************)
(* The papers: types, and what a request may rely on.                      *)
(***************************************************************************)

\* No part changes its card or its kind, and no work is taken to be unfinished again.
Later ==
    /\ \A k \in Items : item[k].kind # "NONE" =>
          item'[k].kind = item[k].kind /\ item'[k].job = item[k].job
    /\ \A j \in Jobs : repair[j].done => repair'[j].done
    /\ past \subseteq past'

LEMMA NoteLater ==
    ASSUME Later, NEW n \in Notes, NoteOK(n)
    PROVE  NoteOK(n)'
<1>1. n.items \subseteq Items
  BY DEF Notes
<1> QED BY <1>1 DEF Later, NoteOK

LEMMA NoteStep ==
    ASSUME note \in [Hands -> Notes], \A i \in Hands : NoteOK(note[i]), Later,
           NEW h \in Hands, NEW n \in Notes, NoteOK(n), note' = [note EXCEPT ![h] = n]
    PROVE  note' \in [Hands -> Notes] /\ \A i \in Hands : (NoteOK(note[i]))'
<1>1. \A i \in Hands : \E m \in Notes : note'[i] = m /\ NoteOK(m)
  OBVIOUS
<1>2. ASSUME NEW i \in Hands PROVE (NoteOK(note[i]))'
  <2>1. PICK m \in Notes : note'[i] = m /\ NoteOK(m)
    BY <1>1
  <2>2. NoteOK(m)'
    BY <2>1, NoteLater
  <2> QED BY <2>1, <2>2 DEF NoteOK
<1> QED BY <1>1, <1>2

LEMMA NotesStay ==
    ASSUME note \in [Hands -> Notes], \A i \in Hands : NoteOK(note[i]), Later, note' = note
    PROVE  note' \in [Hands -> Notes] /\ \A i \in Hands : (NoteOK(note[i]))'
<1>1. ASSUME NEW i \in Hands PROVE (NoteOK(note[i]))'
  <2>1. PICK m \in Notes : note[i] = m /\ NoteOK(m)
    OBVIOUS
  <2>2. NoteOK(m)'
    BY <2>1, NoteLater
  <2> QED BY <2>1, <2>2 DEF NoteOK
<1> QED BY <1>1

LEMMA NoNoteType == NoNote \in Notes /\ NoteOK(NoNote)
BY DEF NoNote, Notes, NoteOK

\* A request that goes on within its own sort.
LEMMA GoOnType ==
    ASSUME NEW n \in Notes, NoteOK(n), ~n.refused, n.pc # "idle",
           NEW pc \in {"act", "stamp", "advance"}
    PROVE  [n EXCEPT !.pc = pc] \in Notes /\ NoteOK([n EXCEPT !.pc = pc])
<1> DEFINE m == [n EXCEPT !.pc = pc]
<1>1. /\ m \in Notes /\ m.pc = pc /\ m.act = n.act /\ m.job = n.job /\ m.tech = n.tech
      /\ m.items = n.items /\ m.refused = n.refused
  BY DEF Notes
<1>2. NoteOK(m)
  BY <1>1 DEF NoteOK
<1> QED BY <1>1, <1>2

\* What is listed for a request to be about.
LEMMA ListedFacts ==
    ASSUME NEW act, NEW j, NEW items \in Listed(act, j)
    PROVE  /\ items \subseteq Items
           /\ act = "unneed" => \A k \in items : item[k].job = j /\ item[k].kind = "REQUIRED"
           /\ act = "unuse" => \A k \in items : item[k].job = j /\ item[k].kind = "USED"
           /\ act = "unextra" => \A k \in items : item[k].kind = "EXTRA"
<1>1. CASE act = "unneed"
  BY <1>1 DEF Listed, Pending
<1>2. CASE act = "unuse"
  BY <1>2 DEF Listed, Pending
<1>3. CASE act = "unextra"
  BY <1>3 DEF Listed, Pending
<1>4. CASE act \notin {"unneed", "unuse", "unextra"}
  BY <1>4 DEF Listed
<1> QED BY <1>1, <1>2, <1>3, <1>4

\* A new request knows what it needs.
LEMMA NewNote ==
    ASSUME PaperTypeOK, PaperInv, NEW h \in Hands, NewPaper(h)
    PROVE  \E n \in Notes : NoteOK(n) /\ note' = [note EXCEPT ![h] = n]
<1>0. \A act, j : Refused(act, j) \in BOOLEAN
  BY DEF Refused
<1>1. ASSUME NEW j \in Jobs, NEW t \in Techs, NEW act \in PaperSorts, Work(h, act, j, t),
             act \notin {"extra", "unextra", "reestimate", "price", "unprice", "await", "kill"}
      PROVE  \E n \in Notes : NoteOK(n) /\ note' = [note EXCEPT ![h] = n]
  <2> DEFINE pc == IF card[j].claimedBy = NoTech THEN "claim" ELSE "act"
  <2>1. PICK items \in Listed(act, j) : Note(h, pc, act, j, t, items)
    BY <1>1 DEF Work
  <2>2. Refused(act, j) => pc = "claim"
    BY <1>1 DEF Work
  <2> DEFINE n == [pc |-> pc, act |-> act, job |-> j, tech |-> t, items |-> items,
                   refused |-> Refused(act, j),
                   early |-> card[j].status \in {"ARRIVED", "INSPECTION"}]
  <2>3. n \in Notes
    BY <1>0, ListedFacts DEF Notes
  <2>4. act = "qc" /\ ~Refused(act, j) => repair[j].done
    BY DEF Refused
  <2>5. NoteOK(n)
    BY <1>1, <2>2, <2>4, ListedFacts DEF NoteOK
  <2>6. note' = [note EXCEPT ![h] = n]
    BY <2>1 DEF Note
  <2> QED BY <2>3, <2>5, <2>6
<1>2. ASSUME NEW j \in Jobs, NEW t \in Techs, NEW act \in {"extra", "unextra", "reestimate"},
             OnExtras(h, act, j, t)
      PROVE  \E n \in Notes : NoteOK(n) /\ note' = [note EXCEPT ![h] = n]
  <2> DEFINE pc == IF act = "reestimate" THEN "roll" ELSE "act"
  <2>1. PICK items : /\ items \subseteq Items
                     /\ act \in {"unextra", "reestimate"} => \A k \in items : item[k].kind = "EXTRA"
                     /\ Note(h, pc, act, j, t, items)
    <3>1. CASE act = "reestimate"
      BY <1>2, <3>1 DEF OnExtras, Pending
    <3>2. CASE act # "reestimate"
      BY <1>2, <3>2, ListedFacts DEF OnExtras
    <3> QED BY <3>1, <3>2
  <2>2. ~Refused(act, j)
    BY DEF Refused
  <2> DEFINE n == [pc |-> pc, act |-> act, job |-> j, tech |-> t, items |-> items,
                   refused |-> Refused(act, j),
                   early |-> card[j].status \in {"ARRIVED", "INSPECTION"}]
  <2>3. n \in Notes
    BY <1>0, <2>1 DEF Notes, PaperSorts
  <2>4. NoteOK(n)
    BY <2>1, <2>2 DEF NoteOK
  <2>5. note' = [note EXCEPT ![h] = n]
    BY <2>1 DEF Note
  <2> QED BY <2>3, <2>4, <2>5
<1>3. ASSUME NEW k \in Items, PriceRead(h, k)
      PROVE  \E n \in Notes : NoteOK(n) /\ note' = [note EXCEPT ![h] = n]
  <2> DEFINE j == item[k].job
             n == [pc |-> "price", act |-> "price", job |-> j, tech |-> NoTech, items |-> {k},
                   refused |-> Refused("price", j),
                   early |-> card[j].status \in {"ARRIVED", "INSPECTION"}]
  <2>1. item[k].kind \in {"REQUIRED", "USED"}
    BY <1>3 DEF PriceRead, Pending
  <2>2. j \in Jobs
    BY <2>1 DEF PaperInv, ItemOK
  <2>3. ~Refused("price", j)
    BY DEF Refused
  <2>4. n \in Notes
    BY <1>0, <2>2 DEF Notes, PaperSorts
  <2>5. NoteOK(n)
    BY <2>1, <2>2, <2>3 DEF NoteOK
  <2>6. note' = [note EXCEPT ![h] = n]
    BY <1>3 DEF PriceRead, Note
  <2> QED BY <2>4, <2>5, <2>6
<1> QED BY <1>1, <1>2, <1>3 DEF NewPaper

\* One that goes on, or comes to its end, too.
LEMMA NextNote ==
    ASSUME PaperTypeOK, PaperInv, NEW h \in Hands, PaperStep(h)
    PROVE  \E n \in Notes : NoteOK(n) /\ note' = [note EXCEPT ![h] = n]
<1>0. note[h] \in Notes /\ NoteOK(note[h])
  BY DEF PaperTypeOK, PaperInv
<1>1. CASE Rest(h)
  BY <1>1, NoNoteType DEF Rest
<1>2. ASSUME NEW pc \in {"act", "stamp", "advance"}, GoOn(h, pc),
             ~note[h].refused, note[h].pc # "idle"
      PROVE  \E n \in Notes : NoteOK(n) /\ note' = [note EXCEPT ![h] = n]
  <2>1. note' = [note EXCEPT ![h] = [note[h] EXCEPT !.pc = pc]]
    BY <1>2 DEF GoOn
  <2>2. [note[h] EXCEPT !.pc = pc] \in Notes /\ NoteOK([note[h] EXCEPT !.pc = pc])
    BY <1>0, <1>2, GoOnType
  <2> QED BY <2>1, <2>2
<1>3. note[h].pc # "claim" => ~note[h].refused
  BY <1>0 DEF NoteOK
<1>4. CASE ClaimFree(h)
  BY <1>1, <1>2, <1>4 DEF ClaimFree
<1>5. CASE SubmitRead(h)
  BY <1>1, <1>2, <1>3, <1>5 DEF SubmitRead, Acting
<1>6. CASE SubmitStamp(h)
  BY <1>1, <1>2, <1>3, <1>6 DEF SubmitStamp
<1>7. CASE Save(h) \/ AddPart(h) \/ DropPart(h) \/ SubmitAdvance(h) \/ Stamp(h)
              \/ Reestimate(h) \/ Price(h) \/ KillNote(h)
  BY <1>1, <1>7 DEF Save, AddPart, DropPart, SubmitAdvance, Stamp, Reestimate, Price, KillNote
<1> QED BY <1>4, <1>5, <1>6, <1>7 DEF PaperStep

(***************************************************************************)
(* The papers: findings, parts and lines.                                  *)
(***************************************************************************)

\* The invariant without the requests.
PapersOK ==
    /\ finding \in [Jobs -> [text: BOOLEAN, submitted: BOOLEAN]]
    /\ repair \in [Jobs -> [done: BOOLEAN, qc: BOOLEAN]]
    /\ item \in [Items -> ItemRows]
    /\ lines \subseteq LineRows /\ removed \subseteq lines /\ made \in Nat
    /\ \A k \in Items : ItemOK(k)
    /\ \A j \in Jobs : CardOK(j)
    /\ \A l \in lines : l.nth < made

LEMMA ItemStays ==
    ASSUME NEW k \in Items, ItemOK(k), item'[k] = item[k],
           UNCHANGED <<lines, removed>>, past \subseteq past'
    PROVE  ItemOK(k)'
BY DEF ItemOK, From

LEMMA CardStays ==
    ASSUME NEW j \in Jobs, CardOK(j), finding'[j] = finding[j], repair'[j] = repair[j],
           past \subseteq past'
    PROVE  CardOK(j)'
BY DEF CardOK

\* A part whose lines stay, and which is not moved, stays as it is.
LEMMA ItemKeeps ==
    ASSUME NEW k \in Items, ItemOK(k), item'[k] = item[k],
           \A l \in lines \union lines' : l.item = k =>
               (l \in lines <=> l \in lines') /\ (l \in removed <=> l \in removed'),
           past \subseteq past'
    PROVE  ItemOK(k)'
<1>1. From(k)' = From(k)
  BY DEF From
<1>2. From(k)' \ removed' = From(k) \ removed
  BY <1>1 DEF From
<1> QED BY <1>1, <1>2 DEF ItemOK

LEMMA QuietStep ==
    ASSUME PapersOK, UNCHANGED <<finding, repair, item, lines, made, removed, past>>
    PROVE  PapersOK' /\ Later
<1>1. \A k \in Items : ItemOK(k)'
  BY ItemStays DEF PapersOK
<1>2. \A j \in Jobs : CardOK(j)'
  BY CardStays DEF PapersOK
<1> QED BY <1>1, <1>2 DEF PapersOK, Later

LEMMA SaveStep ==
    ASSUME PapersOK, NEW h \in Hands, NoteOK(note[h]), Save(h)
    PROVE  PapersOK' /\ Later
<1> DEFINE j == note[h].job
<1>1. j \in Jobs /\ UNCHANGED <<repair, item, lines, made, removed>> /\ past \subseteq past'
  BY DEF Save, NoteOK, Acting, Past
<1>2. finding' \in [Jobs -> [text: BOOLEAN, submitted: BOOLEAN]]
  BY <1>1 DEF Save, PapersOK
<1>3. \A i \in Jobs : finding'[i].submitted = finding[i].submitted
                      /\ (i # j => finding'[i] = finding[i])
  BY <1>1 DEF Save, PapersOK
<1>4. finding[j].submitted => j \in past'
  BY <1>1 DEF Save, Past, Overtaken, Refused, Acting
<1>5. \A i \in Jobs : CardOK(i)'
  BY <1>1, <1>3, <1>4 DEF PapersOK, CardOK
<1>6. \A k \in Items : ItemOK(k)'
  BY <1>1, ItemStays DEF PapersOK
<1> QED BY <1>1, <1>2, <1>5, <1>6 DEF PapersOK, Later

LEMMA SubmitStampStep ==
    ASSUME PapersOK, NEW h \in Hands, NoteOK(note[h]), SubmitStamp(h)
    PROVE  PapersOK' /\ Later
<1> DEFINE j == note[h].job
<1>1. j \in Jobs /\ UNCHANGED <<repair, item, lines, made, removed>> /\ past \subseteq past'
  BY DEF SubmitStamp, NoteOK, Past
<1>2. finding' \in [Jobs -> [text: BOOLEAN, submitted: BOOLEAN]]
  BY <1>1 DEF SubmitStamp, PapersOK
<1>3. \A i \in Jobs : finding'[i].text = finding[i].text
                      /\ (i # j => finding'[i] = finding[i])
  BY <1>1 DEF SubmitStamp, PapersOK
<1>4. ~finding[j].text => j \in past'
  BY <1>1 DEF SubmitStamp, Past
<1>5. \A i \in Jobs : CardOK(i)'
  BY <1>1, <1>3, <1>4 DEF PapersOK, CardOK
<1>6. \A k \in Items : ItemOK(k)'
  BY <1>1, ItemStays DEF PapersOK
<1> QED BY <1>1, <1>2, <1>5, <1>6 DEF PapersOK, Later

LEMMA StampStep ==
    ASSUME PapersOK, NEW h \in Hands, NoteOK(note[h]), Stamp(h)
    PROVE  PapersOK' /\ Later
<1> DEFINE j == note[h].job
<1>1. j \in Jobs /\ UNCHANGED <<finding, item, lines, made, removed, past>>
  BY DEF Stamp, NoteOK, Acting
<1>2. note[h].act = "qc" => repair[j].done
  BY DEF Stamp, Acting, NoteOK
<1>3. /\ repair' \in [Jobs -> [done: BOOLEAN, qc: BOOLEAN]]
      /\ \A i \in Jobs : i # j => repair'[i] = repair[i]
      /\ repair[j].done => repair'[j].done
      /\ repair'[j].qc => repair'[j].done
  <2>1. CASE note[h].act = "qc"
    <3>1. repair' = [repair EXCEPT ![j].qc = TRUE]
      BY <2>1 DEF Stamp
    <3> QED BY <1>1, <1>2, <2>1, <3>1 DEF PapersOK
  <2>2. CASE note[h].act # "qc"
    <3>1. repair' = [repair EXCEPT ![j].done = TRUE]
      BY <2>2 DEF Stamp
    <3> QED BY <1>1, <3>1 DEF PapersOK
  <2> QED BY <2>1, <2>2
<1>4. \A i \in Jobs : CardOK(i)'
  BY <1>1, <1>3 DEF PapersOK, CardOK
<1>5. \A k \in Items : ItemOK(k)'
  BY <1>1, ItemStays DEF PapersOK
<1> QED BY <1>1, <1>3, <1>4, <1>5 DEF PapersOK, Later

\* A step of the floor may only set a completion.
LEMMA FloorPapersStep ==
    ASSUME PapersOK, FloorStep
    PROVE  PapersOK' /\ Later
<1>1. UNCHANGED <<finding, item, lines, made, removed, note, past>>
  BY DEF FloorStep
<1>2. /\ repair' \in [Jobs -> [done: BOOLEAN, qc: BOOLEAN]]
      /\ \A j \in Jobs : \/ repair'[j].done = TRUE /\ repair'[j].qc = repair[j].qc
                         \/ repair'[j] = repair[j]
  BY DEF FloorStep, PapersOK
<1>3. \A i \in Jobs : CardOK(i)'
  BY <1>1, <1>2 DEF PapersOK, CardOK
<1>4. \A k \in Items : ItemOK(k)'
  BY <1>1, ItemStays DEF PapersOK
<1> QED BY <1>1, <1>2, <1>3, <1>4 DEF PapersOK, Later

LEMMA AddPartStep ==
    ASSUME PapersOK, NEW h \in Hands, NoteOK(note[h]), AddPart(h)
    PROVE  PapersOK' /\ Later
<1>1. /\ note[h].job \in Jobs /\ UNCHANGED <<finding, repair, lines, made, removed>>
      /\ past \subseteq past'
  BY DEF AddPart, NoteOK, Acting, Past
<1>2. PICK k \in Items :
        /\ item[k].kind = "NONE"
        /\ item' = [item EXCEPT ![k] = [job |-> note[h].job, kind |-> KindOf(note[h].act),
                                        fate |-> "THERE", line |-> {}]]
  BY DEF AddPart, NextItem
<1>3. KindOf(note[h].act) \in Kinds
  BY DEF AddPart, Acting, KindOf, Kinds
<1>4. item' \in [Items -> ItemRows]
  BY <1>1, <1>2, <1>3 DEF PapersOK, ItemRows
<1>5. ASSUME NEW i \in Items PROVE ItemOK(i)'
  <2>1. CASE i = k
    <3>1. /\ item'[k].job \in Jobs /\ item'[k].kind \in Kinds
          /\ item'[k].fate = "THERE" /\ item'[k].line = {}
      BY <1>1, <1>2, <1>3 DEF PapersOK
    <3>2. From(k)' = {}
      BY <1>1, <1>2 DEF PapersOK, ItemOK, From
    <3> QED BY <2>1, <3>1, <3>2 DEF ItemOK, Kinds
  <2>2. CASE i # k
    BY <1>1, <1>2, <2>2, ItemStays DEF PapersOK
  <2> QED BY <2>1, <2>2
<1>6. \A j \in Jobs : CardOK(j)'
  BY <1>1, CardStays DEF PapersOK
<1>7. \A i \in Items : item[i].kind # "NONE" => item'[i] = item[i]
  BY <1>2 DEF PapersOK
<1> QED BY <1>1, <1>4, <1>5, <1>6, <1>7 DEF PapersOK, Later

LEMMA DropPartStep ==
    ASSUME PapersOK, NEW h \in Hands, DropPart(h)
    PROVE  PapersOK' /\ Later
<1>1. UNCHANGED <<finding, repair, lines, made, removed>> /\ past \subseteq past'
  BY DEF DropPart, Past
<1>2. ASSUME NEW k \in Items
      PROVE  \/ item'[k] = item[k]
             \/ /\ item[k].fate = "THERE"
                /\ item'[k] = [item[k] EXCEPT !.fate = "TAKEN_BACK", !.line = {}]
  BY DEF DropPart
<1>3. item' \in [Items -> ItemRows]
  <2>1. ASSUME NEW k \in Items PROVE item'[k] \in ItemRows
    <3>1. item[k] \in ItemRows
      BY DEF PapersOK
    <3>2. [item[k] EXCEPT !.fate = "TAKEN_BACK", !.line = {}] \in ItemRows
      BY <3>1 DEF ItemRows
    <3> QED BY <1>2, <3>1, <3>2
  <2> QED BY <2>1 DEF DropPart
<1>4. ASSUME NEW k \in Items PROVE ItemOK(k)' /\ item'[k].kind = item[k].kind /\ item'[k].job = item[k].job
  <2>1. CASE item'[k] = item[k]
    BY <1>1, <2>1, ItemStays DEF PapersOK
  <2>2. CASE item[k].fate = "THERE" /\ item'[k] = [item[k] EXCEPT !.fate = "TAKEN_BACK", !.line = {}]
    <3>1. /\ item'[k].kind = item[k].kind /\ item'[k].job = item[k].job
          /\ item'[k].fate = "TAKEN_BACK" /\ item'[k].line = {}
      BY <2>2 DEF PapersOK, ItemRows
    <3> QED BY <1>1, <2>2, <3>1 DEF PapersOK, ItemOK, From
  <2> QED BY <1>2, <2>1, <2>2
<1>5. \A j \in Jobs : CardOK(j)'
  BY <1>1, CardStays DEF PapersOK
<1> QED BY <1>1, <1>3, <1>4, <1>5 DEF PapersOK, Later

\* A line that is removed takes the part's link with it.
LEMMA RemoveLineStep ==
    ASSUME PapersOK, NEW l \in lines, RemoveLine(l)
    PROVE  PapersOK' /\ Later
<1>1. /\ UNCHANGED <<finding, repair, lines, made, past>> /\ removed' = removed \union {l}
      /\ item' = [k \in Items |-> [item[k] EXCEPT !.line = @ \ {l}]]
  BY DEF RemoveLine
<1>2. ASSUME NEW k \in Items
      PROVE  /\ item'[k] \in ItemRows /\ item'[k].job = item[k].job
             /\ item'[k].kind = item[k].kind /\ item'[k].fate = item[k].fate
             /\ item'[k].line = item[k].line \ {l}
  BY <1>1 DEF PapersOK, ItemRows
<1>3. item' \in [Items -> ItemRows]
  BY <1>1, <1>2
<1>4. ASSUME NEW k \in Items PROVE ItemOK(k)'
  <2>1. From(k)' = From(k) /\ From(k)' \ removed' = (From(k) \ removed) \ {l}
    BY <1>1 DEF From
  <2>2. ItemOK(k)
    BY DEF PapersOK
  <2> QED BY <1>1, <1>2, <2>1, <2>2 DEF ItemOK
<1>5. \A j \in Jobs : CardOK(j)'
  BY <1>1, CardStays DEF PapersOK
<1>6. removed' \subseteq lines'
  BY <1>1 DEF PapersOK
<1> QED BY <1>1, <1>2, <1>3, <1>4, <1>5, <1>6 DEF PapersOK, Later

\* The extras become lines of the new estimate.
LEMMA ReestimateStep ==
    ASSUME PapersOK, NEW h \in Hands, note[h] \in Notes, NoteOK(note[h]), Reestimate(h)
    PROVE  PapersOK' /\ Later
<1> DEFINE items == note[h].items
<1>1. /\ UNCHANGED <<finding, repair, removed>> /\ past \subseteq past' /\ made' = made + 1
      /\ \A k \in items : item[k].fate # "THERE" => k \in past'
  BY DEF Reestimate, Past
<1>2. items \subseteq Items /\ \A k \in items : item[k].kind = "EXTRA"
  BY DEF Reestimate, NoteOK, Notes
<1>3. PICK e \in Drafts : lines' = lines \union {LineOf(e, k) : k \in items}
  BY DEF Reestimate, NextDraft
<1>4. \A k \in Items : LineOf(e, k).item = k /\ LineOf(e, k).nth = made /\ LineOf(e, k) \in LineRows
  BY DEF LineOf, LineRows, PapersOK
<1>5. lines' \subseteq LineRows /\ removed' \subseteq lines' /\ made' \in Nat
      /\ \A l \in lines' : l.nth < made'
  BY <1>1, <1>2, <1>3, <1>4 DEF PapersOK, LineRows
<1>6. ASSUME NEW k \in Items
      PROVE  /\ k \notin items \/ item[k].fate # "THERE" => item'[k] = item[k]
             /\ k \in items /\ item[k].fate = "THERE"
                   => item'[k] = [item[k] EXCEPT !.fate = "QUOTED"]
  BY DEF Reestimate
<1>7. ASSUME NEW k \in Items
      PROVE  /\ item'[k] \in ItemRows /\ item'[k].kind = item[k].kind
             /\ item'[k].job = item[k].job /\ item'[k].line = item[k].line
  <2>1. item[k] \in ItemRows
    BY DEF PapersOK
  <2>2. [item[k] EXCEPT !.fate = "QUOTED"] \in ItemRows
    BY <2>1 DEF ItemRows
  <2> QED BY <1>6, <2>1, <2>2 DEF ItemRows
<1>8. item' \in [Items -> ItemRows]
  <2> DEFINE row(k) == IF k \in note[h].items /\ item[k].fate = "THERE"
                       THEN [item[k] EXCEPT !.fate = "QUOTED"] ELSE item[k]
  <2>1. item' = [k \in Items |-> row(k)]
    BY DEF Reestimate
  <2>2. \A k \in Items : row(k) = item'[k]
    BY <2>1
  <2>3. \A k \in Items : row(k) \in ItemRows
    BY <1>7, <2>2
  <2> HIDE DEF row
  <2> QED BY <2>1, <2>3
<1>9. ASSUME NEW k \in Items PROVE ItemOK(k)'
  <2>1. ItemOK(k)
    BY DEF PapersOK
  <2>2. CASE k \notin items
    <3>1. \A l \in lines \union lines' : l.item = k => l \in lines /\ l \in lines'
      BY <1>2, <1>3, <1>4, <2>2
    <3> QED BY <1>1, <1>6, <2>1, <2>2, <3>1, ItemKeeps
  <2>3. CASE k \in items
    <3>1. From(k)' = From(k) \union {LineOf(e, k)}
      BY <1>2, <1>3, <1>4, <2>3 DEF From
    <3>2. item[k].kind = "EXTRA" /\ item[k].line = {}
      BY <1>2, <2>1, <2>3 DEF ItemOK
    <3>3. CASE item[k].fate = "THERE"
      <4>1. item'[k].fate = "QUOTED"
        BY <1>6, <2>3, <3>3 DEF PapersOK, ItemRows
      <4>2. From(k)' = {LineOf(e, k)}
        BY <2>1, <3>1, <3>2, <3>3 DEF ItemOK
      <4> QED BY <1>7, <2>1, <3>2, <4>1, <4>2 DEF ItemOK
    <3>4. CASE item[k].fate # "THERE"
      BY <1>1, <1>6, <2>1, <2>3, <3>1, <3>2, <3>4 DEF ItemOK
    <3> QED BY <3>3, <3>4
  <2> QED BY <2>2, <2>3
<1>10. \A j \in Jobs : CardOK(j)'
  BY <1>1, CardStays DEF PapersOK
<1> QED BY <1>1, <1>5, <1>7, <1>8, <1>9, <1>10 DEF PapersOK, Later

\* A part gets its line, if it is still there.
LEMMA PriceStep ==
    ASSUME PapersOK, NEW h \in Hands, NoteOK(note[h]), Price(h)
    PROVE  PapersOK' /\ Later
<1>1. PICK k \in Items : note[h].items = {k} /\ item[k].kind \in {"REQUIRED", "USED"}
  BY DEF Price, NoteOK
<1> DEFINE l == LineOf(0, k)
<1>2. (CHOOSE i \in note[h].items : TRUE) = k
  BY <1>1
<1>3. /\ UNCHANGED <<finding, repair, removed>> /\ past \subseteq past'
      /\ item[k].fate # "THERE" \/ item[k].line # {} => k \in past'
  BY <1>2 DEF Price, Past
<1>4. CASE item[k].fate # "THERE"
  <2>1. UNCHANGED <<item, lines, made>>
    BY <1>2, <1>4 DEF Price
  <2>2. \A i \in Items : ItemOK(i)'
    BY <1>3, <2>1, ItemStays DEF PapersOK
  <2>3. \A j \in Jobs : CardOK(j)'
    BY <1>3, CardStays DEF PapersOK
  <2> QED BY <1>3, <2>1, <2>2, <2>3 DEF PapersOK, Later
<1>5. CASE item[k].fate = "THERE"
  <2>1. /\ lines' = lines \union {l} /\ made' = made + 1
        /\ item' = [item EXCEPT ![k].line = {l}]
    BY <1>2, <1>5 DEF Price
  <2>2. l.item = k /\ l.nth = made /\ l \in LineRows
    BY FindingsAssumption DEF LineOf, LineRows, PapersOK, Drafts
  <2>3. l \notin lines /\ l \notin removed
    BY <2>2 DEF PapersOK
  <2>4. /\ lines' \subseteq LineRows /\ removed' \subseteq lines' /\ made' \in Nat
        /\ \A m \in lines' : m.nth < made'
    BY <1>3, <2>1, <2>2 DEF PapersOK, LineRows
  <2>5. /\ item'[k] \in ItemRows /\ item'[k].kind = item[k].kind /\ item'[k].job = item[k].job
        /\ item'[k].fate = "THERE" /\ item'[k].line = {l}
    <3>1. item[k] \in ItemRows /\ item'[k] = [item[k] EXCEPT !.line = {l}]
      BY <2>1 DEF PapersOK
    <3>2. {l} \in SUBSET LineRows
      BY <2>2
    <3> HIDE DEF l
    <3> QED BY <1>5, <3>1, <3>2 DEF ItemRows
  <2>6. \A i \in Items : i # k => item'[i] = item[i]
    BY <2>1 DEF PapersOK
  <2>7. item' \in [Items -> ItemRows]
    BY <2>1, <2>5, <2>6 DEF PapersOK
  <2>8. ASSUME NEW i \in Items PROVE ItemOK(i)'
    <3>1. ItemOK(i)
      BY DEF PapersOK
    <3>2. CASE i # k
      <4>1. \A m \in lines \union lines' : m.item = i => m \in lines /\ m \in lines'
        BY <2>1, <2>2, <3>2
      <4> QED BY <1>3, <2>6, <3>1, <3>2, <4>1, ItemKeeps
    <3>3. CASE i = k
      <4>1. From(k)' = From(k) \union {l}
        BY <2>1, <2>2 DEF From
      <4>2. From(k)' \ removed' = (From(k) \ removed) \union {l}
        BY <1>3, <2>3, <4>1
      <4>3. k \notin past' => From(k) \ removed = {}
        BY <1>3, <1>5, <3>1, <3>3 DEF ItemOK
      <4> HIDE DEF l
      <4> QED BY <1>1, <2>5, <3>1, <3>3, <4>1, <4>2, <4>3 DEF ItemOK
    <3> QED BY <3>2, <3>3
  <2>9. \A j \in Jobs : CardOK(j)'
    BY <1>3, CardStays DEF PapersOK
  <2> QED BY <1>3, <2>4, <2>5, <2>6, <2>7, <2>8, <2>9 DEF PapersOK, Later
<1> QED BY <1>4, <1>5

(***************************************************************************)
(* The invariant.                                                          *)
(***************************************************************************)

LEMMA PapersParts ==
    PaperTypeOK /\ PaperInv <=> /\ PapersOK /\ note \in [Hands -> Notes]
                               /\ \A h \in Hands : NoteOK(note[h])
BY DEF PaperTypeOK, PaperInv, PapersOK

LEMMA PapersStep ==
    ASSUME PaperTypeOK, PaperInv, [PaperNext]_<<vars, paperVars>>
    PROVE  PapersOK' /\ Later
<1>0. PapersOK /\ \A h \in Hands : note[h] \in Notes /\ NoteOK(note[h])
  BY PapersParts
<1>1. ASSUME UNCHANGED <<finding, repair, item, lines, made, removed, past>>
      PROVE  PapersOK' /\ Later
  BY <1>0, <1>1, QuietStep
<1>2. ASSUME NEW h \in Hands, PaperStep(h) PROVE PapersOK' /\ Later
  <2>1. CASE ClaimFree(h) \/ SubmitRead(h) \/ SubmitAdvance(h) \/ KillNote(h)
    BY <1>1, <2>1 DEF ClaimFree, SubmitRead, SubmitAdvance, KillNote
  <2> QED BY <1>0, <1>2, <2>1, SaveStep, SubmitStampStep, StampStep, AddPartStep, DropPartStep,
             ReestimateStep, PriceStep DEF PaperStep
<1>3. ASSUME NEW h \in Hands, NewPaper(h) PROVE PapersOK' /\ Later
  <2>1. ASSUME NEW act, NEW j, NEW t, Work(h, act, j, t) \/ OnExtras(h, act, j, t)
        PROVE  UNCHANGED <<finding, repair, item, lines, made, removed, past>>
    BY <2>1 DEF Work, OnExtras
  <2>2. ASSUME NEW k, PriceRead(h, k)
        PROVE  UNCHANGED <<finding, repair, item, lines, made, removed, past>>
    BY <2>2 DEF PriceRead
  <2>3. UNCHANGED <<finding, repair, item, lines, made, removed, past>>
    BY <1>3, <2>1, <2>2 DEF NewPaper
  <2> QED BY <1>1, <2>3
<1>4. ASSUME NEW l \in lines, RemoveLine(l) PROVE PapersOK' /\ Later
  BY <1>0, <1>4, RemoveLineStep
<1>5. ASSUME NEW p \in Requests, NEW j \in Jobs, AwaitApproval(p, j) PROVE PapersOK' /\ Later
  BY <1>1, <1>5 DEF AwaitApproval
<1>6. CASE FloorStep
  BY <1>0, <1>6, FloorPapersStep
<1>7. CASE UNCHANGED <<vars, paperVars>>
  BY <1>1, <1>7 DEF paperVars
<1> QED BY <1>2, <1>3, <1>4, <1>5, <1>6, <1>7 DEF PaperNext

LEMMA NotesStep ==
    ASSUME PaperTypeOK, PaperInv, Later, [PaperNext]_<<vars, paperVars>>
    PROVE  note' \in [Hands -> Notes] /\ \A i \in Hands : (NoteOK(note[i]))'
<1>0. note \in [Hands -> Notes] /\ \A i \in Hands : NoteOK(note[i])
  BY PapersParts
<1>1. ASSUME NEW h \in Hands, NewPaper(h) \/ PaperStep(h)
      PROVE  note' \in [Hands -> Notes] /\ \A i \in Hands : (NoteOK(note[i]))'
  <2>1. PICK n \in Notes : NoteOK(n) /\ note' = [note EXCEPT ![h] = n]
    BY <1>1, NewNote, NextNote
  <2> QED BY <1>0, <2>1, NoteStep
<1>2. ASSUME NEW l \in lines, RemoveLine(l) PROVE note' = note
  BY <1>2 DEF RemoveLine
<1>3. ASSUME NEW p \in Requests, NEW j \in Jobs, AwaitApproval(p, j) PROVE note' = note
  BY <1>3 DEF AwaitApproval
<1>4. FloorStep \/ UNCHANGED <<vars, paperVars>> => note' = note
  BY DEF FloorStep, paperVars
<1> QED BY <1>0, <1>1, <1>2, <1>3, <1>4, NotesStay DEF PaperNext

LEMMA PaperInitOK ==
    ASSUME PaperInit
    PROVE  PaperTypeOK /\ PaperInv
<1>1. /\ finding \in [Jobs -> [text: BOOLEAN, submitted: BOOLEAN]]
      /\ repair \in [Jobs -> [done: BOOLEAN, qc: BOOLEAN]]
      /\ \A j \in Jobs : CardOK(j)
  BY DEF PaperInit, CardOK
<1>2. /\ item \in [Items -> ItemRows] /\ \A k \in Items : ItemOK(k)
      /\ lines \subseteq LineRows /\ removed \subseteq lines /\ made \in Nat
      /\ \A l \in lines : l.nth < made
  BY DEF PaperInit, NoItem, ItemRows, ItemOK, From
<1>3. note \in [Hands -> Notes] /\ \A h \in Hands : NoteOK(note[h])
  BY NoNoteType DEF PaperInit
<1> QED BY <1>1, <1>2, <1>3 DEF PaperTypeOK, PaperInv

LEMMA BothInit == PaperInit => BothInv
BY TypeInit, TimerInit, PaperInitOK DEF BothInv, PaperInit

LEMMA BothStep ==
    ASSUME BothInv, [PaperNext]_<<vars, paperVars>>
    PROVE  BothInv'
<1>1. TypeOK /\ TimerInv /\ PaperTypeOK /\ PaperInv
  BY DEF BothInv
<1>2. TypeOK' /\ TimerInv'
  BY <1>1, FloorTypeStep, FloorTimerStep
<1>3. PapersOK' /\ Later
  BY <1>1, PapersStep
<1>4. note' \in [Hands -> Notes] /\ \A i \in Hands : (NoteOK(note[i]))'
  BY <1>1, <1>3, NotesStep
<1>5. PaperTypeOK' /\ PaperInv'
  BY <1>3, <1>4 DEF PaperTypeOK, PaperInv, PapersOK
<1> QED BY <1>2, <1>5 DEF BothInv

\* Types, timers, and the papers' invariant, whatever the floor and the papers do at once.
THEOREM PapersInvariance == PaperSpec => []BothInv
BY BothInit, BothStep, PTL DEF PaperSpec

\* A part is on one line at a time and no extra is lost, but for a part that two requests
\* had both read before one of them wrote.
THEOREM EachPartQuotedOnce == PaperSpec => []QuotedOnce
<1>1. BothInv => QuotedOnce
  <2> SUFFICES ASSUME \A k \in Items : ItemOK(k) PROVE QuotedOnce
    BY DEF BothInv, PaperInv
  <2> QED BY DEF QuotedOnce, ItemOK, From
<1> QED BY <1>1, PapersInvariance, PTL

(***************************************************************************)
(* The floor's promises, with the papers' requests among its own.          *)
(***************************************************************************)

\* No technician has two timers running.
THEOREM PapersOneOpen == PaperSpec => []OneOpenPerTech
<1>1. BothInv => OneOpenPerTech
  BY DEF BothInv, TimerInv
<1> QED BY <1>1, PapersInvariance, PTL

\* No claim is taken from whoever has it, by findings either.
THEOREM PapersClaims == PaperSpec => ClaimIsExclusive
<1>1. BothInv /\ [PaperNext]_<<vars, paperVars>>
        => [\A j \in Jobs : card[j].claimedBy # NoTech
               => card'[j].claimedBy \in {card[j].claimedBy, NoTech}]_vars
  <2> SUFFICES ASSUME BothInv, [PaperNext]_<<vars, paperVars>>, NEW j \in Jobs,
                      card[j].claimedBy # NoTech
               PROVE  card'[j].claimedBy \in {card[j].claimedBy, NoTech}
    OBVIOUS
  <2>1. TypeOK /\ PaperInv
    BY DEF BothInv
  <2>2. ASSUME [Next]_vars PROVE card'[j].claimedBy \in {card[j].claimedBy, NoTech}
    BY <2>1, <2>2, ClaimStep
  <2>3. ASSUME Gentle PROVE card'[j].claimedBy \in {card[j].claimedBy, NoTech}
    BY <2>3 DEF Gentle
  <2>4. ASSUME NEW p \in Requests, NEW i \in Jobs, AwaitApproval(p, i)
        PROVE  card'[j].claimedBy \in {card[j].claimedBy, NoTech}
    BY <2>1, <2>4, AwaitHolds
  <2> QED BY <2>1, <2>2, <2>3, <2>4, OnTheFloor
<1> QED BY <1>1, PapersInvariance, PTL DEF PaperSpec, ClaimIsExclusive

\* A closer stops every timer that ran on its card when it wrote the card.
THEOREM PapersStopTimers == PaperSpec => StopsEveryTimer
<1>1. BothInv /\ [PaperNext]_<<vars, paperVars>>
        => [\A p \in Requests :
              req[p].pc \in {"closing", "ending"} /\ req'[p].pc = "idle" /\ budget' = budget
                  => \A s \in session' : s.id \in req[p].due => s.end # "OPEN"]_vars
  <2> SUFFICES ASSUME BothInv, [PaperNext]_<<vars, paperVars>>, NEW p \in Requests,
                      req[p].pc \in {"closing", "ending"}, req'[p].pc = "idle", budget' = budget
               PROVE  \A s \in session' : s.id \in req[p].due => s.end # "OPEN"
    OBVIOUS
  <2>1. TypeOK /\ TimerInv /\ PaperInv
    BY DEF BothInv
  <2>2. ~Gentle
    BY DEF Gentle
  <2>3. ASSUME NEW q \in Requests, NEW i \in Jobs, AwaitApproval(q, i) PROVE FALSE
    <3>1. req[q].pc = "idle" /\ q # p
      BY <2>3 DEF AwaitApproval, Free
    <3>2. req'[p] = req[p]
      BY <2>1, <2>3, <3>1 DEF AwaitApproval, ThenClose, TypeOK
    <3> QED BY <3>2
  <2>4. [Next]_vars
    BY <2>1, <2>2, <2>3, OnTheFloor
  <2>5. CloseRead(p) \/ CloseWrite(p)
    BY <2>1, <2>4, CloserEnds
  <2> QED BY <2>1, <2>5, DueAreStopped
<1> QED BY <1>1, PapersInvariance, PTL DEF PaperSpec, StopsEveryTimer

(***************************************************************************)
(* What has been handed over.                                              *)
(***************************************************************************)

\* The same parts are pending when none comes, goes or changes.
LEMMA PartsStay ==
    ASSUME NEW j, NEW kind,
           \A k \in Items : (item'[k].kind = kind /\ item'[k].fate = "THERE" /\ item'[k].job = j)
                        <=> (item[k].kind = kind /\ item[k].fate = "THERE" /\ item[k].job = j)
    PROVE  PartsOf(j, kind)' = PartsOf(j, kind)
BY DEF PartsOf, Pending

\* Findings are written by two actions only; a text is not changed, and a submission
\* not taken back, once they are in the way of it.
LEMMA FindingStands ==
    ASSUME PapersOK, NEW j \in Jobs, NEW h \in Hands, NoteOK(note[h]), Save(h) \/ SubmitStamp(h)
    PROVE  /\ finding[j].submitted => finding'[j].submitted
           /\ repair[j].done /\ j \notin past' => finding'[j].text = finding[j].text
<1>1. finding \in [Jobs -> [text: BOOLEAN, submitted: BOOLEAN]]
  BY DEF PapersOK
<1>2. note[h].job \in Jobs
  BY DEF Save, SubmitStamp, Acting, NoteOK
<1>3. CASE Save(h)
  <2>1. repair[note[h].job].done => note[h].job \in past'
    BY <1>2, <1>3 DEF Save, Past, Overtaken, Refused, Acting
  <2>2. finding' = [finding EXCEPT ![note[h].job].text = note[h].act = "save"]
    BY <1>3 DEF Save
  <2> QED BY <1>1, <1>2, <2>1, <2>2
<1>4. CASE SubmitStamp(h)
  BY <1>1, <1>2, <1>4 DEF SubmitStamp
<1> QED BY <1>3, <1>4

\* The kinds of part that a card has handed over.
Closed(j, kind) ==
    \/ kind = "REQUIRED" /\ finding[j].submitted
    \/ kind = "USED" /\ repair[j].done

LEMMA AddedLate ==
    ASSUME PapersOK, NEW j \in Jobs, NEW kind, Closed(j, kind), j \notin past',
           NEW h \in Hands, NoteOK(note[h]), AddPart(h)
    PROVE  PartsOf(j, kind)' = PartsOf(j, kind)
<1>1. PICK k \in Items :
        /\ item[k].kind = "NONE"
        /\ item' = [item EXCEPT ![k] = [job |-> note[h].job, kind |-> KindOf(note[h].act),
                                        fate |-> "THERE", line |-> {}]]
  BY DEF AddPart, NextItem
<1>2. note[h].job = j => KindOf(note[h].act) # kind
  <2> SUFFICES ASSUME note[h].job = j, KindOf(note[h].act) = kind PROVE FALSE
    OBVIOUS
  <2>1. \/ kind = "REQUIRED" /\ note[h].act = "need"
        \/ kind = "USED" /\ note[h].act = "use"
    BY DEF Closed, AddPart, Acting, KindOf
  <2>2. Refused(note[h].act, j)
    BY <2>1 DEF Closed, Refused
  <2> QED BY <2>2 DEF AddPart, Past, Overtaken
<1>3. kind # "NONE"
  BY DEF Closed
<1>4. item'[k].kind = KindOf(note[h].act) /\ item'[k].job = note[h].job
  BY <1>1 DEF PapersOK
<1>5. \A i \in Items : i # k => item'[i] = item[i]
  BY <1>1 DEF PapersOK
<1> QED BY <1>1, <1>2, <1>3, <1>4, <1>5, PartsStay

LEMMA DroppedLate ==
    ASSUME PapersOK, NEW j \in Jobs, NEW kind, Closed(j, kind), j \notin past',
           NEW h \in Hands, NoteOK(note[h]), DropPart(h)
    PROVE  PartsOf(j, kind)' = PartsOf(j, kind)
<1>1. \A k \in note[h].items : ~(item[k].kind = kind /\ item[k].job = j)
  <2> SUFFICES ASSUME NEW k \in note[h].items, item[k].kind = kind, item[k].job = j PROVE FALSE
    OBVIOUS
  <2>1. /\ note[h].act = "unneed" => item[k].job = note[h].job /\ item[k].kind = "REQUIRED"
        /\ note[h].act = "unuse" => item[k].job = note[h].job /\ item[k].kind = "USED"
        /\ note[h].act = "unextra" => item[k].kind = "EXTRA"
        /\ note[h].act \in {"unneed", "unuse", "unextra"}
    BY DEF NoteOK, DropPart, Acting
  <2>2. note[h].job = j /\ Refused(note[h].act, j)
    BY <2>1 DEF Closed, Refused
  <2> QED BY <2>2 DEF DropPart, Past, Overtaken
<1>2. ASSUME NEW k \in Items
      PROVE  \/ item'[k] = item[k]
             \/ /\ k \in note[h].items
                /\ item'[k] = [item[k] EXCEPT !.fate = "TAKEN_BACK", !.line = {}]
  BY DEF DropPart
<1>3. ASSUME NEW k \in Items
      PROVE  item'[k] = item[k] \/ (k \in note[h].items /\ item'[k].kind = item[k].kind
                                                         /\ item'[k].job = item[k].job)
  <2>1. item[k] \in ItemRows
    BY DEF PapersOK
  <2> QED BY <1>2, <2>1 DEF ItemRows
<1> QED BY <1>1, <1>3, PartsStay

LEMMA QuotedLate ==
    ASSUME PapersOK, NEW j \in Jobs, NEW kind, Closed(j, kind),
           NEW h \in Hands, NoteOK(note[h]), Reestimate(h) \/ Price(h)
    PROVE  PartsOf(j, kind)' = PartsOf(j, kind)
<1>1. item \in [Items -> ItemRows] /\ kind # "EXTRA"
  BY DEF PapersOK, Closed
<1>2. CASE Reestimate(h)
  <2>1. \A k \in note[h].items : item[k].kind = "EXTRA"
    BY <1>2 DEF Reestimate, NoteOK
  <2>2. ASSUME NEW k \in Items
        PROVE  item'[k] = item[k] \/ (k \in note[h].items
                                       /\ item'[k] = [item[k] EXCEPT !.fate = "QUOTED"])
    BY <1>2 DEF Reestimate
  <2>3. \A k \in Items : item'[k] = item[k] \/ (k \in note[h].items /\ item'[k].kind = item[k].kind)
    BY <1>1, <2>2 DEF ItemRows
  <2> QED BY <1>1, <2>1, <2>3, PartsStay
<1>3. CASE Price(h)
  <2>1. PICK k, l : item' = item \/ item' = [item EXCEPT ![k].line = l]
    BY <1>3 DEF Price
  <2>2. ASSUME NEW i \in Items
        PROVE  /\ item'[i].kind = item[i].kind /\ item'[i].fate = item[i].fate
               /\ item'[i].job = item[i].job
    <3>1. item[i] \in ItemRows
      BY <1>1
    <3>2. item'[i] = item[i] \/ item'[i] = [item[i] EXCEPT !.line = l]
      BY <1>1, <2>1
    <3> QED BY <3>1, <3>2 DEF ItemRows
  <2> QED BY <2>2, PartsStay
<1> QED BY <1>2, <1>3

\* The actions that touch neither findings nor the list of parts.
LEMMA NeitherTouched ==
    ASSUME NEW h \in Hands,
           NewPaper(h) \/ ClaimFree(h) \/ SubmitRead(h) \/ SubmitAdvance(h) \/ KillNote(h) \/ Stamp(h)
    PROVE  UNCHANGED <<finding, item>>
<1>1. ASSUME NEW act, NEW j, NEW t, Work(h, act, j, t) \/ OnExtras(h, act, j, t)
      PROVE  UNCHANGED <<finding, item>>
  BY <1>1 DEF Work, OnExtras
<1>2. ASSUME NEW k, PriceRead(h, k) PROVE UNCHANGED <<finding, item>>
  BY <1>2 DEF PriceRead
<1>3. NewPaper(h) => UNCHANGED <<finding, item>>
  BY <1>1, <1>2 DEF NewPaper
<1>4. CASE ClaimFree(h) \/ SubmitRead(h) \/ SubmitAdvance(h) \/ KillNote(h) \/ Stamp(h)
  BY <1>4 DEF ClaimFree, SubmitRead, SubmitAdvance, KillNote, Stamp
<1> QED BY <1>3, <1>4

LEMMA StandsStep ==
    ASSUME PaperTypeOK, PaperInv, [PaperNext]_<<vars, paperVars>>, NEW j \in Jobs
    PROVE  /\ finding[j].submitted => finding'[j].submitted
           /\ repair[j].done /\ j \notin past' => finding'[j].text = finding[j].text
           /\ \A kind \in Kinds : Closed(j, kind) /\ j \notin past'
                  => PartsOf(j, kind)' = PartsOf(j, kind)
<1> DEFINE Goal == /\ finding[j].submitted => finding'[j].submitted
                   /\ repair[j].done /\ j \notin past' => finding'[j].text = finding[j].text
                   /\ \A kind \in Kinds : Closed(j, kind) /\ j \notin past'
                          => PartsOf(j, kind)' = PartsOf(j, kind)
<1>0. PapersOK /\ \A h \in Hands : NoteOK(note[h])
  BY PapersParts
<1>1. ASSUME UNCHANGED <<finding, item>> PROVE Goal
  BY <1>1, PartsStay
<1>2. ASSUME NEW h \in Hands, Save(h) \/ SubmitStamp(h) PROVE Goal
  <2>1. item' = item
    BY <1>2 DEF Save, SubmitStamp
  <2> QED BY <1>0, <1>2, <2>1, FindingStands, PartsStay
<1>3. ASSUME NEW h \in Hands, AddPart(h) \/ DropPart(h) \/ Reestimate(h) \/ Price(h) PROVE Goal
  <2>1. finding' = finding
    BY <1>3 DEF AddPart, DropPart, Reestimate, Price
  <2> QED BY <1>0, <1>3, <2>1, AddedLate, DroppedLate, QuotedLate
<1>4. ASSUME NEW l \in lines, RemoveLine(l) PROVE Goal
  <2>1. /\ finding' = finding
        /\ item' = [k \in Items |-> [item[k] EXCEPT !.line = @ \ {l}]]
    BY <1>4 DEF RemoveLine
  <2>2. \A k \in Items : /\ item'[k].kind = item[k].kind /\ item'[k].fate = item[k].fate
                         /\ item'[k].job = item[k].job
    BY <1>0, <2>1 DEF PapersOK, ItemRows
  <2> QED BY <2>1, <2>2, PartsStay
<1>5. ASSUME NEW p \in Requests, NEW i \in Jobs, AwaitApproval(p, i) PROVE Goal
  BY <1>1, <1>5 DEF AwaitApproval
<1>6. CASE FloorStep \/ UNCHANGED <<vars, paperVars>>
  BY <1>1, <1>6 DEF FloorStep, paperVars
<1>7. ASSUME NEW h \in Hands, NewPaper(h) \/ PaperStep(h) PROVE Goal
  BY <1>1, <1>2, <1>3, <1>7, NeitherTouched DEF PaperStep
<1> QED BY <1>4, <1>5, <1>6, <1>7 DEF PaperNext

\* Handing over moves a card on from its first stages only.
LEMMA AdvanceStep ==
    ASSUME PaperTypeOK, PaperInv, [PaperNext]_<<vars, paperVars>>, NEW h \in Hands,
           note[h].pc = "advance", note'[h].pc = "idle", card' # card
    PROVE  card[note[h].job].status \in {"ARRIVED", "INSPECTION"}
<1>0. note \in [Hands -> Notes]
  BY DEF PaperTypeOK
<1>1. ASSUME NEW i \in Hands, i # h, NewPaper(i) \/ PaperStep(i) PROVE FALSE
  <2>1. PICK n \in Notes : note' = [note EXCEPT ![i] = n]
    BY <1>1, NewNote, NextNote
  <2> QED BY <1>0, <1>1, <2>1
<1>2. ASSUME NewPaper(h) PROVE FALSE
  <2>1. ASSUME NEW act, NEW j, NEW t, Work(h, act, j, t) \/ OnExtras(h, act, j, t) PROVE FALSE
    BY <2>1 DEF Work, OnExtras
  <2>2. ASSUME NEW k, PriceRead(h, k) PROVE FALSE
    BY <2>2 DEF PriceRead
  <2> QED BY <1>2, <2>1, <2>2 DEF NewPaper
<1>3. ASSUME PaperStep(h) PROVE SubmitAdvance(h)
  <2>1. ~KillNote(h)
    BY DEF KillNote, vars
  <2> QED BY <1>3, <2>1 DEF PaperStep, ClaimFree, Save, AddPart, DropPart, SubmitRead, SubmitStamp,
      Stamp, Reestimate, Price, Acting
<1>4. ASSUME NEW l \in lines, RemoveLine(l) PROVE FALSE
  BY <1>4 DEF RemoveLine
<1>5. ASSUME NEW p \in Requests, NEW j \in Jobs, AwaitApproval(p, j) PROVE FALSE
  BY <1>5 DEF AwaitApproval
<1>6. ASSUME FloorStep \/ UNCHANGED <<vars, paperVars>> PROVE FALSE
  BY <1>6 DEF FloorStep, paperVars
<1>7. SubmitAdvance(h)
  BY <1>1, <1>2, <1>3, <1>4, <1>5, <1>6 DEF PaperNext
<1> QED BY <1>7 DEF SubmitAdvance

\* What is handed over stands, but for requests let in before; no mark is taken back;
\* and a submission moves a card on from its first stages only.
THEOREM HandedOverStands == PaperSpec => HandoverStands
<1>1. BothInv /\ BothInv' /\ [PaperNext]_<<vars, paperVars>>
        => [/\ \A j \in Jobs :
                 /\ finding[j].submitted => finding'[j].submitted
                 /\ repair[j].done => repair'[j].done
                 /\ repair'[j].qc => repair'[j].done
                 /\ j \notin past' =>
                       /\ finding[j].submitted => /\ finding'[j].text
                                                  /\ PartsOf(j, "REQUIRED")' = PartsOf(j, "REQUIRED")
                       /\ repair[j].done => /\ finding'[j].text = finding[j].text
                                            /\ PartsOf(j, "USED")' = PartsOf(j, "USED")
            /\ \A h \in Hands :
                 note[h].pc = "advance" /\ note'[h].pc = "idle" /\ card' # card
                     => card[note[h].job].status \in {"ARRIVED", "INSPECTION"}
           ]_<<vars, paperVars>>
  <2> SUFFICES ASSUME BothInv, BothInv', [PaperNext]_<<vars, paperVars>>
               PROVE  /\ \A j \in Jobs :
                           /\ finding[j].submitted => finding'[j].submitted
                           /\ repair[j].done => repair'[j].done
                           /\ repair'[j].qc => repair'[j].done
                           /\ j \notin past' =>
                                 /\ finding[j].submitted => /\ finding'[j].text
                                                            /\ PartsOf(j, "REQUIRED")' = PartsOf(j, "REQUIRED")
                                 /\ repair[j].done => /\ finding'[j].text = finding[j].text
                                                      /\ PartsOf(j, "USED")' = PartsOf(j, "USED")
                      /\ \A h \in Hands :
                           note[h].pc = "advance" /\ note'[h].pc = "idle" /\ card' # card
                               => card[note[h].job].status \in {"ARRIVED", "INSPECTION"}
    OBVIOUS
  <2>1. PaperTypeOK /\ PaperInv /\ Later
    BY PapersStep DEF BothInv
  <2>2. ASSUME NEW j \in Jobs
        PROVE  /\ finding[j].submitted => finding'[j].submitted
               /\ repair[j].done => repair'[j].done
               /\ repair'[j].qc => repair'[j].done
               /\ j \notin past' =>
                     /\ finding[j].submitted => /\ finding'[j].text
                                                /\ PartsOf(j, "REQUIRED")' = PartsOf(j, "REQUIRED")
                     /\ repair[j].done => /\ finding'[j].text = finding[j].text
                                          /\ PartsOf(j, "USED")' = PartsOf(j, "USED")
    <3>1. CardOK(j)'
      BY DEF BothInv, PaperInv
    <3>2. /\ finding[j].submitted => finding'[j].submitted
          /\ repair[j].done /\ j \notin past' => finding'[j].text = finding[j].text
          /\ \A kind \in Kinds : Closed(j, kind) /\ j \notin past'
                 => PartsOf(j, kind)' = PartsOf(j, kind)
      BY <2>1, StandsStep
    <3>3. "REQUIRED" \in Kinds /\ "USED" \in Kinds
      BY DEF Kinds
    <3>4. repair[j].done => repair'[j].done
      BY <2>1 DEF Later
    <3> QED BY <3>1, <3>2, <3>3, <3>4 DEF CardOK, Closed
  <2>3. ASSUME NEW h \in Hands, note[h].pc = "advance", note'[h].pc = "idle", card' # card
        PROVE  card[note[h].job].status \in {"ARRIVED", "INSPECTION"}
    BY <2>1, <2>3, AdvanceStep
  <2> QED BY <2>2, <2>3
<1> QED BY <1>1, PapersInvariance, PTL DEF PaperSpec, HandoverStands
=============================================================================
