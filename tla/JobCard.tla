------------------------------ MODULE JobCard ------------------------------
(***************************************************************************)
(* The states of a job card and the moves between them that the office may *)
(* make (src/lib/jobcard-status.ts), for the modules whose actions read    *)
(* and write a card: WorkFloor and CardGates.                              *)
(***************************************************************************)
EXTENDS Naturals, Sequences

Timeline == <<"ARRIVED", "INSPECTION", "ESTIMATE", "APPROVED", "REPAIR",
              "TECH_COMPLETE", "INVOICED", "DELIVERED">>
Linear   == {"ARRIVED", "INSPECTION", "ESTIMATE", "APPROVED", "REPAIR",
             "TECH_COMPLETE", "INVOICED", "DELIVERED"}
Statuses == Linear \union {"EXTRA_WORK_AWAITING_APPROVAL", "ON_HOLD", "CANCELLED"}
Terminal == {"DELIVERED", "CANCELLED"}

-----------------------------------------------------------------------------
(* What a request writes to a card, and with which reason it then closes   *)
(* the card's timers ("NONE": it leaves them alone).                       *)

Put(status, heldFrom, reason) ==
    [status |-> status, heldFrom |-> heldFrom, reason |-> reason]
NoPut == Put("NONE", "NONE", "NONE")

\* nextStatus, skippableTargets: one step along the timeline, or past some.
NextStatus(s) == {Timeline[i + 1] : i \in {k \in 1..7 : Timeline[k] = s}}
SkippableTargets(s) ==
    {Timeline[i] : i \in {k \in 1..8 : \E n \in 1..8 : n < k /\ Timeline[n] = s}}
        \ {"TECH_COMPLETE", "INVOICED", "DELIVERED"}

\* transition: what each JobAction makes of a card, where it does not throw.
Transitions(c) ==
    {Put(s, "NONE", "NONE") : s \in NextStatus(c.status)}                    \* ADVANCE
        \union {Put("ON_HOLD", h, "JOB_CLOSED") : h \in {c.status} \intersect Linear}
        \union {Put(IF c.heldFrom = "NONE" THEN "ARRIVED" ELSE c.heldFrom, "NONE", "NONE") :
                    s \in {c.status} \intersect {"ON_HOLD"}}                 \* RESUME
        \union {Put("ESTIMATE", "NONE", "NONE") :
                    s \in {c.status} \intersect {"APPROVED", "REPAIR"}}      \* REWORK
        \union {Put("CANCELLED", "NONE", "JOB_CLOSED") : s \in {c.status} \ Terminal}

\* skipToStageAction and recordDeliveryAction; cancelJobAction writes what
\* CANCEL does.
OfficePuts(c) ==
    Transitions(c)
        \union {Put(s, "NONE", "NONE") : s \in SkippableTargets(c.status)}
        \union {Put("DELIVERED", "NONE", "NONE") : s \in {c.status} \intersect {"INVOICED"}}
=============================================================================
