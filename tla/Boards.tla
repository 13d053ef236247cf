------------------------------- MODULE Boards -------------------------------
(***************************************************************************)
(* What the pages make of a job card (CardGates): the stage the stepper    *)
(* marks, the badge, and the buttons each role is offered (the job pages   *)
(* of the advisor and the technician, the estimate's pages, the cashier's  *)
(* lists, the customer's link).  A page is drawn from one read; its button *)
(* starts the request, whose own checks CardGates has.                     *)
(*                                                                         *)
(* That a car is claimed, its parts listed and its work photographed comes *)
(* before a button of the technician's (WorkFloor, Findings); nothing but  *)
(* the technician is waited for there.                                     *)
(***************************************************************************)
EXTENDS CardGates

\* Where a card is, or will be again once its hold is over.
Place(c) == IF c.status = "ON_HOLD" THEN c.heldFrom ELSE c.status

AtWork == {"APPROVED", "REPAIR", "TECH_COMPLETE"}
Extra  == "EXTRA_WORK_AWAITING_APPROVAL"

\* A card to start from has come to where it is by its estimates q, made in order: work
\* is approved, extra work is quoted, and what is being quoted is not approved yet.
Fits(c, q) ==
    LET issued == {e \in Ests : q[e].status # "NONE"}
        newest == {q[e].status : e \in {x \in issued : \A f \in issued : f <= x}} IN
    /\ c.status = "ON_HOLD" => c.heldFrom \notin {"NONE", "ON_HOLD"}
    /\ \A e \in issued, f \in Ests : f < e => f \in issued
    /\ Place(c) \in AtWork \union {Extra} => \E e \in issued : q[e].status = "APPROVED"
    /\ Place(c) = Extra => newest \subseteq {"DRAFT", "SENT"}
    /\ Place(c) = "ESTIMATE" => "APPROVED" \notin newest

ASSUME BoardsAssumption ==
    IsFiniteSet(Ests) /\ \A s \in Scenarios : Fits(s.card, s.est)

VARIABLES
    pages,     \* whether requests start from freshly drawn pages only
    billed,    \* estimates that have an invoice
    rifts      \* history: how the card and its estimates came apart

boardVars == <<vars, pages, billed, rifts>>

-----------------------------------------------------------------------------
(* The stage and the badge, named as the card's statuses; "APPROVAL" is    *)
(* the customer's turn.                                                    *)

\* estimates[0] and its status; the approved ones.
NewestIs(status) == \E e \in Newest : est[e].status = status
ApprovedEsts     == {e \in Issued : est[e].status = "APPROVED"}

\* workflowStage, of a card that is not on hold.
Stage ==
    CASE card.status = "ESTIMATE" /\ NewestIs("APPROVED") -> "REPAIR"
      [] card.status = "ESTIMATE" /\ NewestIs("SENT") -> "APPROVAL"
      [] card.status = "EXTRA_WORK_AWAITING_APPROVAL" -> "APPROVAL"
      [] card.status = "APPROVED" -> "REPAIR"
      [] OTHER -> card.status

\* friendlyStatus; extra work is priced or answered.
Label ==
    CASE card.status = "ESTIMATE" /\ NewestIs("SENT") -> "APPROVAL"
      [] card.status = "EXTRA_WORK_AWAITING_APPROVAL" -> "APPROVAL"
      [] card.status = "APPROVED" -> "REPAIR"
      [] OTHER -> card.status

-----------------------------------------------------------------------------
(* What the pages offer.                                                   *)

\* The technician's parts and Send for Estimate.
OffersInspection == card.status \in {"ARRIVED", "INSPECTION"}

\* The advisor's job page: a fresh estimate, while the newest is none or REJECTED.
OffersCreate == card.status = "ESTIMATE" /\ (Issued = {} \/ NewestIs("REJECTED"))

\* A DRAFT's lines are edited on its own page, a listed estimate's page is linked.
OffersPricing == NewestIs("DRAFT") \/ OffersCreate

\* canDecline: a line is skipped until its invoice is cut.
OffersToggle(e) == e \notin billed

\* The preview: a DRAFT with lines is sent, a SENT one once more.
OffersSend(e) == est[e].status = "SENT" \/ (est[e].status = "DRAFT" /\ est[e].lines # {})

\* The staff answer for the customer ...
OffersSet(e, to) == est[e].status = "SENT" /\ to # "SENT"

\* ... who is asked by the link.
OffersAnswer == NewestIs("SENT")

\* The technician's banner, once there is an approved estimate ...
OffersComplete == ApprovedEsts # {}

\* ... and what it offers is accepted.
CanComplete == OffersComplete /\ \E c \in TechCards(card) : c.status = "TECH_COMPLETE"

\* Bug: the cashier is led to the newest estimate only.
ListedNewest == Newest

\* The cashier's lists: the newest of a completed card, and the newest approved one
\* of a card without an invoice.
Listed == Newest \union {e \in ApprovedEsts : billed = {} /\ \A f \in ApprovedEsts : f <= e}

\* The newest estimate is still to be billed.
Due == {e \in Newest : est[e].status = "APPROVED" /\ e \notin billed}

\* Generate Invoice, on the estimate's page.
OffersBill(e) == est[e].status = "APPROVED" /\ e \notin billed /\ card.status = "TECH_COMPLETE"

\* What the technician's pages post: Send for Estimate, Mark Complete and Send for
\* Approval.
OffersFloor(put) ==
    \/ put.status = "ESTIMATE" /\ OffersInspection
    \/ put.status = "TECH_COMPLETE" /\ OffersComplete
    \/ put.status = "EXTRA_WORK_AWAITING_APPROVAL"

\* What the advisor's job page posts: REWORK takes the place of HOLD.
OffersOffice(put) ==
    /\ card.status # "DELIVERED"
    /\ put.status = "ON_HOLD" => card.status \notin {"APPROVED", "REPAIR"}

\* Whose turn it is can be taken.
Can(turn) ==
    CASE turn \in {"ARRIVED", "INSPECTION"} -> OffersInspection
      [] turn = "ESTIMATE" -> OffersPricing
      [] turn = "APPROVAL" -> OffersAnswer \/ (card.status # "ESTIMATE" /\ OffersPricing)
      [] turn = "REPAIR" -> CanComplete
      [] turn = "TECH_COMPLETE" -> \E e \in Listed : OffersBill(e)
      [] OTHER -> TRUE

-----------------------------------------------------------------------------
(* A request starts at a button.                                           *)

Spent(k) == budget'[k] # budget[k]

Offered(q) ==
    CASE q.pc = "create" -> OffersCreate
      [] q.pc = "toggle" -> \A e \in q.est : OffersToggle(e)
      [] q.pc = "send"   -> \A e \in q.est : OffersSend(e)
      [] q.pc = "set"    -> \A e \in q.est : OffersSet(e, q.to)
      [] q.pc = "bill"   -> \A e \in q.est : e \in Listed /\ OffersBill(e)
      [] q.pc = "write"  -> IF Spent("tech") THEN OffersFloor(q.put) ELSE OffersOffice(q.put)
      [] OTHER -> TRUE

Answers == {"APPROVED", "REJECTED"}

\* Killed between the answer and the card; an answer overwritten; a card written from
\* what it no longer was; put past the approval it never had; put to work again, with an invoice
\* and nothing approved that is newer; or sent back, by the office or by an older
\* estimate's refusal, with its newest approved.
Brings(tag, r) ==
    LET pc == req[r].pc IN
    CASE tag = "killed"  -> Spent("kill") /\ pc \in {"approve", "refuse", "refused"}
      [] tag = "crossed" -> \E e \in Ests : /\ est[e].status \in Answers
                                              /\ est'[e].status # est[e].status
      [] tag = "stale"   -> /\ pc \in {"pause", "resume", "hold", "refused", "write"}
                            /\ ~Spent("kill") /\ req[r].card # card
      [] tag = "ahead"   -> /\ ~Spent("kill") /\ pc = "write" /\ ApprovedEsts = {}
                            /\ card'.status \in AtWork
      [] tag = "again"   -> /\ billed # {} /\ Due' = {} /\ card'.status \in AtWork
                            /\ card' # card \/ Issued' # Issued
      [] OTHER           -> /\ ~Spent("kill") /\ pc \in {"answer", "refused", "write"}
                            /\ NewestIs("APPROVED") /\ card'.status = "ESTIMATE"
Tags == {"killed", "crossed", "stale", "ahead", "again", "back"}

Step(r) ==
    /\ EstimateStep(r) \/ PartStep(r) \/ CardStep(r)
    /\ pages /\ Free(r) => Offered(req'[r])
    /\ billed' = IF req[r].pc = "bill" /\ ~Spent("kill") THEN billed \union req[r].est ELSE billed
    /\ rifts' = IF pages THEN rifts \union {tag \in Tags : Brings(tag, r)} ELSE rifts
    /\ UNCHANGED pages

BoardInit == Init /\ pages \in BOOLEAN /\ billed = {} /\ rifts = {}
BoardNext == \E r \in Requests : Step(r)
BoardSpec == BoardInit /\ [][BoardNext]_boardVars

-----------------------------------------------------------------------------
(* Properties.                                                             *)

\* Whoever's turn the stepper and the badge say it is has a button for it that is
\* accepted: with nothing under way and everyone on fresh pages, an active card off
\* hold is never left where no page can take it on (advisor/jobs/[id]/page.tsx:
\* "your turn to price"; workflow-stage.ts: "so the stepper doesn't lie").  Unless it
\* and its estimates were torn apart in one of the ways of Brings; a card sent back
\* with its estimate approved has lost the badge only.
TurnOffered ==
    pages /\ (\A r \in Requests : Free(r)) /\ card.status \notin Terminal \union {"ON_HOLD"} =>
        /\ rifts \subseteq {"back"} => Can(Stage)
        /\ rifts = {} => Can(Label)
=============================================================================
