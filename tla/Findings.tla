------------------------------ MODULE Findings ------------------------------
(***************************************************************************)
(* What a technician writes down about a car: the findings and the parts   *)
(* required, which are submitted to the cashier; the parts used, until the *)
(* work is marked complete and quality control signs it off; the extras    *)
(* found on the way, which become the lines of a new estimate              *)
(* (src/app/actions/techfindings.ts, jobs.ts, src/lib/jobfindings.ts), and *)
(* the pricing of the parts by the office (billing.ts), composed with the  *)
(* WorkFloor, whose cards and claims they read and write.                  *)
(*                                                                         *)
(* A request reads the card, claims it if nobody has, and then writes what *)
(* it was sent for, one database call per action; it may be killed between *)
(* two calls.  Texts are only empty or not; notes, quantities, prices and  *)
(* the checklist of quality control are left out.  The estimates' statuses *)
(* are in CardGates: here they are DRAFT.                                  *)
(***************************************************************************)
EXTENDS WorkFloor

CONSTANTS
    MaxItems,     \* JobPart rows that may be created
    MaxDrafts,    \* estimates; 0 is the one the parts of a card are priced on
    Hands,        \* requests of this component under way at once
    Loads         \* for a scenario of WorkFloor: how many requests of each sort

Items  == 1..MaxItems
Drafts == 0..MaxDrafts
Kinds  == {"REQUIRED", "USED", "EXTRA"}

PaperSorts == {"save", "clear", "need", "unneed", "submit", "use", "unuse", "complete", "qc",
               "extra", "unextra", "reestimate", "price", "unprice", "await", "kill"}

ASSUME FindingsAssumption ==
    /\ MaxItems \in Nat /\ MaxDrafts \in Nat
    /\ Loads \in [Scenarios -> SUBSET [PaperSorts -> Nat]]

VARIABLES
    finding,   \* finding[j]: JobFinding, whether it has a text and is submitted
    repair,    \* repair[j]: whether workCompletedAt and qcAt are set
    waiting,   \* cards ON_HOLD whose holdReason is AWAITING_APPROVAL
    item,      \* item[k]: JobPart, with what became of it
    lines,     \* EstimateLine rows ever made from a JobPart: estimate, part, when
    made,      \* how often such rows were made
    removed,   \* those of them that are deleted
    note,      \* note[h]: a request's locals
    left,      \* what is left of the load
    past       \* history: cards and parts on which a write came too late

paperVars == <<finding, repair, waiting, item, lines, made, removed, note, left, past>>

NoItem  == [job |-> NoJob, kind |-> "NONE", fate |-> "NONE", line |-> {}]
NoNote  == [pc |-> "idle", act |-> "NONE", job |-> NoJob, tech |-> NoTech, items |-> {},
            refused |-> FALSE, early |-> FALSE]

Use(k)        == left[k] > 0 /\ left' = [left EXCEPT ![k] = @ - 1]
Rest(h)       == note' = [note EXCEPT ![h] = NoNote]
GoOn(h, pc)   == note' = [note EXCEPT ![h].pc = pc]
Past(what)    == past' = past \union what

Pending(kind) == {k \in Items : item[k].kind = kind /\ item[k].fate = "THERE"}
NextItem      == {k \in Items : item[k].kind = "NONE"
                                  /\ \A i \in Items : item[i].kind = "NONE" => k <= i}
NextDraft     == {e \in Drafts \ {0} : {l.est : l \in lines} \ {0} = 1..(e - 1)}

-----------------------------------------------------------------------------
(* The technicians' requests.                                              *)

\* assertNotSubmitted, assertRepairOpen, and the returns of complete and QC.
Refused(act, j) ==
    \/ act \in {"save", "clear", "need", "unneed"} /\ finding[j].submitted
    \/ act \in {"save", "clear", "use", "unuse", "complete"} /\ repair[j].done
    \/ act = "qc" /\ (~repair[j].done \/ repair[j].qc)

\* Which parts a request may be about: those its page lists.
Listed(act, j) ==
    CASE act = "unneed"  -> {{k} : k \in {i \in Pending("REQUIRED") : item[i].job = j}}
      [] act = "unuse"   -> {{k} : k \in {i \in Pending("USED") : item[i].job = j}}
      [] act = "unextra" -> {{k} : k \in {i \in Pending("EXTRA") : item[i].job = j}}
      [] OTHER           -> {{}}

Note(h, pc, act, j, t, items) ==
    note' = [note EXCEPT ![h] =
                [pc |-> pc, act |-> act, job |-> j, tech |-> t, items |-> items,
                 refused |-> Refused(act, j), early |-> card[j].status \in {"ARRIVED", "INSPECTION"}]]

\* workableJob: the read.  A request that will be refused still claims a free card.
Work(h, act, j, t) ==
    /\ Use(act)
    /\ note[h].pc = "idle"
    /\ j \notin waiting /\ CanLogWork(card[j], t)
    /\ Refused(act, j) => card[j].claimedBy = NoTech
    /\ \E items \in Listed(act, j) :
          Note(h, IF card[j].claimedBy = NoTech THEN "claim" ELSE "act", act, j, t, items)
    /\ UNCHANGED <<vars, finding, repair, waiting, item, lines, made, removed, past>>

\* Its conditional claim, whose count nobody looks at.
ClaimFree(h) ==
    LET j == note[h].job IN
    /\ note[h].pc = "claim"
    /\ card' = IF card[j].claimedBy = NoTech
               THEN [card EXCEPT ![j].claimedBy = note[h].tech] ELSE card
    /\ IF note[h].refused THEN Rest(h) ELSE GoOn(h, "act")
    /\ UNCHANGED <<session, started, old, req, cron, budget>>
    /\ UNCHANGED <<finding, repair, waiting, item, lines, made, removed, left, past>>

\* addExtraJobPartAction, removeExtraJobPartAction and sendForReestimateAction have a
\* read of their own: on the card, and while its work is under way.
OnExtras(h, act, j, t) ==
    /\ Use(act)
    /\ note[h].pc = "idle"
    /\ t = card[j].claimedBy \/ t \in card[j].helpers
    /\ card[j].status \in {"APPROVED", "REPAIR"}
    /\ \E items \in IF act = "reestimate"
                    THEN {{k \in Pending("EXTRA") : item[k].job = j}} \ {{}}
                    ELSE Listed(act, j) :
          Note(h, IF act = "reestimate" THEN "roll" ELSE "act", act, j, t, items)
    /\ UNCHANGED <<vars, finding, repair, waiting, item, lines, made, removed, past>>

Acting(h, acts) == note[h].pc = "act" /\ note[h].act \in acts

\* The card, if it has been handed over since the request was let in.
Overtaken(h) == {j \in {note[h].job} : Refused(note[h].act, j)}

\* saveFindingsAction: the upsert.
Save(h) ==
    /\ Acting(h, {"save", "clear"})
    /\ finding' = [finding EXCEPT ![note[h].job].text = note[h].act = "save"]
    /\ Past(Overtaken(h)) /\ Rest(h)
    /\ UNCHANGED <<vars, repair, waiting, item, lines, made, removed, left>>

KindOf(act) == CASE act \in {"need", "unneed"}   -> "REQUIRED"
                 [] act \in {"use", "unuse"}     -> "USED"
                 [] act \in {"extra", "unextra"} -> "EXTRA"

\* addRequiredPartAction, addUsedPartAction, addExtraJobPartAction.
AddPart(h) ==
    /\ Acting(h, {"need", "use", "extra"})
    /\ \E k \in NextItem :
          item' = [item EXCEPT ![k] = [job |-> note[h].job, kind |-> KindOf(note[h].act),
                                       fate |-> "THERE", line |-> {}]]
    /\ Past(Overtaken(h)) /\ Rest(h)
    /\ UNCHANGED <<vars, finding, repair, waiting, lines, made, removed, left>>

\* Their removals, by id; that of an extra fails when it is gone.
DropPart(h) ==
    /\ Acting(h, {"unneed", "unuse", "unextra"})
    /\ item' = [k \in Items |-> IF k \in note[h].items /\ item[k].fate = "THERE"
                                THEN [item[k] EXCEPT !.fate = "TAKEN_BACK", !.line = {}]
                                ELSE item[k]]
    /\ Past(Overtaken(h) \union {k \in note[h].items : item[k].fate # "THERE"}) /\ Rest(h)
    /\ UNCHANGED <<vars, finding, repair, waiting, lines, made, removed, left>>

\* submitFindingsAction: the read of the findings, ...
SubmitRead(h) ==
    LET f == finding[note[h].job] IN
    /\ Acting(h, {"submit"})
    /\ IF f.submitted \/ ~f.text THEN Rest(h) ELSE GoOn(h, "stamp")
    /\ UNCHANGED <<vars, finding, repair, waiting, item, lines, made, removed, left, past>>

\* ... the stamp, ...
SubmitStamp(h) ==
    LET j == note[h].job IN
    /\ note[h].pc = "stamp"
    /\ finding' = [finding EXCEPT ![j].submitted = TRUE]
    /\ Past({i \in {j} : finding[i].submitted \/ ~finding[i].text})
    /\ IF note[h].early THEN GoOn(h, "advance") ELSE Rest(h)
    /\ UNCHANGED <<vars, repair, waiting, item, lines, made, removed, left>>

\* Bug: the card is moved because it was at an early stage.
SubmitAdvanceAsRead(h) ==
    /\ note[h].pc = "advance"
    /\ card' = [card EXCEPT ![note[h].job].status = "ESTIMATE"]
    /\ Rest(h)
    /\ UNCHANGED <<session, started, old, req, cron, budget>>
    /\ UNCHANGED <<finding, repair, waiting, item, lines, made, removed, left, past>>

\* ... and the conditional move of the card (nextStatusAfterFindings).
SubmitAdvance(h) ==
    LET j == note[h].job IN
    /\ note[h].pc = "advance"
    /\ card' = IF card[j].status \in {"ARRIVED", "INSPECTION"}
               THEN [card EXCEPT ![j].status = "ESTIMATE"] ELSE card
    /\ Rest(h)
    /\ UNCHANGED <<session, started, old, req, cron, budget>>
    /\ UNCHANGED <<finding, repair, waiting, item, lines, made, removed, left, past>>

\* markWorkCompleteAction and signOffQcAction; the FINISH step is left out.
Stamp(h) ==
    /\ Acting(h, {"complete", "qc"})
    /\ repair' = [repair EXCEPT ![note[h].job] =
                     IF note[h].act = "qc" THEN [@ EXCEPT !.qc = TRUE]
                                           ELSE [@ EXCEPT !.done = TRUE]]
    /\ Rest(h)
    /\ UNCHANGED <<vars, finding, waiting, item, lines, made, removed, left, past>>

-----------------------------------------------------------------------------
(* Parts on estimates.                                                     *)

LineOf(e, k) == [est |-> e, item |-> k, nth |-> made]

\* Bug: every extra of the card is deleted, quoted or not.
ReestimateAll(h) ==
    LET j == note[h].job IN
    /\ note[h].pc = "roll"
    /\ \E e \in NextDraft : lines' = lines \union {LineOf(e, k) : k \in note[h].items}
    /\ made' = made + 1
    /\ item' = [k \in Items |-> IF item[k].job = j /\ k \in Pending("EXTRA")
                                THEN [item[k] EXCEPT !.fate = "QUOTED"] ELSE item[k]]
    /\ card' = [card EXCEPT ![j].status = "EXTRA_WORK_AWAITING_APPROVAL", ![j].heldFrom = "NONE"]
    /\ waiting' = waiting \ {j}
    /\ Past({k \in note[h].items : item[k].fate # "THERE"}) /\ Rest(h)
    /\ UNCHANGED <<session, started, old, req, cron, budget, finding, repair, removed, left>>

\* sendForReestimateAction: lines of the extras it has read, whose rows it deletes.
Reestimate(h) ==
    LET j == note[h].job IN
    /\ note[h].pc = "roll"
    /\ \E e \in NextDraft : lines' = lines \union {LineOf(e, k) : k \in note[h].items}
    /\ made' = made + 1
    /\ item' = [k \in Items |-> IF k \in note[h].items /\ item[k].fate = "THERE"
                                THEN [item[k] EXCEPT !.fate = "QUOTED"] ELSE item[k]]
    /\ card' = [card EXCEPT ![j].status = "EXTRA_WORK_AWAITING_APPROVAL", ![j].heldFrom = "NONE"]
    /\ waiting' = waiting \ {j}
    /\ Past({k \in note[h].items : item[k].fate # "THERE"}) /\ Rest(h)
    /\ UNCHANGED <<session, started, old, req, cron, budget, finding, repair, removed, left>>

\* addLineFromPartAction: the check that the part has no line yet ...
PriceRead(h, k) ==
    /\ Use("price")
    /\ note[h].pc = "idle"
    /\ k \in Pending("REQUIRED") \union Pending("USED") /\ item[k].line = {}
    /\ Note(h, "price", "price", item[k].job, NoTech, {k})
    /\ UNCHANGED <<vars, finding, repair, waiting, item, lines, made, removed, past>>

\* ... and the line and the link to it, which fail together when the part is gone.
Price(h) ==
    LET k == CHOOSE i \in note[h].items : TRUE
        l == LineOf(0, k) IN
    /\ note[h].pc = "price"
    /\ IF item[k].fate = "THERE"
       THEN /\ lines' = lines \union {l} /\ made' = made + 1
            /\ item' = [item EXCEPT ![k].line = {l}]
       ELSE UNCHANGED <<lines, made, item>>
    /\ Past({i \in {k} : item[i].fate # "THERE" \/ item[i].line # {}}) /\ Rest(h)
    /\ UNCHANGED <<vars, finding, repair, waiting, removed, left>>

\* removeEstimateLineAction; the foreign key sets the link to null.
RemoveLine(l) ==
    /\ Use("unprice")
    /\ l \in lines \ removed
    /\ removed' = removed \union {l}
    /\ item' = [k \in Items |-> [item[k] EXCEPT !.line = @ \ {l}]]
    /\ UNCHANGED <<vars, finding, repair, waiting, lines, made, note, past>>

-----------------------------------------------------------------------------
\* A dearer quote holds a card of the timeline until the customer answers, and stops
\* its timers; when it does so is in CardGates.
AwaitApproval(p, j) ==
    /\ Use("await")
    /\ Free(p) /\ card[j].status \in Linear
    /\ card' = [card EXCEPT ![j].status = "ON_HOLD", ![j].heldFrom = card[j].status]
    /\ ThenClose(p, j, "JOB_CLOSED")
    /\ waiting' = waiting \union {j}
    /\ UNCHANGED <<session, started, old, cron, budget>>
    /\ UNCHANGED <<finding, repair, item, lines, made, removed, note, past>>

KillNote(h) ==
    /\ note[h].pc # "idle" /\ Use("kill") /\ Rest(h)
    /\ UNCHANGED <<vars, finding, repair, waiting, item, lines, made, removed, past>>

\* A request of WorkFloor writes a status to card j.
Writes(j) == {p \in Requests : /\ req[p].pc = "write" /\ req[p].job = j
                               /\ req'[p].pc # "write" /\ budget' = budget}

\* A step of WorkFloor: a status written replaces the reason of a hold, and
\* markCompleteAction also sets workCompletedAt.  sendForReestimateAction is above.
FloorStep ==
    /\ Next
    /\ \A p \in Requests : req'[p].put.status # "EXTRA_WORK_AWAITING_APPROVAL"
    /\ waiting' = {j \in waiting : Writes(j) = {}}
    /\ repair' = [j \in Jobs |->
                     IF \E p \in Writes(j) : req[p].put.reason = "COMPLETED"
                     THEN [repair[j] EXCEPT !.done = TRUE] ELSE repair[j]]
    /\ UNCHANGED <<finding, item, lines, made, removed, note, left, past>>

PaperInit ==
    /\ Init
    /\ finding = [j \in Jobs |-> [text |-> FALSE, submitted |-> FALSE]]
    /\ repair = [j \in Jobs |-> [done |-> FALSE, qc |-> FALSE]]
    /\ waiting = {} /\ lines = {} /\ made = 0 /\ removed = {} /\ past = {}
    /\ item = [k \in Items |-> NoItem]
    /\ note = [h \in Hands |-> NoNote]
    /\ left \in Loads[[card |-> card, budget |-> budget]]

PaperStep(h) ==
    \/ ClaimFree(h) \/ Save(h) \/ AddPart(h) \/ DropPart(h)
    \/ SubmitRead(h) \/ SubmitStamp(h) \/ SubmitAdvance(h) \/ Stamp(h)
    \/ Reestimate(h) \/ Price(h) \/ KillNote(h)

NewPaper(h) ==
    \/ \E j \in Jobs, t \in Techs :
          \/ \E act \in PaperSorts \ {"extra", "unextra", "reestimate", "price", "unprice",
                                      "await", "kill"} : Work(h, act, j, t)
          \/ \E act \in {"extra", "unextra", "reestimate"} : OnExtras(h, act, j, t)
    \/ \E k \in Items : PriceRead(h, k)

PaperNext ==
    \/ FloorStep
    \/ \E h \in Hands : NewPaper(h) \/ PaperStep(h)
    \/ \E l \in lines : RemoveLine(l)
    \/ \E p \in Requests, j \in Jobs : AwaitApproval(p, j)

PaperSpec == PaperInit /\ [][PaperNext]_<<vars, paperVars>>
                 /\ WF_<<vars, paperVars>>(Age /\ UNCHANGED paperVars)
                 /\ WF_<<vars, paperVars>>(Nightly /\ UNCHANGED paperVars)

-----------------------------------------------------------------------------
(* Properties.                                                             *)

\* A part is on one line at a time, and no extra is lost between the technician's list
\* and the estimate (jobs.ts: "so the JobParts and the Estimate move atomically";
\* techfindings' parts: "Duplicate-click guard").  Two requests that have both read a
\* part before one of them wrote may put it on two lines, or on one although it was
\* taken back: these are in past.
QuotedOnce ==
    \A k \in Items :
        LET from == {l \in lines : l.item = k} IN
        /\ item[k].kind = "EXTRA" /\ item[k].fate = "QUOTED" => from # {}
        /\ item[k].kind = "EXTRA" /\ item[k].fate = "THERE" => from = {}
        /\ item[k].line \subseteq from \ removed
        /\ k \notin past =>
              /\ \A l, m \in from \ removed : l = m
              /\ item[k].fate = "THERE" => from \ removed = item[k].line
              /\ item[k].kind = "EXTRA" /\ item[k].fate = "TAKEN_BACK" => from = {}

\* What has been handed over stands: the findings and the parts required once they are
\* submitted, with a text, the parts used once the work is complete, but for requests
\* that have read the card before (past); no mark is ever taken back; and handing over
\* moves a card on from its first stages only, "never override later stages or an
\* ON_HOLD" (jobfindings.ts), whoever has moved it meanwhile.
PartsOf(j, kind) == {k \in Pending(kind) : item[k].job = j}

HandoverStands ==
    [][/\ \A j \in Jobs :
             /\ finding[j].submitted => finding'[j].submitted
             /\ repair[j].done => repair'[j].done
             /\ repair'[j].qc => repair'[j].done
             /\ j \notin past' =>
                   /\ finding[j].submitted => /\ finding'[j].text
                                              /\ PartsOf(j, "REQUIRED")' = PartsOf(j, "REQUIRED")
                   /\ repair[j].done => /\ finding'[j].text = finding[j].text
                                        /\ PartsOf(j, "USED")' = PartsOf(j, "USED")
       /\ \A h \in Hands :
             note[h].pc = "advance" /\ note'[h].pc = "idle" /\ card' # card
                 => card[note[h].job].status \in {"ARRIVED", "INSPECTION"}
      ]_<<vars, paperVars>>
=============================================================================
