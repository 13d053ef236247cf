-------------------------------- MODULE Chat --------------------------------
(***************************************************************************)
(* WhatsApp at the reception: the webhook, the receptionist that answers   *)
(* or drafts, the advisors who take over, approve and discard, and the     *)
(* maintenance reminders (src/app/api/whatsapp/webhook/route.ts,           *)
(* src/lib/whatsapp.ts, receptionist-engine.ts, src/app/actions/chat.ts,   *)
(* reminders.ts), composed with Intake, whose customers and vehicles they  *)
(* share.                                                                  *)
(*                                                                         *)
(* Meta delivers a message at least once and in any payload; the webhook   *)
(* answers 200 whatever happens.  A request is a list of calls (todo); two *)
(* interleave between calls, and each may be killed or fail there.         *)
(*                                                                         *)
(* Texts and languages are left out: a message has a route and is or is    *)
(* not in a clear language.  The OUT row of a message sent is left out: no *)
(* guard reads it.                                                         *)
(***************************************************************************)
EXTENDS Intake, FiniteSets, Functions

CONSTANTS
    Messages,           \* waMessageIds of Meta
    SenderOf,           \* SenderOf[m]: the phone it comes from
    RouteOf, Clear,     \* classifyConversation and resolveLang of its text
    Payloads,           \* lists of messages that one webhook call may bring
    Reminders,          \* Reminder rows that may be created
    Workers,            \* requests of this component under way at once
    ChatBudgets         \* for a scenario of Intake: how many requests of each sort

Routes == {"AUTO", "PROPOSE", "HANDOFF"}
Texts  == {"reply", "holding", "handoff"}
ChatSorts == {"webhook", "mode", "approve", "discard", "manual", "schedule", "remind",
              "cancel", "fail", "kill"}

ASSUME ChatAssumption ==
    /\ SenderOf \in [Messages -> Phones] /\ RouteOf \in [Messages -> Routes]
    /\ Clear \in [Messages -> BOOLEAN] /\ Payloads \subseteq Seq(Messages) \ {<<>>}
    /\ Reminders \intersect (Messages \X Texts) = {} /\ None \notin {"BOT", "HUMAN"}
    /\ ChatBudgets \in [Scenarios -> SUBSET [ChatSorts -> Nat]]

VARIABLES
    wa,         \* wa[c]: Customer.waId
    thread,     \* thread[n]: WhatsAppThread of number n, with its customer
    inbox,      \* inbox[m]: the mode of m's thread when its row was made, None without
    draft,      \* PENDING_APPROVAL rows: what, for which message
    posted,     \* posted[x]: how often text or reminder x has gone to Meta
    reminder,   \* Reminder
    talk,       \* talk[w]: a request's locals
    left,       \* what is left of the budget
    lapses      \* history: <<why, what>>, requests that failed or met another

chatVars == <<wa, thread, inbox, draft, posted, reminder, talk, left, lapses>>
deskVars == <<vehicle, history, transfer, card, jobSeq, booking, req, budget, overtaken>>
frontVars == <<vars, chatVars>>

Items == (Messages \X Texts) \union Reminders

NoThread   == [customer |-> None, mode |-> "BOT", status |-> "OPEN"]
NoReminder == [status |-> "NONE", vehicle |-> None]
Rest == [todo |-> <<>>, mail |-> <<>>, item |-> {}, number |-> None, customer |-> None,
         mode |-> "BOT", vehicle |-> None]

ChatInit ==
    /\ wa = [c \in Customers |-> None] /\ thread = [n \in Phones |-> NoThread]
    /\ inbox = [m \in Messages |-> None] /\ draft = {} /\ posted = [x \in Items |-> 0]
    /\ reminder = [r \in Reminders |-> NoReminder]
    /\ talk = [w \in Workers |-> Rest]
    /\ left \in ChatBudgets[[phone |-> phone, vehicle |-> vehicle, budget |-> budget]]
    /\ lapses = {}

Use(s) == left[s] > 0 /\ left' = [left EXCEPT ![s] = @ - 1]
Lapse(why, whats) == lapses' = lapses \union {<<why, x>> : x \in whats}

-----------------------------------------------------------------------------
(* Requests and their calls.                                               *)

Do(call, what) == [call |-> call, what |-> what]
Call(name)     == Do(name, "none")
Turn(w, name)  == talk[w].todo # <<>> /\ Head(talk[w].todo).call = name
Resting(w)     == talk[w] = Rest
Becomes(w, t)  == talk' = [talk EXCEPT ![w] = t]

Incoming == <<Call("customer")>>

\* The webhook goes on to the next message of its payload; other requests end.
NextMail(w) ==
    LET mail == talk[w].mail IN
    Becomes(w, IF Len(mail) > 1 THEN [Rest EXCEPT !.todo = Incoming, !.mail = Tail(mail)]
               ELSE Rest)

Done(w) == IF Len(talk[w].todo) = 1 THEN NextMail(w)
           ELSE Becomes(w, [talk[w] EXCEPT !.todo = Tail(@)])

Message(w) == Head(talk[w].mail)
Mail(w)    == Range(talk[w].mail)

\* The text to the message at hand that a call drafts or sends, or else the draft or
\* reminder the request is about.
What(w)  == Head(talk[w].todo).what
Topic(w) == IF What(w) = "none" THEN talk[w].item ELSE {<<Message(w), What(w)>>}

\* A call throws: the request ends, and with it the rest of the payload, for good
\* ("swallow - never trigger Meta retries").
Abandon(w, why) ==
    /\ Becomes(w, Rest)
    /\ Lapse(why, Mail(w) \union Topic(w))

\* sendWhatsApp starts with the thread, which a reminder may be the first to open.
Reach(n, c) == thread' = [thread EXCEPT ![n] = IF @ = NoThread THEN [@ EXCEPT !.customer = c] ELSE @]

\* sendWhatsApp: what goes to Meta ...
Post(w) ==
    /\ Turn(w, "post")
    /\ Reach(talk[w].number, talk[w].customer)
    /\ posted' = [it \in Items |-> IF it \in Topic(w) THEN posted[it] + 1 ELSE posted[it]]
    /\ Done(w)
    /\ UNCHANGED <<phone, deskVars, wa, inbox, draft, reminder, left, lapses>>

\* ... or fails, or has arrived when the answer or the OUT row is lost.
PostFails(w) ==
    /\ Turn(w, "post") /\ Use("fail")
    /\ Reach(talk[w].number, talk[w].customer)
    /\ \E n \in {0, 1} :
          posted' = [it \in Items |-> IF it \in Topic(w) THEN posted[it] + n ELSE posted[it]]
    /\ Abandon(w, "failed")
    /\ UNCHANGED <<phone, deskVars, wa, inbox, draft, reminder>>

KillChat(w) ==
    /\ ~Resting(w) /\ Use("kill")
    /\ Abandon(w, "killed")
    /\ UNCHANGED <<phone, deskVars, wa, thread, inbox, draft, posted, reminder>>

-----------------------------------------------------------------------------
(* The webhook: POST of route.ts, recordInbound, handleInbound.            *)

Webhook(w, mail) ==
    /\ Resting(w) /\ Use("webhook")
    /\ Becomes(w, [Rest EXCEPT !.todo = Incoming, !.mail = mail])
    /\ Lapse("delivered", Range(mail))
    /\ UNCHANGED <<phone, deskVars, wa, thread, inbox, draft, posted, reminder>>

\* customer.findFirst by number, of several any; or else customer.create.
FindCustomer(w) ==
    LET n == SenderOf[Message(w)]
        known == {c \in Customers : n \in {phone[c], wa[c]}} IN
    /\ Turn(w, "customer")
    /\ \E c \in First(known) :
          Becomes(w, [talk[w] EXCEPT !.number = n, !.customer = c, !.todo =
              IF c = None THEN <<Call("create")>> ELSE <<Call("thread")>>])
    /\ UNCHANGED <<phone, deskVars, wa, thread, inbox, draft, posted, reminder, left, lapses>>

\* A number is one customer's: if one was made since, the request throws.
CreateCustomer(w) ==
    LET n == SenderOf[Message(w)] IN
    /\ Turn(w, "create")
    /\ IF Holders(n) # {}
          THEN Abandon(w, "raced") /\ UNCHANGED <<phone, wa>>
          ELSE /\ \E c \in Customers :
                     /\ phone[c] = None
                     /\ phone' = [phone EXCEPT ![c] = n] /\ wa' = [wa EXCEPT ![c] = n]
                     /\ Becomes(w, [talk[w] EXCEPT !.customer = c, !.todo = <<Call("thread")>>])
               /\ UNCHANGED lapses
    /\ UNCHANGED <<deskVars, thread, inbox, draft, posted, reminder, left>>

\* getThread of recordInbound, whose mode decides who is to answer.
OpenThread(w) ==
    LET n == SenderOf[Message(w)] IN
    /\ Turn(w, "thread")
    /\ Reach(n, talk[w].customer)
    /\ Becomes(w, [talk[w] EXCEPT !.mode = thread[n].mode, !.todo = <<Call("seen")>>])
    /\ UNCHANGED <<phone, deskVars, wa, inbox, draft, posted, reminder, left, lapses>>

\* Bug: a message seen before ends the payload.
SeenStops(w) ==
    /\ Turn(w, "seen")
    /\ IF inbox[Message(w)] # None THEN Becomes(w, Rest)
       ELSE Becomes(w, [talk[w] EXCEPT !.todo = <<Call("record")>>])
    /\ UNCHANGED <<phone, deskVars, wa, thread, inbox, draft, posted, reminder, left, lapses>>

Seen(w) ==
    /\ Turn(w, "seen")
    /\ IF inbox[Message(w)] # None THEN NextMail(w)
       ELSE Becomes(w, [talk[w] EXCEPT !.todo = <<Call("record")>>])
    /\ UNCHANGED <<phone, deskVars, wa, thread, inbox, draft, posted, reminder, left, lapses>>

\* What the receptionist does about m: queueDraft in its two calls, and its sends.
Queue(text)  == <<Do("draft", text), Call("open")>>
Say(m, text) == IF Clear[m] THEN <<Do("post", text)>> ELSE Queue(text)
Plan(m) ==
    CASE RouteOf[m] = "AUTO"    -> Say(m, "reply")
      [] RouteOf[m] = "PROPOSE" -> Queue("reply") \o Say(m, "holding")
      [] RouteOf[m] = "HANDOFF" -> <<Call("flag")>> \o Say(m, "handoff")

\* The IN row, unique in Meta's id, and then, unless the advisor has taken over when
\* the thread was read, the plan.
Record(w) ==
    LET m == Message(w)  now == thread[SenderOf[m]].mode IN
    /\ Turn(w, "record")
    /\ IF inbox[m] # None
          THEN Abandon(w, "raced") /\ UNCHANGED inbox
          ELSE /\ inbox' = [inbox EXCEPT ![m] = now]
               /\ IF talk[w].mode = "HUMAN" THEN NextMail(w)
                  ELSE Becomes(w, [talk[w] EXCEPT !.todo = Plan(m)])
               /\ Lapse("turned", {m} \ {x \in {m} : now = talk[w].mode})
    /\ UNCHANGED <<phone, deskVars, wa, thread, draft, posted, reminder, left>>

QueueDraft(w) ==
    /\ Turn(w, "draft")
    /\ draft' = draft \union Topic(w)
    /\ Done(w)
    /\ UNCHANGED <<phone, deskVars, wa, thread, inbox, posted, reminder, left, lapses>>

\* Both end in a write of threadStatus by id.
SetStatus(w, call, status) ==
    /\ Turn(w, call)
    /\ thread' = [thread EXCEPT ![talk[w].number].status = status]
    /\ Done(w)
    /\ UNCHANGED <<phone, deskVars, wa, inbox, draft, posted, reminder, left, lapses>>

-----------------------------------------------------------------------------
(* The advisors: chat.ts.                                                  *)

\* takeOverAction, releaseAction
SetMode(n, mode) ==
    /\ thread[n].customer # None /\ Use("mode")
    /\ thread' = [thread EXCEPT ![n].mode = mode,
                                ![n].status = IF mode = "HUMAN" THEN "OPEN" ELSE @]
    /\ UNCHANGED <<phone, deskVars, wa, inbox, draft, posted, reminder, talk, lapses>>

About(x) == {w \in Workers : x \in talk[w].item}

\* approveDraftAction, with its blanks filled in: the draft is read, sent, deleted.
Approve(w, d) ==
    LET n == SenderOf[d[1]] IN
    /\ Resting(w) /\ d \in draft /\ Use("approve")
    /\ Becomes(w, [Rest EXCEPT !.item = {d}, !.number = n, !.customer = thread[n].customer,
                               !.todo = <<Call("post"), Call("delete")>>])
    /\ Lapse("met", {x \in {d} : About(x) # {}})
    /\ UNCHANGED <<phone, deskVars, wa, thread, inbox, draft, posted, reminder>>

DeleteDraft(w) ==
    /\ Turn(w, "delete")
    /\ draft' = draft \ talk[w].item
    /\ Done(w)
    /\ UNCHANGED <<phone, deskVars, wa, thread, inbox, posted, reminder, left, lapses>>

\* discardDraftAction
Discard(d) ==
    /\ d \in draft /\ Use("discard")
    /\ draft' = draft \ {d}
    /\ Lapse("discarded", {d})
    /\ UNCHANGED <<phone, deskVars, wa, thread, inbox, posted, reminder, talk>>

\* sendManualAction
Manual(w, n) ==
    /\ Resting(w) /\ thread[n].customer # None /\ Use("manual")
    /\ Becomes(w, [Rest EXCEPT !.number = n, !.customer = thread[n].customer,
                               !.todo = <<Call("post"), Call("open")>>])
    /\ UNCHANGED <<phone, deskVars, wa, thread, inbox, draft, posted, reminder, lapses>>

-----------------------------------------------------------------------------
(* Reminders, of one type.                                                 *)

DueFor(v) == {r \in Reminders : reminder[r] = [status |-> "SCHEDULED", vehicle |-> v]}

\* scheduleRemindersAction, from a card of v: unless one is pending ...
ScheduleRead(w, v) ==
    /\ Resting(w) /\ Live(v) /\ DueFor(v) = {} /\ Use("schedule")
    /\ Becomes(w, [Rest EXCEPT !.vehicle = v, !.todo = <<Call("schedule")>>])
    /\ Lapse("met", {u \in {v} : \E q \in Workers : talk[q].vehicle = u})
    /\ UNCHANGED <<phone, deskVars, wa, thread, inbox, draft, posted, reminder>>

\* ... one is created.
Schedule(w) ==
    /\ Turn(w, "schedule")
    /\ \E r \in Reminders :
          /\ reminder[r] = NoReminder
          /\ reminder' = [reminder EXCEPT ![r] = [status |-> "SCHEDULED", vehicle |-> talk[w].vehicle]]
    /\ Done(w)
    /\ UNCHANGED <<phone, deskVars, wa, thread, inbox, draft, posted, left, lapses>>

\* sendOne: a scheduled reminder goes to the number of the vehicle's owner, waId
\* before phone, and is then marked, by id.
SendReminder(w, r) ==
    LET c == vehicle[reminder[r].vehicle].owner
        n == IF wa[c] # None THEN wa[c] ELSE phone[c] IN
    /\ Resting(w) /\ reminder[r].status = "SCHEDULED" /\ Use("remind")
    /\ Becomes(w, [Rest EXCEPT !.item = {r}, !.number = n, !.customer = c,
                               !.todo = <<Call("post"), Call("mark")>>])
    /\ Lapse("met", {x \in {r} : About(x) # {}})
    /\ UNCHANGED <<phone, deskVars, wa, thread, inbox, draft, posted, reminder>>

MarkSent(w) ==
    /\ Turn(w, "mark")
    /\ reminder' = [r \in Reminders |-> IF r \in talk[w].item
                                        THEN [reminder[r] EXCEPT !.status = "SENT"] ELSE reminder[r]]
    /\ Done(w)
    /\ UNCHANGED <<phone, deskVars, wa, thread, inbox, draft, posted, left, lapses>>

\* cancelReminderAction: one conditional update.
CancelReminder(r) ==
    /\ reminder[r].status = "SCHEDULED" /\ Use("cancel")
    /\ reminder' = [reminder EXCEPT ![r].status = "CANCELLED"]
    /\ Lapse("met", {x \in {r} : About(x) # {}})
    /\ UNCHANGED <<phone, deskVars, wa, thread, inbox, draft, posted, talk>>

-----------------------------------------------------------------------------

WebhookStep(w) ==
    \/ \E mail \in Payloads : Webhook(w, mail)
    \/ FindCustomer(w) \/ CreateCustomer(w) \/ OpenThread(w) \/ Seen(w) \/ Record(w)
    \/ QueueDraft(w)
    \/ SetStatus(w, "open", "OPEN") \/ SetStatus(w, "flag", "NEEDS_HUMAN")
    \/ Post(w) \/ PostFails(w) \/ KillChat(w)

AdvisorStep(w) ==
    \/ \E d \in draft : Approve(w, d)
    \/ DeleteDraft(w)
    \/ \E n \in Phones : Manual(w, n)
    \/ \E v \in Vehicles : ScheduleRead(w, v)
    \/ Schedule(w) \/ MarkSent(w)
    \/ \E r \in Reminders : SendReminder(w, r)

\* Reception goes on as in Intake; createBookingPublic gives a new customer a waId too.
Booked == \E a \in Advisors : req[a].pc = "idle" /\ req'[a].pc = "book"
Reception ==
    /\ Next
    /\ wa' = [c \in Customers |-> IF Booked /\ phone[c] = None THEN phone'[c] ELSE wa[c]]
    /\ UNCHANGED <<thread, inbox, draft, posted, reminder, talk, left, lapses>>

FrontNext ==
    \/ Reception
    \/ \E w \in Workers : WebhookStep(w) \/ AdvisorStep(w)
    \/ \E n \in Phones : SetMode(n, "HUMAN") \/ SetMode(n, "BOT")
    \/ \E d \in draft : Discard(d)
    \/ \E r \in Reminders : CancelReminder(r)

FrontInit == Init /\ ChatInit
FrontSpec == FrontInit /\ [][FrontNext]_frontVars

-----------------------------------------------------------------------------
(* Properties.                                                             *)

Lapsed(whys, what) == \E why \in whys : <<why, what>> \in lapses
Answered(m) == \E text \in Texts : \/ posted[<<m, text>>] > 0 \/ <<m, text>> \in draft
                                  \/ Lapsed({"discarded"}, <<m, text>>)

\* A message that reached the webhook is on record, and then answered, put before the
\* advisor, or left to the one who has taken over, in whatever payloads Meta repeats
\* it; it is lost only to a kill, to a send that failed before it in its payload, to
\* another request that made its customer or its row at the same time, or to a change
\* of mode while it was recorded (receptionist-engine.ts: "Process one inbound
\* WhatsApp message: idempotent record").
NoMessageLost ==
    \A m \in Messages :
        /\ Lapsed({"delivered"}, m) /\ ~Lapsed({"killed", "failed", "raced"}, m)
        /\ \A w \in Workers : m \notin Mail(w)
        => /\ inbox[m] # None
           /\ inbox[m] = "BOT" /\ ~Lapsed({"turned"}, m) => Answered(m)

\* Each text to a message goes out once, by the receptionist or by an approval, not
\* both, and is no draft any more, unless two approvals met or one failed halfway; and
\* once the advisor has taken over, the receptionist is silent ("advisor already
\* handling"), unless the mode changed while the message was recorded.
AnsweredOnce ==
    \A m \in Messages, text \in Texts :
        LET it == <<m, text>> IN
        /\ ~Lapsed({"met", "failed", "killed"}, it) =>
              /\ posted[it] <= 1
              /\ posted[it] = 1 /\ it \in draft => About(it) # {}
        /\ inbox[m] = "HUMAN" /\ ~Lapsed({"turned"}, m) => posted[it] = 0 /\ it \notin draft

\* A reminder marked SENT was sent; none is sent twice, or sent and still due or
\* cancelled, and a vehicle has one that is due, unless two requests about it met or
\* one failed halfway (reminders.ts: "Don't double-schedule"; "an already-sent id
\* quietly no-ops").
RemindersOnce ==
    /\ \A r \in Reminders :
          /\ reminder[r].status = "SENT" => posted[r] > 0
          /\ ~Lapsed({"met", "failed", "killed"}, r) =>
                /\ posted[r] <= 1
                /\ posted[r] = 1 /\ About(r) = {} => reminder[r].status = "SENT"
    /\ \A v \in Vehicles : Cardinality(DueFor(v)) <= 1 \/ Lapsed({"met"}, v)

\* What comes in is answered, and what is to go out once goes out once: all of the above.
NothingLostOrTwice == NoMessageLost /\ AnsweredOnce /\ RemindersOnce
=============================================================================
