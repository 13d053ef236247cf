------------------------------- MODULE Intake -------------------------------
(***************************************************************************)
(* Reception: customers, vehicles, plates and the job cards they open      *)
(* (src/app/actions/intake-moulkia.ts, intake.ts, customer.ts and          *)
(* createJobCardAction of jobs.ts).                                        *)
(*                                                                         *)
(* A submission of the reception form looks the plate, the phone and the   *)
(* VIN up before it opens its transaction (Preflight), reads the vehicle   *)
(* inside it (Begin) and commits (one action per branch).  Nothing is      *)
(* locked by the reads and no constraint keeps plates apart; phones are    *)
(* unique in a garage.                                                     *)
(*                                                                         *)
(* Photographs, text recognition, drafts, names and the fields of the      *)
(* reception are left out: they choose no branch.                          *)
(***************************************************************************)
EXTENDS Integers, Sequences

CONSTANTS
    Customers, Vehicles, Cards, Bookings,   \* rows, used one after another
    Phones, Plates, Vins,                   \* normalised values
    Typed,                                  \* plates as the booking page gets and keeps them
    Advisors,                               \* submissions under way at once
    None,                                   \* no row, or an empty field
    Scenarios     \* owned vehicles to start from, and how many requests of each sort

Sorts == {"intake", "booking", "answer", "customer", "card"}

\* Auxiliary: first, the customer the row was made for.
VehicleRows == [owner: Customers \union {None}, plate: Plates \union Typed \union {None},
                vin: Vins \union {None}, first: Customers \union {None}]
Registered(c, p, n) == [owner |-> c, plate |-> p, vin |-> n, first |-> c]
NoVehicle == Registered(None, None, None)

ASSUME IntakeAssumption ==
    /\ None \notin Customers \union Vehicles \union Cards \union Bookings
    /\ None \notin Phones \union Plates \union Typed \union Vins
    /\ Scenarios \subseteq [phone: [Customers -> Phones \union {None}],
                            vehicle: [Vehicles -> VehicleRows], budget: [Sorts -> Nat]]
    /\ \A s \in Scenarios :
          /\ \A v \in Vehicles : s.vehicle[v].first = s.vehicle[v].owner
          /\ \A v \in Vehicles : s.vehicle[v] # NoVehicle => s.phone[s.vehicle[v].owner] \in Phones
          /\ \A c, d \in Customers : s.phone[c] = s.phone[d] => s.phone[c] = None \/ c = d
          /\ \A v, w \in Vehicles :
                s.vehicle[v].plate = s.vehicle[w].plate => s.vehicle[v].plate = None \/ v = w

VARIABLES
    phone,      \* phone[c]: Customer.phone, None without a row
    vehicle,    \* Vehicle: owner, plate ("" is None) and VIN
    history,    \* history[v]: plates of the open VehiclePlateHistory rows of v
    transfer,   \* transfer[v]: its VehicleOwnershipTransfer rows, oldest first
    card,       \* JobCard: vehicle, number (0 is null) and booking
    jobSeq,     \* Garage.jobSeq
    booking,    \* Booking: status and vehicle
    req,        \* req[a]: the form a submits and what it has read
    budget,
    overtaken   \* writes decided on what was no longer, or never, looked up

rowVars == <<phone, vehicle, history, transfer, card, jobSeq, booking>>
vars == <<rowVars, req, budget, overtaken>>

-----------------------------------------------------------------------------
(* Rows.                                                                   *)

Live(v) == vehicle[v].owner # None
With(p) == {v \in Vehicles : Live(v) /\ vehicle[v].plate = p}
Chassis(n) == {v \in Vehicles : Live(v) /\ vehicle[v].vin = n}
Holders(n) == {c \in Customers : phone[c] = n}

Spend(s) == budget[s] > 0 /\ budget' = [budget EXCEPT ![s] = @ - 1]

\* The forms the pages submit: a blank one, or one of the choices of the panel that
\* asks about a vehicle on file (same car and owner, new owner, plate released).
Choices == {"blank", "same", "owner", "release"}
Forms == [choice: Choices, on: Vehicles \union {None}, phone: Phones, plate: Plates,
          vin: Vins \union {None}]
Submittable(f) == IF f.choice = "blank" THEN f.on = None ELSE f.on \in Vehicles /\ Live(f.on)

Idle == [pc |-> "idle"]
NoCard == [vehicle |-> None, number |-> 0, booking |-> None]
NoBooking == [status |-> "none", vehicle |-> None]

\* customer.upsert on (garageId, phone): the holder's row, or a new one.
Upsert(n, c) ==
    /\ IF Holders(n) = {} THEN phone[c] = None ELSE c \in Holders(n)
    /\ phone' = [phone EXCEPT ![c] = n]

\* The job card of a reception, numbered in the same transaction.
OpenCard(v) ==
    \E j \in Cards :
        /\ card[j] = NoCard
        /\ jobSeq' = jobSeq + 1
        /\ card' = [card EXCEPT ![j] = [vehicle |-> v, number |-> jobSeq + 1, booking |-> None]]

Init ==
    /\ \E s \in Scenarios :
          /\ phone = s.phone /\ vehicle = s.vehicle /\ budget = s.budget
          /\ history = [v \in Vehicles |-> {s.vehicle[v].plate} \intersect Plates]
    /\ transfer = [v \in Vehicles |-> <<>>]
    /\ card = [j \in Cards |-> NoCard]
    /\ jobSeq = 0
    /\ booking = [b \in Bookings |-> NoBooking]
    /\ req = [a \in Advisors |-> Idle]
    /\ overtaken = {}

-----------------------------------------------------------------------------
(* createCustomerVehicleJobAction                                          *)

\* A form on vehicle v (None: a new one) is taken up.  What a plate may not survive
\* is noted: a form about a vehicle with a plate not its own, typed or brought by
\* the VIN shortcut.
Take(a, f, go, v) ==
    /\ req' = [req EXCEPT ![a] = [pc |-> "begin", form |-> f, go |-> go, on |-> v,
                                  seen |-> With(f.plate), owner |-> None]]
    /\ overtaken' = IF v = None \/ vehicle[v].plate = f.plate THEN overtaken
                    ELSE overtaken \union
                         {<<IF f.choice = "blank" THEN "vin" ELSE "typed", f.plate>>}

First(S) == IF S = {} THEN {None} ELSE S
Owned(v, n) == v # None /\ phone[vehicle[v].owner] = n

\* Bug: the panel is not shown.
PreflightNoPanel(a, f) ==
    \E w \in First(With(f.plate)), u \in First(Chassis(f.vin)) :
        \/ Owned(w, f.phone) /\ Take(a, f, "same", w)
        \/ ~Owned(w, f.phone) /\ f.vin # None /\ Owned(u, f.phone) /\ Take(a, f, "same", u)
        \/ /\ ~Owned(w, f.phone) /\ ~(f.vin # None /\ Owned(u, f.phone))
           /\ Take(a, f, "new", None)

\* The lookups of a blank form: the vehicle on file with this plate and phone, or
\* with this VIN and phone; otherwise a new vehicle, unless the plate is on file,
\* when the panel is shown and nothing is written.
Preflight(a, f) ==
    \E w \in First(With(f.plate)), u \in First(Chassis(f.vin)) :
        \/ Owned(w, f.phone) /\ Take(a, f, "same", w)
        \/ ~Owned(w, f.phone) /\ f.vin # None /\ Owned(u, f.phone) /\ Take(a, f, "same", u)
        \/ /\ w = None /\ ~(f.vin # None /\ Owned(u, f.phone))
           /\ Take(a, f, "new", None)

Submit(a, f) ==
    /\ req[a].pc = "idle"
    /\ Spend("intake")
    /\ Submittable(f)
    /\ IF f.choice = "blank" THEN Preflight(a, f) ELSE Take(a, f, f.choice, f.on)
    /\ UNCHANGED rowVars

\* The transaction's own read of the vehicle, for the owner it is about to leave.
Begin(a) ==
    /\ req[a].pc = "begin"
    /\ req' = [req EXCEPT ![a] = [req[a] EXCEPT !.pc = "commit", !.owner =
                 IF req[a].on = None THEN None ELSE vehicle[req[a].on].owner]]
    /\ UNCHANGED <<rowVars, budget, overtaken>>

\* Every commit ends the request.  It notes a plate that somebody else took, or took
\* off this vehicle, since it was looked up, and an owner left by somebody else.
Finish(a, moved) ==
    LET f == req[a].form  v == req[a].on
        kept == req[a].go = "release" \/ v \notin req[a].seen \/ v \in With(f.plate)
    IN
    /\ req' = [req EXCEPT ![a] = Idle]
    /\ overtaken' = overtaken
          \union (IF With(f.plate) \subseteq req[a].seen /\ kept THEN {}
                  ELSE {<<"raced", f.plate>>})
          \union (IF moved /\ vehicle[v].owner # req[a].owner THEN {<<"transfer", v>>} ELSE {})
    /\ UNCHANGED <<booking, budget>>

Describe(row, f) == [row EXCEPT !.plate = f.plate, !.vin = f.vin]

\* Bug: the move is not put on record.
EditOwnerSilent(a) ==
    LET f == req[a].form  v == req[a].on  from == req[a].owner IN
    /\ req[a].pc = "commit" /\ req[a].go = "owner"
    /\ \E c \in Customers :
          /\ Upsert(f.phone, c)
          /\ vehicle' = [vehicle EXCEPT ![v] =
                 IF c = from THEN Describe(@, f) ELSE [Describe(@, f) EXCEPT !.owner = c]]
          /\ Finish(a, c # from)
    /\ OpenCard(v)
    /\ UNCHANGED <<history, transfer>>

\* Same car, new owner: the vehicle moves to the customer of the new phone, whose
\* row is made if need be, and the move is on record; with the same customer it is
\* a plain refresh.
EditOwner(a) ==
    LET f == req[a].form  v == req[a].on  from == req[a].owner IN
    /\ req[a].pc = "commit" /\ req[a].go = "owner"
    /\ \E c \in Customers :
          /\ Upsert(f.phone, c)
          /\ transfer' = IF c = from THEN transfer
                         ELSE [transfer EXCEPT ![v] = Append(@, [from |-> from, to |-> c])]
          /\ vehicle' = [vehicle EXCEPT ![v] =
                 IF c = from THEN Describe(@, f) ELSE [Describe(@, f) EXCEPT !.owner = c]]
          /\ Finish(a, c # from)
    /\ OpenCard(v)
    /\ UNCHANGED history

\* Same car, same owner: the owner's row takes the phone of the form, which fails
\* (the whole transaction with it) when another customer has it.
Refresh(a) ==
    LET f == req[a].form  v == req[a].on IN
    /\ req[a].pc = "commit" /\ req[a].go = "same"
    /\ Holders(f.phone) \subseteq {req[a].owner}
    /\ phone' = [phone EXCEPT ![req[a].owner] = f.phone]
    /\ vehicle' = [vehicle EXCEPT ![v] = Describe(@, f)]
    /\ OpenCard(v)
    /\ Finish(a, FALSE)
    /\ UNCHANGED <<history, transfer>>

PhoneTaken(a) ==
    /\ req[a].pc = "commit" /\ req[a].go = "same"
    /\ ~(Holders(req[a].form.phone) \subseteq {req[a].owner})
    /\ req' = [req EXCEPT ![a] = Idle]
    /\ UNCHANGED <<rowVars, budget, overtaken>>

\* A new vehicle, with its plate's history row; a released plate is first taken off
\* the old vehicle and all its open rows are closed.
Register(a) ==
    LET f == req[a].form  old == req[a].on IN
    /\ req[a].pc = "commit" /\ req[a].go \in {"release", "new"}
    /\ \E c \in Customers, v \in Vehicles :
          /\ Upsert(f.phone, c)
          /\ ~Live(v)
          /\ vehicle' = [u \in Vehicles |->
                 CASE u = v   -> Registered(c, f.plate, f.vin)
                   [] u = old -> [vehicle[u] EXCEPT !.plate = None]
                   [] OTHER   -> vehicle[u]]
          /\ history' = [u \in Vehicles |-> CASE u = v   -> {f.plate}
                                              [] u = old -> {}
                                              [] OTHER   -> history[u]]
          /\ OpenCard(v)
    /\ Finish(a, FALSE)
    /\ UNCHANGED transfer

-----------------------------------------------------------------------------
(* Bookings, customers and cards made elsewhere.                           *)

\* createBookingPublic: the customer's row and the lookup of the vehicle, by the plate
\* as typed; then the vehicle if there was none; then the booking, unless the photo is
\* refused before it.
Book(a, n, p) ==
    /\ req[a].pc = "idle"
    /\ Spend("booking")
    /\ \E c \in Customers :
          /\ Upsert(n, c)
          /\ req' = [req EXCEPT ![a] = [pc |-> "book", customer |-> c, plate |-> p,
                        found |-> {v \in With(p) : vehicle[v].owner = c}]]
    /\ UNCHANGED <<vehicle, history, transfer, card, jobSeq, booking, overtaken>>

Propose(v) ==
    \E b \in Bookings :
        /\ booking[b] = NoBooking
        /\ booking' = [booking EXCEPT ![b] = [status |-> "PROPOSED", vehicle |-> v]]

BookVehicle(a) ==
    LET read == req[a] IN
    /\ read.pc = "book"
    /\ \E v \in Vehicles :
          /\ IF read.found # {}
                THEN v \in read.found /\ UNCHANGED <<vehicle, overtaken>>
                ELSE /\ ~Live(v)
                     /\ vehicle' = [vehicle EXCEPT ![v] = Registered(read.customer, read.plate, None)]
                     /\ overtaken' = overtaken \union {<<"booked", read.plate>>}
          /\ req' = [req EXCEPT ![a] = [pc |-> "propose", on |-> v]]
    /\ UNCHANGED <<phone, history, transfer, card, jobSeq, booking, budget>>

BookWrite(a) ==
    /\ req[a].pc = "propose"
    /\ Propose(req[a].on) \/ UNCHANGED booking
    /\ req' = [req EXCEPT ![a] = Idle]
    /\ UNCHANGED <<phone, vehicle, history, transfer, card, jobSeq, budget, overtaken>>

\* confirmBookingAction: the card is looked for, then made, one to a booking
\* (bookingId is unique), with the new status; it asks for no status of its own.
ConfirmRead(a, b) ==
    /\ req[a].pc = "idle"
    /\ booking[b] # NoBooking
    /\ \A j \in Cards : card[j].booking # b
    /\ Spend("answer")
    /\ req' = [req EXCEPT ![a] = [pc |-> "confirm", booking |-> b]]
    /\ UNCHANGED <<rowVars, overtaken>>

Confirm(a) ==
    LET b == req[a].booking IN
    /\ req[a].pc = "confirm"
    /\ IF \E j \in Cards : card[j].booking = b
          THEN UNCHANGED <<card, booking>>
          ELSE /\ \E j \in Cards :
                     /\ card[j] = NoCard
                     /\ card' = [card EXCEPT ![j] = [vehicle |-> booking[b].vehicle, number |-> 0,
                                                     booking |-> b]]
               /\ booking' = [booking EXCEPT ![b].status = "CONFIRMED"]
    /\ req' = [req EXCEPT ![a] = Idle]
    /\ UNCHANGED <<phone, vehicle, history, transfer, jobSeq, budget, overtaken>>

\* Bug: the update is not conditional.
RejectAny(b) ==
    /\ booking[b] # NoBooking
    /\ booking' = [booking EXCEPT ![b].status = "REJECTED"]
    /\ Spend("answer")
    /\ UNCHANGED <<phone, vehicle, history, transfer, card, jobSeq, req, overtaken>>

\* rejectBookingAction: one conditional update.
Reject(b) ==
    /\ booking[b].status = "PROPOSED"
    /\ booking' = [booking EXCEPT ![b].status = "REJECTED"]
    /\ Spend("answer")
    /\ UNCHANGED <<phone, vehicle, history, transfer, card, jobSeq, req, overtaken>>

\* createJobCardAction: a card for a vehicle on file, without a number.
CreateJobCard(v) ==
    /\ Live(v)
    /\ \E j \in Cards : card[j] = NoCard /\ card' = [card EXCEPT ![j].vehicle = v]
    /\ Spend("card")
    /\ UNCHANGED <<phone, vehicle, history, transfer, jobSeq, booking, req, overtaken>>

\* updateCustomerAction: a new phone, refused when another customer has it.
UpdateCustomer(c, n) ==
    /\ phone[c] # None /\ Holders(n) \subseteq {c}
    /\ phone' = [phone EXCEPT ![c] = n]
    /\ Spend("customer")
    /\ UNCHANGED <<vehicle, history, transfer, card, jobSeq, booking, req, overtaken>>

Next ==
    \/ \E a \in Advisors :
          \/ \E f \in Forms : Submit(a, f)
          \/ Begin(a) \/ EditOwner(a) \/ Refresh(a) \/ PhoneTaken(a) \/ Register(a)
          \/ \E n \in Phones, p \in Typed : Book(a, n, p)
          \/ BookVehicle(a) \/ BookWrite(a)
          \/ \E b \in Bookings : ConfirmRead(a, b)
          \/ Confirm(a)
    \/ \E b \in Bookings : Reject(b)
    \/ \E v \in Vehicles : CreateJobCard(v)
    \/ \E c \in Customers, n \in Phones : UpdateCustomer(c, n)

Spec == Init /\ [][Next]_vars

-----------------------------------------------------------------------------
(* Properties.                                                             *)

\* A plate is on one vehicle, whose open history row says so; a vehicle without its
\* plate has no open row (intake-moulkia.ts: "Schema won't catch it; the action has
\* to").  Excused: overlapping requests, bookings, which look at no other customer's
\* vehicles, and a plate written over the vehicle's own.
Excused(p) == \E why \in {"raced", "booked", "typed", "vin"} : <<why, p>> \in overtaken

PlatesOnOneVehicle ==
    /\ \A p \in Plates : Excused(p) \/ \A v, w \in With(p) : v = w /\ p \in history[v]
    /\ \A v \in Vehicles : vehicle[v].plate = None => history[v] = {}

\* A vehicle's transfers lead from the customer it was put on file for to its owner, each
\* from the one before, so no change of hands is off the record
\* (intake-moulkia.ts: "NEVER mutate the previous Customer row in place"), unless a
\* request moved it away from an owner it had not read.
Holder(v, i) == IF i = 0 THEN vehicle[v].first ELSE transfer[v][i].to

TransfersChain ==
    \A v \in Vehicles :
        LET rows == transfer[v] IN
        Live(v) /\ <<"transfer", v>> \notin overtaken =>
            /\ vehicle[v].owner = Holder(v, Len(rows))
            /\ \A i \in 1..Len(rows) :
                  rows[i].from = Holder(v, i - 1) /\ rows[i].from # rows[i].to

\* Cards of the reception are numbered 1, 2, 3 ... ("Gapless per-garage Job Card
\* No."), and a booking has a card exactly when it is confirmed, never two, however
\* confirmations and rejections meet.
CardsAccountedFor ==
    /\ {card[j].number : j \in Cards} \ {0} = 1..jobSeq
    /\ \A i, j \in Cards : i # j => card[i].number # card[j].number \/ card[i].number = 0
    /\ \A b \in Bookings :
          LET its == {j \in Cards : card[j].booking = b} IN
          /\ booking[b].status = "CONFIRMED" <=> its # {}
          /\ \A i, j \in its : i = j
=============================================================================
