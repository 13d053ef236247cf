----------------------------- MODULE ChatProofs -----------------------------
(***************************************************************************)
(* Safety of the reception desk (Intake) and of the chat (Chat), which     *)
(* share customers and vehicles, proved for every value of their constants.*)
(***************************************************************************)
EXTENDS Chat, FiniteSetTheorems, SequenceTheorems, TLAPS

Receptions == [pc: {"begin", "commit"}, form: Forms, go: {"same", "owner", "release", "new"},
               on: Vehicles \union {None}, seen: SUBSET Vehicles,
               owner: Customers \union {None}]
Bookers    == [pc: {"book"}, customer: Customers, plate: Typed, found: SUBSET Vehicles]
Proposers  == [pc: {"propose"}, on: Vehicles]
Confirmers == [pc: {"confirm"}, booking: Bookings]
Reqs       == {Idle} \union Receptions \union Bookers \union Proposers \union Confirmers

Moves    == [from: Customers \union {None}, to: Customers]
CardRows == [vehicle: Vehicles \union {None}, number: Nat, booking: Bookings \union {None}]
BookingRows == [status: {"none", "PROPOSED", "CONFIRMED", "REJECTED"},
                vehicle: Vehicles \union {None}]

TypeOK ==
    /\ vehicle \in [Vehicles -> VehicleRows] /\ history \in [Vehicles -> SUBSET Plates]
    /\ transfer \in [Vehicles -> Seq(Moves)]
    /\ card \in [Cards -> CardRows] /\ jobSeq \in Nat
    /\ booking \in [Bookings -> BookingRows]
    /\ req \in [Advisors -> Reqs]

\* What a reception has looked up: a vehicle that is on file, and stays so, and which
\* alone had the plate, unless the plate is excused; or no vehicle with the plate.
ReceptionOK(q) ==
    /\ q.on # None => Live(q.on) /\ (Excused(q.form.plate) \/ q.seen = {q.on})
    /\ q.on = None <=> q.go = "new"
    /\ q.go = "new" => q.seen = {}

\* Vehicles not on file have no record of a transfer.
NoRecord == \A v \in Vehicles : ~Live(v) => transfer[v] = <<>>

\* The chain of one vehicle.
Chain(v) == LET rows == transfer[v] IN
            /\ vehicle[v].owner = Holder(v, Len(rows))
            /\ \A i \in 1..Len(rows) :
                  rows[i].from = Holder(v, i - 1) /\ rows[i].from # rows[i].to

IInv ==
    /\ TypeOK /\ NoRecord
    /\ \A a \in Advisors : req[a] \in Receptions => ReceptionOK(req[a])
    /\ PlatesOnOneVehicle /\ TransfersChain /\ CardsAccountedFor

-----------------------------------------------------------------------------
(* Requests.                                                               *)

\* The program counter tells the kind of the request.
LEMMA ReqKinds ==
    ASSUME NEW q \in Reqs
    PROVE  /\ q.pc \in {"begin", "commit"} => q \in Receptions
           /\ q.pc = "book" => q \in Bookers
           /\ q.pc = "propose" => q \in Proposers
           /\ q.pc = "confirm" => q \in Confirmers
BY DEF Reqs, Receptions, Bookers, Proposers, Confirmers, Idle

LEMMA ReceptionFacts ==
    ASSUME NEW q \in Receptions
    PROVE  /\ q.form.phone \in Phones /\ q.form.plate \in Plates /\ q.form.plate # None
           /\ q.form.vin \in Vins \union {None}
           /\ q.on \in Vehicles \union {None} /\ q.seen \subseteq Vehicles
           /\ q.owner \in Customers \union {None}
           /\ q.go \in {"same", "owner", "release", "new"}
BY IntakeAssumption DEF Receptions, Forms

LEMMA IdleIsNoReception == Idle \in Reqs /\ Idle \notin Receptions
<1>1. ASSUME Idle \in Receptions PROVE FALSE
  <2>1. Idle.pc \in {"begin", "commit"}
    BY <1>1 DEF Receptions
  <2> QED BY <2>1 DEF Idle
<1> QED BY <1>1 DEF Reqs

\* Excuses are not taken back, and vehicles on file stay there.
Onward ==
    /\ overtaken \subseteq overtaken'
    /\ \A v \in Vehicles : Live(v) => Live(v)'

\* What a step must leave of the requests: it changes one.
LEMMA RequestsKept ==
    ASSUME IInv, Onward, NEW a \in Advisors, NEW q, req' = [req EXCEPT ![a] = q],
           q \in Reqs, q \in Receptions => ReceptionOK(q)'
    PROVE  /\ req' \in [Advisors -> Reqs]
           /\ \A b \in Advisors : req'[b] \in Receptions => ReceptionOK(req[b])'
<1>1. req \in [Advisors -> Reqs]
  BY DEF IInv, TypeOK
<1>2. req' \in [Advisors -> Reqs] /\ \A b \in Advisors : req'[b] = IF b = a THEN q ELSE req[b]
  BY <1>1
<1>3. ASSUME NEW b \in Advisors, b # a, req'[b] \in Receptions PROVE ReceptionOK(req[b])'
  <2>1. req'[b] = req[b] /\ req[b] \in Receptions
    BY <1>2, <1>3
  <2>2. ReceptionOK(req[b]) /\ req[b].on \in Vehicles \union {None}
    BY <2>1, ReceptionFacts DEF IInv
  <2>3. Excused(req[b].form.plate) => Excused(req[b].form.plate)'
    BY <2>1 DEF Excused, Onward
  <2> QED BY <2>1, <2>2, <2>3 DEF ReceptionOK, Onward
<1>4. req'[a] \in Receptions => ReceptionOK(req[a])'
  BY <1>2 DEF ReceptionOK, Excused, Live
<1> QED BY <1>2, <1>3, <1>4

LEMMA RequestEnds ==
    ASSUME IInv, Onward, NEW a \in Advisors, req' = [req EXCEPT ![a] = Idle]
    PROVE  /\ req' \in [Advisors -> Reqs]
           /\ \A b \in Advisors : req'[b] \in Receptions => ReceptionOK(req[b])'
<1>1. Idle \in Reqs /\ Idle \notin Receptions
  BY IdleIsNoReception
<1> HIDE DEF Idle
<1> QED BY <1>1, RequestsKept

-----------------------------------------------------------------------------
(* Job cards.                                                              *)

CardsOK == /\ card \in [Cards -> CardRows] /\ jobSeq \in Nat
           /\ booking \in [Bookings -> BookingRows]
           /\ CardsAccountedFor

LEMMA CardsSame ==
    ASSUME CardsOK, UNCHANGED <<card, jobSeq, booking>>
    PROVE  CardsOK'
BY DEF CardsOK, CardsAccountedFor

\* A new card gets the next number, and no other changes.
LEMMA CardOpened ==
    ASSUME CardsOK, NEW v \in Vehicles \union {None}, OpenCard(v), UNCHANGED booking
    PROVE  CardsOK'
<1>1. PICK j \in Cards :
         /\ card[j] = NoCard /\ jobSeq' = jobSeq + 1
         /\ card' = [card EXCEPT ![j] = [vehicle |-> v, number |-> jobSeq + 1, booking |-> None]]
  BY DEF OpenCard
<1>2. jobSeq \in Nat /\ card \in [Cards -> CardRows] /\ jobSeq' \in Nat
  BY <1>1 DEF CardsOK
<1>3. /\ card'[j].number = jobSeq + 1 /\ card'[j].booking = None
      /\ card[j].number = 0 /\ card[j].booking = None
      /\ \A i \in Cards \ {j} : card'[i] = card[i]
  BY <1>1, <1>2 DEF NoCard
<1>4. card' \in [Cards -> CardRows]
  <2>1. [vehicle |-> v, number |-> jobSeq + 1, booking |-> None] \in CardRows
    BY <1>2 DEF CardRows
  <2> QED BY <1>1, <1>2, <2>1
<1>5. \A i \in Cards : card[i].number \in 0..jobSeq
  <2>1. \A i \in Cards : card[i].number \in Nat
    BY <1>2 DEF CardRows
  <2>2. \A i \in Cards : card[i].number # 0 => card[i].number \in 1..jobSeq
    BY DEF CardsOK, CardsAccountedFor
  <2> QED BY <1>2, <2>1, <2>2
<1>6. {card'[i].number : i \in Cards} \ {0} = 1..jobSeq'
  <2>1. \A n \in 1..jobSeq : \E i \in Cards : card[i].number = n
    BY DEF CardsOK, CardsAccountedFor
  <2>2. \A n \in 1..jobSeq' : \E i \in Cards : card'[i].number = n
    <3> TAKE n \in 1..jobSeq'
    <3>1. CASE n = jobSeq + 1
      BY <1>3, <3>1
    <3>2. CASE n # jobSeq + 1
      <4>1. n \in 1..jobSeq
        BY <1>1, <1>2, <3>2
      <4>2. PICK i \in Cards : card[i].number = n
        BY <2>1, <4>1
      <4>3. i # j
        BY <1>3, <4>1, <4>2
      <4> QED BY <1>3, <4>2, <4>3
    <3> QED BY <3>1, <3>2
  <2>3. \A i \in Cards : card'[i].number # 0 => card'[i].number \in 1..jobSeq'
    BY <1>1, <1>2, <1>3, <1>5
  <2>4. 0 \notin 1..jobSeq'
    BY <1>2
  <2> QED BY <2>2, <2>3, <2>4
<1>7. \A i, k \in Cards : i # k => card'[i].number # card'[k].number \/ card'[i].number = 0
  <2> TAKE i, k \in Cards
  <2>1. \A x \in Cards : card[x].number # jobSeq + 1
    BY <1>2, <1>5
  <2>2. i # k => card[i].number # card[k].number \/ card[i].number = 0
    BY DEF CardsOK, CardsAccountedFor
  <2>3. CASE i = j \/ k = j
    BY <1>3, <2>1, <2>3
  <2>4. CASE i # j /\ k # j
    BY <1>3, <2>2, <2>4
  <2> QED BY <2>3, <2>4
<1>8. ASSUME NEW b \in Bookings
      PROVE  {i \in Cards : card'[i].booking = b} = {i \in Cards : card[i].booking = b}
  <2>1. b # None
    BY IntakeAssumption
  <2> QED BY <1>3, <2>1
<1> QED BY <1>2, <1>4, <1>6, <1>7, <1>8 DEF CardsOK, CardsAccountedFor

\* Cards of bookings and of createJobCardAction have no number.
LEMMA NumbersSame ==
    ASSUME CardsOK, UNCHANGED jobSeq, \A j \in Cards : card'[j].number = card[j].number
    PROVE  /\ {card'[j].number : j \in Cards} \ {0} = 1..jobSeq'
           /\ \A i, j \in Cards : i # j => card'[i].number # card'[j].number
                                          \/ card'[i].number = 0
<1>1. {card'[j].number : j \in Cards} = {card[j].number : j \in Cards}
  OBVIOUS
<1> QED BY <1>1 DEF CardsOK, CardsAccountedFor

LEMMA CardOfVehicle ==
    ASSUME CardsOK, NEW v \in Vehicles, NEW j \in Cards,
           card' = [card EXCEPT ![j].vehicle = v], UNCHANGED <<jobSeq, booking>>
    PROVE  CardsOK'
<1>1. card \in [Cards -> CardRows]
  BY DEF CardsOK
<1>2. /\ card' \in [Cards -> CardRows]
      /\ \A i \in Cards : card'[i].number = card[i].number /\ card'[i].booking = card[i].booking
  BY <1>1 DEF CardRows
<1>3. \A b : {i \in Cards : card'[i].booking = b} = {i \in Cards : card[i].booking = b}
  BY <1>2
<1> QED BY <1>2, <1>3, NumbersSame DEF CardsOK, CardsAccountedFor

LEMMA CardOfBooking ==
    ASSUME CardsOK, NEW b \in Bookings, NEW j \in Cards, card[j] = NoCard,
           \A i \in Cards : card[i].booking # b,
           card' = [card EXCEPT ![j] = [vehicle |-> booking[b].vehicle, number |-> 0,
                                        booking |-> b]],
           booking' = [booking EXCEPT ![b].status = "CONFIRMED"], UNCHANGED jobSeq
    PROVE  CardsOK'
<1>1. card \in [Cards -> CardRows] /\ booking \in [Bookings -> BookingRows] /\ b # None
  BY IntakeAssumption DEF CardsOK
<1>2. /\ card'[j].booking = b /\ card'[j].number = 0
      /\ card[j].number = 0 /\ card[j].booking = None
      /\ \A i \in Cards \ {j} : card'[i] = card[i]
  BY <1>1 DEF NoCard
<1>3. card' \in [Cards -> CardRows]
  <2>1. [vehicle |-> booking[b].vehicle, number |-> 0, booking |-> b] \in CardRows
    BY <1>1 DEF CardRows, BookingRows
  <2> QED BY <1>1, <2>1
<1>4. /\ booking' \in [Bookings -> BookingRows]
      /\ booking'[b].status = "CONFIRMED"
      /\ \A d \in Bookings \ {b} : booking'[d] = booking[d]
  BY <1>1 DEF BookingRows
<1>5. {i \in Cards : card'[i].booking = b} = {j}
  BY <1>2
<1>6. ASSUME NEW d \in Bookings, d # b
      PROVE  {i \in Cards : card'[i].booking = d} = {i \in Cards : card[i].booking = d}
  <2>1. d # None
    BY IntakeAssumption
  <2> QED BY <1>2, <1>6, <2>1
<1>7. \A d \in Bookings :
         LET its == {i \in Cards : card'[i].booking = d} IN
         /\ booking'[d].status = "CONFIRMED" <=> its # {}
         /\ \A i, k \in its : i = k
  BY <1>4, <1>5, <1>6 DEF CardsOK, CardsAccountedFor
<1>8. \A i \in Cards : card'[i].number = card[i].number
  BY <1>2
<1> QED BY <1>3, <1>4, <1>7, <1>8, NumbersSame DEF CardsOK, CardsAccountedFor

\* A booking that changes to or from no confirmation.
LEMMA BookingAnswered ==
    ASSUME CardsOK, NEW b \in Bookings, NEW row \in BookingRows,
           booking[b].status # "CONFIRMED", row.status # "CONFIRMED",
           booking' = [booking EXCEPT ![b] = row], UNCHANGED <<card, jobSeq>>
    PROVE  CardsOK'
<1>1. /\ booking' \in [Bookings -> BookingRows]
      /\ \A d \in Bookings : booking'[d] = IF d = b THEN row ELSE booking[d]
  BY DEF CardsOK
<1>2. \A d \in Bookings : booking'[d].status = "CONFIRMED" <=> booking[d].status = "CONFIRMED"
  BY <1>1
<1> QED BY <1>1, <1>2 DEF CardsOK, CardsAccountedFor

-----------------------------------------------------------------------------
(* Plates.                                                                 *)

LEMMA PlatesSame ==
    ASSUME PlatesOnOneVehicle, UNCHANGED <<vehicle, history>>, overtaken \subseteq overtaken'
    PROVE  PlatesOnOneVehicle'
BY DEF PlatesOnOneVehicle, Excused, With, Live

\* A vehicle that has the plate alone, or that is excused, is what a lookup finds.
LEMMA FoundAlone ==
    ASSUME PlatesOnOneVehicle, NEW p \in Plates, NEW v \in With(p)
    PROVE  Excused(p) \/ With(p) = {v}
BY DEF PlatesOnOneVehicle

\* An edit of a vehicle writes its own plate over, or one that is excused.
LEMMA PlateRewritten ==
    ASSUME TypeOK, PlatesOnOneVehicle, NEW v \in Vehicles, Live(v), NEW p \in Plates, NEW row,
           row.plate = p, row.owner # None,
           vehicle' = [vehicle EXCEPT ![v] = row], UNCHANGED history,
           overtaken \subseteq overtaken', Excused(p)' \/ vehicle[v].plate = p
    PROVE  PlatesOnOneVehicle'
<1>1. \A u \in Vehicles : vehicle'[u] = IF u = v THEN row ELSE vehicle[u]
  BY DEF TypeOK
<1>2. p # None
  BY IntakeAssumption
<1>3. ASSUME NEW q \in Plates, ~Excused(q)' PROVE With(q)' \subseteq With(q)
  BY <1>1, <1>3 DEF With, Live
<1>4. \A q \in Plates : Excused(q) => Excused(q)'
  BY DEF Excused
<1> QED BY <1>1, <1>2, <1>3, <1>4 DEF PlatesOnOneVehicle

\* A new vehicle has a plate that no other has but the one it is taken from.
LEMMA PlateRegistered ==
    ASSUME TypeOK, PlatesOnOneVehicle, NEW v \in Vehicles, ~Live(v), NEW p, p # None,
           NEW old \in Vehicles \union {None}, old # v,
           vehicle'[v].plate = p,
           \A u \in Vehicles \ {v} : IF u = old THEN vehicle'[u].plate = None /\ history'[u] = {}
                                     ELSE vehicle'[u] = vehicle[u] /\ history'[u] = history[u],
           overtaken \subseteq overtaken',
           Excused(p)' \/ (With(p) \subseteq {old} /\ history'[v] = {p})
    PROVE  PlatesOnOneVehicle'
<1>1. \A q \in Plates : q # None
  BY IntakeAssumption
<1>2. \A q \in Plates : Excused(q) => Excused(q)'
  BY DEF Excused
<1>3. ASSUME NEW q \in Plates, q # p PROVE With(q)' \subseteq With(q) \ {old, v}
  BY <1>1, <1>3 DEF With, Live
<1>4. ASSUME NEW q \in Plates, q # p, ~Excused(q)', NEW u \in With(q)', NEW w \in With(q)'
      PROVE  u = w /\ q \in history'[u]
  <2>1. u \in With(q) \ {old, v} /\ w \in With(q) \ {old, v}
    BY <1>3, <1>4
  <2>2. u \in Vehicles /\ history'[u] = history[u]
    BY <2>1 DEF With
  <2> QED BY <1>2, <1>4, <2>1, <2>2 DEF PlatesOnOneVehicle
<1>5. ASSUME ~Excused(p)', NEW u \in With(p)', NEW w \in With(p)'
      PROVE  u = w /\ p \in history'[u]
  <2>1. With(p)' \subseteq {v}
    BY <1>1, <1>5 DEF With, Live
  <2> QED BY <1>5, <2>1
<1>6. \A u \in Vehicles : vehicle'[u].plate = None => history'[u] = {}
  BY <1>1 DEF PlatesOnOneVehicle
<1> QED BY <1>4, <1>5, <1>6 DEF PlatesOnOneVehicle

-----------------------------------------------------------------------------
(* Transfers.                                                              *)

\* A vehicle on file keeps its owner as long as nothing is put on record; one put on
\* file starts a chain.
LEMMA ChainKept ==
    ASSUME NoRecord, TransfersChain, overtaken \subseteq overtaken', UNCHANGED transfer,
           \A v \in Vehicles :
              \/ vehicle'[v].owner = vehicle[v].owner /\ vehicle'[v].first = vehicle[v].first
              \/ ~Live(v) /\ Live(v)' /\ vehicle'[v].owner = vehicle'[v].first
    PROVE  NoRecord' /\ TransfersChain'
<1>1. NoRecord'
  BY DEF NoRecord, Live
<1>2. ASSUME NEW v \in Vehicles, Live(v)', <<"transfer", v>> \notin overtaken'
      PROVE  Chain(v)'
  <2>1. CASE vehicle'[v].owner = vehicle[v].owner /\ vehicle'[v].first = vehicle[v].first
    <3>1. Chain(v)
      BY <1>2, <2>1 DEF TransfersChain, Chain, Live
    <3> QED BY <2>1, <3>1 DEF Chain, Holder
  <2>2. CASE ~Live(v) /\ vehicle'[v].owner = vehicle'[v].first
    <3>1. Len(transfer'[v]) = 0
      BY <2>2 DEF NoRecord
    <3> QED BY <2>2, <3>1 DEF Chain, Holder
  <2> QED BY <2>1, <2>2
<1> QED BY <1>1, <1>2 DEF TransfersChain, Chain

\* A move is put on record from the owner who was read to the new one.
LEMMA ChainGrows ==
    ASSUME TypeOK, NoRecord, TransfersChain, overtaken \subseteq overtaken',
           NEW v \in Vehicles, Live(v), NEW m \in Moves, m.from # m.to,
           transfer' = [transfer EXCEPT ![v] = Append(@, m)],
           vehicle'[v].owner = m.to, vehicle'[v].first = vehicle[v].first, Live(v)',
           \A u \in Vehicles \ {v} : vehicle'[u] = vehicle[u],
           <<"transfer", v>> \in overtaken' \/ vehicle[v].owner = m.from
    PROVE  NoRecord' /\ TransfersChain'
<1>1. /\ transfer[v] \in Seq(Moves) /\ transfer'[v] = Append(transfer[v], m)
      /\ \A u \in Vehicles \ {v} : transfer'[u] = transfer[u]
  BY DEF TypeOK
<1>2. NoRecord'
  BY <1>1 DEF NoRecord, Live
<1>3. ASSUME NEW u \in Vehicles, u # v, Live(u)', <<"transfer", u>> \notin overtaken'
      PROVE  Chain(u)'
  <2>1. /\ transfer'[u] = transfer[u] /\ vehicle'[u] = vehicle[u]
        /\ <<"transfer", u>> \notin overtaken /\ Live(u)
    BY <1>1, <1>3 DEF Live
  <2>2. Chain(u)
    BY <2>1 DEF TransfersChain, Chain
  <2> QED BY <2>1, <2>2 DEF Chain, Holder
<1>4. ASSUME <<"transfer", v>> \notin overtaken'
      PROVE  Chain(v)'
  <2> DEFINE old == transfer[v]
  <2>0. PICK k \in Nat : k = Len(old)
    BY <1>1
  <2>1. k \in Nat /\ Len(transfer'[v]) = k + 1
    BY <1>1, <2>0
  <2>2. transfer'[v][k + 1] = m /\ \A i \in 1..k : transfer'[v][i] = old[i]
    BY <1>1, <2>0
  <2>3. Chain(v) /\ vehicle[v].owner = m.from
    BY <1>4 DEF TransfersChain, Chain
  <2>4. \A i \in 0..k : Holder(v, i)' = Holder(v, i)
    <3> TAKE i \in 0..k
    <3>1. CASE i = 0
      BY <3>1 DEF Holder
    <3>2. CASE i # 0
      <4>1. i \in 1..k
        BY <2>1, <3>2
      <4>2. transfer'[v][i] = transfer[v][i]
        BY <2>2, <4>1
      <4>3. Holder(v, i) = transfer[v][i].to
        BY <3>2 DEF Holder
      <4>4. Holder(v, i)' = transfer'[v][i].to
        BY <3>2 DEF Holder
      <4> QED BY <4>2, <4>3, <4>4
    <3> QED BY <3>1, <3>2
  <2>5. m.from = Holder(v, k)
    BY <2>0, <2>3 DEF Chain
  <2>6. vehicle'[v].owner = Holder(v, k + 1)'
    BY <2>1, <2>2 DEF Holder
  <2>7. ASSUME NEW i \in 1..k + 1
        PROVE  /\ transfer'[v][i].from = Holder(v, i - 1)'
               /\ transfer'[v][i].from # transfer'[v][i].to
    <3>1. CASE i = k + 1
      <4>1. i - 1 = k /\ k \in 0..k
        BY <2>1, <3>1
      <4>2. Holder(v, i - 1)' = Holder(v, k)'
        BY <4>1
      <4> QED BY <2>2, <2>4, <2>5, <3>1, <4>1, <4>2
    <3>2. CASE i # k + 1
      <4>1. i \in 1..k /\ i - 1 \in 0..k
        BY <2>1, <3>2
      <4>2. old[i].from = Holder(v, i - 1) /\ old[i].from # old[i].to
        BY <2>0, <2>3, <4>1 DEF Chain
      <4> QED BY <2>2, <2>4, <4>1, <4>2
    <3> QED BY <3>1, <3>2
  <2> QED BY <2>1, <2>6, <2>7 DEF Chain
<1>5. ASSUME NEW u \in Vehicles, Live(u)', <<"transfer", u>> \notin overtaken'
      PROVE  Chain(u)'
  BY <1>3, <1>4, <1>5
<1> QED BY <1>2, <1>5 DEF TransfersChain, Chain

-----------------------------------------------------------------------------
(* Steps.                                                                  *)

LEMMA Parts ==
    /\ IInv <=> /\ vehicle \in [Vehicles -> VehicleRows] /\ history \in [Vehicles -> SUBSET Plates]
                /\ transfer \in [Vehicles -> Seq(Moves)]
                /\ req \in [Advisors -> Reqs]
                /\ \A a \in Advisors : req[a] \in Receptions => ReceptionOK(req[a])
                /\ NoRecord /\ TransfersChain /\ PlatesOnOneVehicle /\ CardsOK
    /\ (/\ vehicle' \in [Vehicles -> VehicleRows] /\ history' \in [Vehicles -> SUBSET Plates]
        /\ transfer' \in [Vehicles -> Seq(Moves)]
        /\ req' \in [Advisors -> Reqs]
        /\ \A a \in Advisors : req'[a] \in Receptions => ReceptionOK(req[a])'
        /\ NoRecord' /\ TransfersChain' /\ PlatesOnOneVehicle' /\ CardsOK') => IInv'
BY DEF IInv, TypeOK, CardsOK

LEMMA InitInv == Init => IInv
<1> SUFFICES ASSUME Init PROVE IInv
  OBVIOUS
<1>1. PICK s \in Scenarios :
         /\ phone = s.phone /\ vehicle = s.vehicle /\ budget = s.budget
         /\ history = [v \in Vehicles |-> {s.vehicle[v].plate} \intersect Plates]
  BY DEF Init
<1>2. /\ vehicle \in [Vehicles -> VehicleRows]
      /\ \A v, w \in Vehicles :
            vehicle[v].plate = vehicle[w].plate => vehicle[v].plate = None \/ v = w
      /\ \A v \in Vehicles : vehicle[v].first = vehicle[v].owner
  BY <1>1, IntakeAssumption
<1>3. history = [v \in Vehicles |-> {vehicle[v].plate} \intersect Plates]
  BY <1>1, <1>2
<1>4. history \in [Vehicles -> SUBSET Plates]
  BY <1>3
<1>5. transfer \in [Vehicles -> Seq(Moves)] /\ \A v \in Vehicles : transfer[v] = <<>>
  BY DEF Init
<1>6. NoRecord /\ TransfersChain
  <2>1. \A v \in Vehicles : Len(transfer[v]) = 0
    BY <1>5
  <2> QED BY <1>2, <1>5, <2>1 DEF NoRecord, TransfersChain, Holder
<1>7. PlatesOnOneVehicle
  <2>1. \A p \in Plates : p # None
    BY IntakeAssumption
  <2> QED BY <1>2, <1>3, <2>1 DEF PlatesOnOneVehicle, With
<1>8. req \in [Advisors -> Reqs] /\ \A a \in Advisors : req[a] \notin Receptions
  BY IdleIsNoReception DEF Init
<1>9. CardsOK
  <2>1. NoCard \in CardRows /\ NoBooking \in BookingRows
    BY DEF NoCard, NoBooking, CardRows, BookingRows
  <2>2. /\ card \in [Cards -> CardRows] /\ booking \in [Bookings -> BookingRows] /\ jobSeq = 0
        /\ \A j \in Cards : card[j].number = 0 /\ card[j].booking = None
        /\ \A b \in Bookings : booking[b].status = "none"
    BY <2>1 DEF Init, NoCard, NoBooking
  <2>3. \A b \in Bookings : b # None
    BY IntakeAssumption
  <2> QED BY <2>2, <2>3 DEF CardsOK, CardsAccountedFor
<1> QED BY <1>2, <1>4, <1>5, <1>6, <1>7, <1>8, <1>9, Parts

\* A step that writes to no vehicle.
LEMMA VehiclesSame ==
    ASSUME IInv, UNCHANGED <<vehicle, history, transfer>>, overtaken \subseteq overtaken',
           CardsOK',
           \/ UNCHANGED req
           \/ \E a \in Advisors : \E q \in Reqs : /\ req' = [req EXCEPT ![a] = q]
                                                  /\ q \in Receptions => ReceptionOK(q)'
    PROVE  IInv'
<1>1. PlatesOnOneVehicle' /\ NoRecord' /\ TransfersChain' /\ Onward
  BY PlatesSame, ChainKept DEF IInv, Onward, Live
<1>2. /\ req' \in [Advisors -> Reqs]
      /\ \A b \in Advisors : req'[b] \in Receptions => ReceptionOK(req[b])'
  <2>1. CASE UNCHANGED req
    BY <1>1, <2>1 DEF IInv, TypeOK, ReceptionOK, Onward, Live, Excused
  <2>2. CASE \E a \in Advisors : \E q \in Reqs : /\ req' = [req EXCEPT ![a] = q]
                                                 /\ q \in Receptions => ReceptionOK(q)'
    <3>1. PICK a \in Advisors : \E q \in Reqs : /\ req' = [req EXCEPT ![a] = q]
                                                /\ q \in Receptions => ReceptionOK(q)'
      BY <2>2
    <3>2. PICK q \in Reqs : /\ req' = [req EXCEPT ![a] = q]
                            /\ q \in Receptions => ReceptionOK(q)'
      BY <3>1
    <3> QED BY <1>1, <3>2, RequestsKept
  <2> QED BY <2>1, <2>2
<1> QED BY <1>1, <1>2, Parts

LEMMA TakeStep ==
    ASSUME IInv, NEW a \in Advisors, NEW f \in Forms, NEW v \in Vehicles \union {None},
           NEW go \in {"same", "owner", "release", "new"}, Take(a, f, go, v),
           UNCHANGED rowVars, v # None => Live(v), v = None <=> go = "new",
           go = "new" => With(f.plate) = {}
    PROVE  IInv'
<1>0. PICK q : q = [pc |-> "begin", form |-> f, go |-> go, on |-> v, seen |-> With(f.plate),
                     owner |-> None]
  OBVIOUS
<1>1. /\ req' = [req EXCEPT ![a] = q] /\ overtaken \subseteq overtaken'
      /\ v # None /\ vehicle[v].plate # f.plate => Excused(f.plate)'
  BY <1>0 DEF Take, Excused
<1>2. q \in Receptions /\ With(f.plate) \subseteq Vehicles
  BY <1>0 DEF Receptions, With
<1>3. f.plate \in Plates
  BY DEF Forms
<1>4. v # None => Excused(f.plate)' \/ With(f.plate) = {v}
  <2>1. Excused(f.plate) => Excused(f.plate)'
    BY <1>1 DEF Excused
  <2>2. v # None /\ vehicle[v].plate = f.plate => v \in With(f.plate)
    BY DEF With
  <2> QED BY <1>1, <1>3, <2>1, <2>2, FoundAlone DEF IInv
<1>5. ReceptionOK(q)'
  BY <1>0, <1>4 DEF ReceptionOK, Live, Excused, rowVars
<1>6. CardsOK' /\ UNCHANGED <<vehicle, history, transfer>> /\ q \in Reqs
  BY <1>2, CardsSame, Parts DEF rowVars, Reqs
<1> QED BY <1>1, <1>2, <1>5, <1>6, VehiclesSame

LEMMA FirstFacts ==
    ASSUME NEW S, NEW w \in First(S)
    PROVE  w \in S \/ (w = None /\ S = {})
BY DEF First

LEMMA SubmitStep ==
    ASSUME IInv, NEW a \in Advisors, NEW f \in Forms, Submit(a, f)
    PROVE  IInv'
<1>0. None \notin Vehicles
  BY IntakeAssumption
<1>1. CASE f.choice # "blank"
  <2>1. f.on \in Vehicles /\ Live(f.on) /\ Take(a, f, f.choice, f.on) /\ UNCHANGED rowVars
    BY <1>1 DEF Submit, Submittable
  <2>2. f.choice \in {"same", "owner", "release"}
    BY <1>1 DEF Forms, Choices
  <2> QED BY <1>0, <2>1, <2>2, TakeStep
<1>2. CASE f.choice = "blank"
  <2>1. Preflight(a, f) /\ UNCHANGED rowVars
    BY <1>2 DEF Submit
  <2>2. PICK w \in First(With(f.plate)), u \in First(Chassis(f.vin)) :
           \/ Owned(w, f.phone) /\ Take(a, f, "same", w)
           \/ ~Owned(w, f.phone) /\ f.vin # None /\ Owned(u, f.phone) /\ Take(a, f, "same", u)
           \/ /\ w = None /\ ~(f.vin # None /\ Owned(u, f.phone))
              /\ Take(a, f, "new", None)
    BY <2>1 DEF Preflight
  <2>3. /\ w # None => w \in Vehicles /\ Live(w)
        /\ u # None => u \in Vehicles /\ Live(u)
        /\ w = None => With(f.plate) = {}
    BY <1>0, <2>2, FirstFacts DEF With, Chassis
  <2>4. CASE Owned(w, f.phone) /\ Take(a, f, "same", w)
    BY <2>1, <2>3, <2>4, TakeStep DEF Owned
  <2>5. CASE Owned(u, f.phone) /\ Take(a, f, "same", u)
    BY <2>1, <2>3, <2>5, TakeStep DEF Owned
  <2>6. CASE w = None /\ Take(a, f, "new", None)
    BY <2>1, <2>3, <2>6, TakeStep
  <2> QED BY <2>2, <2>4, <2>5, <2>6
<1> QED BY <1>1, <1>2

LEMMA BeginStep ==
    ASSUME IInv, NEW a \in Advisors, Begin(a)
    PROVE  IInv'
<1>1. req[a] \in Reqs /\ vehicle \in [Vehicles -> VehicleRows]
  BY Parts
<1>2. req[a] \in Receptions
  BY <1>1, ReqKinds DEF Begin
<1>3. PICK c : /\ c = IF req[a].on = None THEN None ELSE vehicle[req[a].on].owner
               /\ req' = [req EXCEPT ![a] = [req[a] EXCEPT !.pc = "commit", !.owner = c]]
  BY DEF Begin
<1>4. c \in Customers \union {None}
  BY <1>1, <1>2, <1>3, ReceptionFacts DEF VehicleRows
<1>5. PICK q : q = [req[a] EXCEPT !.pc = "commit", !.owner = c]
  OBVIOUS
<1>6. /\ q \in Receptions /\ q.on = req[a].on /\ q.go = req[a].go
      /\ q.seen = req[a].seen /\ q.form = req[a].form
  BY <1>2, <1>4, <1>5 DEF Receptions
<1>7. req' = [req EXCEPT ![a] = q] /\ UNCHANGED <<vehicle, history, transfer, overtaken>>
  BY <1>3, <1>5 DEF Begin, rowVars
<1>8. ReceptionOK(q)'
  BY <1>2, <1>6, <1>7, Parts DEF ReceptionOK, Live, Excused
<1>9. CardsOK' /\ q \in Reqs
  BY <1>6, CardsSame, Parts DEF Begin, rowVars, Reqs
<1> QED BY <1>7, <1>8, <1>9, VehiclesSame

-----------------------------------------------------------------------------
(* The commits of a reception.                                             *)

LEMMA DescribeFacts ==
    ASSUME NEW row \in VehicleRows, NEW f, f.plate \in Plates, f.vin \in Vins \union {None}
    PROVE  /\ Describe(row, f) \in VehicleRows
           /\ Describe(row, f).owner = row.owner /\ Describe(row, f).plate = f.plate
           /\ Describe(row, f).first = row.first
           /\ \A o \in Customers : LET new == [Describe(row, f) EXCEPT !.owner = o] IN
                 /\ new \in VehicleRows /\ new.owner = o /\ new.plate = f.plate
                 /\ new.first = row.first
BY DEF Describe, VehicleRows

\* The end of a request excuses what was overtaken since its lookups, and nothing else.
LEMMA FinishFacts ==
    ASSUME NEW a \in Advisors, NEW moved \in BOOLEAN, Finish(a, moved),
           NEW p, p = req[a].form.plate, NEW v, v = req[a].on
    PROVE  /\ req' = [req EXCEPT ![a] = Idle] /\ UNCHANGED booking
           /\ overtaken \subseteq overtaken'
           /\ \/ Excused(p)'
              \/ /\ With(p) \subseteq req[a].seen
                 /\ req[a].go = "release" \/ v \notin req[a].seen \/ v \in With(p)
           /\ moved /\ vehicle[v].owner # req[a].owner => <<"transfer", v>> \in overtaken'
BY DEF Finish, Excused

\* What a reception knows when it commits.
LEMMA CommitFacts ==
    ASSUME IInv, NEW a \in Advisors, req[a].pc = "commit"
    PROVE  /\ req[a] \in Receptions
           /\ req[a].form.plate \in Plates /\ req[a].form.plate # None
           /\ req[a].form.vin \in Vins \union {None}
           /\ req[a].on \in Vehicles \union {None} /\ req[a].owner \in Customers \union {None}
           /\ req[a].go \in {"owner", "same", "release"}
                 => /\ req[a].on \in Vehicles /\ Live(req[a].on)
                    /\ Excused(req[a].form.plate) \/ req[a].seen = {req[a].on}
           /\ req[a].go = "new" => req[a].on = None /\ req[a].seen = {}
<1>1. req[a] \in Receptions /\ ReceptionOK(req[a])
  BY ReqKinds, Parts
<1>2. None \notin Vehicles
  BY IntakeAssumption
<1> QED BY <1>1, <1>2, ReceptionFacts DEF ReceptionOK

\* The vehicle of a form that is edited.
LEMMA EditKeeps ==
    ASSUME IInv, NEW a \in Advisors, req[a].pc = "commit", req[a].go \in {"owner", "same"},
           NEW moved \in BOOLEAN, Finish(a, moved), NEW row \in VehicleRows,
           row.owner # None, row.plate = req[a].form.plate,
           vehicle' = [vehicle EXCEPT ![req[a].on] = row], UNCHANGED history
    PROVE  /\ PlatesOnOneVehicle' /\ Onward
           /\ vehicle' \in [Vehicles -> VehicleRows] /\ history' \in [Vehicles -> SUBSET Plates]
           /\ vehicle'[req[a].on] = row
           /\ \A u \in Vehicles \ {req[a].on} : vehicle'[u] = vehicle[u]
<1>1. PICK v, p : v = req[a].on /\ p = req[a].form.plate
  OBVIOUS
<1>2. /\ v \in Vehicles /\ Live(v) /\ p \in Plates /\ (Excused(p) \/ req[a].seen = {v})
  BY <1>1, CommitFacts
<1>3. /\ overtaken \subseteq overtaken'
      /\ \/ Excused(p)'
         \/ With(p) \subseteq req[a].seen /\ (v \notin req[a].seen \/ v \in With(p))
  BY <1>1, FinishFacts
<1>4. Excused(p)' \/ vehicle[v].plate = p
  <2>1. Excused(p) => Excused(p)'
    BY <1>3 DEF Excused
  <2> QED BY <1>2, <1>3, <2>1 DEF With
<1>5. row.plate = p
  BY <1>1
<1>6. vehicle' = [vehicle EXCEPT ![v] = row] /\ vehicle \in [Vehicles -> VehicleRows]
  BY <1>1, Parts
<1>7. \A u \in Vehicles : vehicle'[u] = IF u = v THEN row ELSE vehicle[u]
  BY <1>6
<1>8. PlatesOnOneVehicle'
  BY <1>2, <1>3, <1>4, <1>5, <1>6, PlateRewritten DEF IInv
<1>9. Onward
  BY <1>3, <1>5, <1>7 DEF Onward, Live
<1>10. vehicle' \in [Vehicles -> VehicleRows] /\ history' \in [Vehicles -> SUBSET Plates]
  BY <1>5, <1>6, Parts
<1> QED BY <1>1, <1>2, <1>5, <1>7, <1>8, <1>9, <1>10

LEMMA EditOwnerStep ==
    ASSUME IInv, NEW a \in Advisors, EditOwner(a)
    PROVE  IInv'
<1>1. PICK f, v, from : f = req[a].form /\ v = req[a].on /\ from = req[a].owner
  OBVIOUS
<1>2. PICK c \in Customers :
         /\ transfer' = IF c = from THEN transfer
                        ELSE [transfer EXCEPT ![v] = Append(@, [from |-> from, to |-> c])]
         /\ vehicle' = [vehicle EXCEPT ![v] =
                IF c = from THEN Describe(@, f) ELSE [Describe(@, f) EXCEPT !.owner = c]]
         /\ Finish(a, c # from)
  BY <1>1 DEF EditOwner
<1>3. /\ req[a].pc = "commit" /\ req[a].go = "owner" /\ OpenCard(v) /\ UNCHANGED history
  BY <1>1 DEF EditOwner
<1>4. /\ v \in Vehicles /\ Live(v) /\ from \in Customers \union {None}
      /\ vehicle \in [Vehicles -> VehicleRows] /\ transfer \in [Vehicles -> Seq(Moves)]
  BY <1>1, <1>3, CommitFacts, Parts
<1>5. PICK row : row = IF c = from THEN Describe(vehicle[v], f)
                                   ELSE [Describe(vehicle[v], f) EXCEPT !.owner = c]
  OBVIOUS
<1>6. /\ row \in VehicleRows /\ row.plate = f.plate /\ row.owner # None
      /\ row.owner = (IF c = from THEN vehicle[v].owner ELSE c) /\ row.first = vehicle[v].first
  <2>1. f.plate \in Plates /\ f.vin \in Vins \union {None} /\ vehicle[v] \in VehicleRows
    BY <1>1, <1>3, <1>4, CommitFacts
  <2>2. vehicle[v].owner # None /\ c # None
    BY <1>4, IntakeAssumption DEF Live
  <2> QED BY <1>5, <2>1, <2>2, DescribeFacts
<1>7. vehicle' = [vehicle EXCEPT ![v] = row]
  BY <1>2, <1>5
<1>8. /\ PlatesOnOneVehicle' /\ Onward
      /\ vehicle' \in [Vehicles -> VehicleRows] /\ history' \in [Vehicles -> SUBSET Plates]
      /\ vehicle'[v] = row /\ \A u \in Vehicles \ {v} : vehicle'[u] = vehicle[u]
  BY <1>1, <1>2, <1>3, <1>6, <1>7, EditKeeps
<1>9. /\ req' = [req EXCEPT ![a] = Idle] /\ UNCHANGED booking /\ overtaken \subseteq overtaken'
      /\ c # from => <<"transfer", v>> \in overtaken' \/ vehicle[v].owner = from
  BY <1>1, <1>2, FinishFacts
<1>10. /\ req' \in [Advisors -> Reqs]
       /\ \A b \in Advisors : req'[b] \in Receptions => ReceptionOK(req[b])'
  BY <1>8, <1>9, RequestEnds
<1>11. CardsOK'
  BY <1>3, <1>4, <1>9, CardOpened, Parts
<1>12. NoRecord' /\ TransfersChain' /\ transfer' \in [Vehicles -> Seq(Moves)]
  <2>1. CASE c = from
    <3>1. /\ transfer' = transfer
          /\ \A u \in Vehicles : /\ vehicle'[u].owner = vehicle[u].owner
                                 /\ vehicle'[u].first = vehicle[u].first
      BY <1>2, <1>6, <1>8, <2>1
    <3> QED BY <1>4, <1>9, <3>1, ChainKept, Parts
  <2>2. CASE c # from
    <3>1. PICK m : m = [from |-> from, to |-> c]
      OBVIOUS
    <3>2. m \in Moves /\ m.from = from /\ m.to = c
      BY <1>4, <3>1 DEF Moves
    <3>3. transfer' = [transfer EXCEPT ![v] = Append(@, m)]
      BY <1>2, <2>2, <3>1
    <3>4. transfer' \in [Vehicles -> Seq(Moves)]
      <4>1. Append(transfer[v], m) \in Seq(Moves)
        BY <1>4, <3>2
      <4> QED BY <1>4, <3>3, <4>1
    <3>5. vehicle'[v].owner = m.to /\ vehicle'[v].first = vehicle[v].first /\ Live(v)'
      BY <1>6, <1>8, <2>2, <3>2 DEF Live
    <3> QED BY <1>4, <1>8, <1>9, <2>2, <3>2, <3>3, <3>4, <3>5, ChainGrows, Parts DEF IInv
  <2> QED BY <2>1, <2>2
<1> QED BY <1>8, <1>10, <1>11, <1>12, Parts

LEMMA RefreshStep ==
    ASSUME IInv, NEW a \in Advisors, Refresh(a)
    PROVE  IInv'
<1>1. PICK f, v : f = req[a].form /\ v = req[a].on
  OBVIOUS
<1>2. /\ req[a].pc = "commit" /\ req[a].go = "same" /\ OpenCard(v) /\ Finish(a, FALSE)
      /\ vehicle' = [vehicle EXCEPT ![v] = Describe(@, f)] /\ UNCHANGED <<history, transfer>>
  BY <1>1 DEF Refresh
<1>3. v \in Vehicles /\ Live(v) /\ vehicle \in [Vehicles -> VehicleRows]
  BY <1>1, <1>2, CommitFacts, Parts
<1>4. PICK row : row = Describe(vehicle[v], f)
  OBVIOUS
<1>5. /\ row \in VehicleRows /\ row.plate = f.plate /\ row.first = vehicle[v].first
      /\ row.owner = vehicle[v].owner /\ row.owner # None
  BY <1>1, <1>2, <1>3, <1>4, CommitFacts, DescribeFacts DEF Live
<1>6. /\ PlatesOnOneVehicle' /\ Onward
      /\ vehicle' \in [Vehicles -> VehicleRows] /\ history' \in [Vehicles -> SUBSET Plates]
      /\ vehicle'[v] = row /\ \A u \in Vehicles \ {v} : vehicle'[u] = vehicle[u]
  <2>1. vehicle' = [vehicle EXCEPT ![v] = row]
    BY <1>2, <1>4
  <2>2. Finish(a, FALSE) /\ FALSE \in BOOLEAN
    BY <1>2
  <2> QED BY <1>1, <1>2, <1>5, <2>1, <2>2, EditKeeps
<1>7. req' = [req EXCEPT ![a] = Idle] /\ UNCHANGED booking /\ overtaken \subseteq overtaken'
  BY <1>2, FinishFacts
<1>8. /\ req' \in [Advisors -> Reqs]
      /\ \A b \in Advisors : req'[b] \in Receptions => ReceptionOK(req[b])'
  BY <1>6, <1>7, RequestEnds
<1>9. CardsOK'
  BY <1>2, <1>3, <1>7, CardOpened, Parts
<1>10. NoRecord' /\ TransfersChain' /\ transfer' \in [Vehicles -> Seq(Moves)]
  <2>1. \A u \in Vehicles : /\ vehicle'[u].owner = vehicle[u].owner
                             /\ vehicle'[u].first = vehicle[u].first
    BY <1>5, <1>6
  <2> QED BY <1>2, <1>7, <2>1, ChainKept, Parts
<1> QED BY <1>6, <1>8, <1>9, <1>10, Parts

LEMMA PhoneTakenStep ==
    ASSUME IInv, NEW a \in Advisors, PhoneTaken(a)
    PROVE  IInv'
<1>1. /\ req' = [req EXCEPT ![a] = Idle] /\ UNCHANGED <<vehicle, history, transfer, overtaken>>
      /\ UNCHANGED <<card, jobSeq, booking>>
  BY DEF PhoneTaken, rowVars
<1>2. Idle \in Reqs /\ Idle \notin Receptions /\ CardsOK'
  BY <1>1, IdleIsNoReception, CardsSame, Parts
<1> HIDE DEF Idle
<1> QED BY <1>1, <1>2, VehiclesSame

LEMMA RegisterStep ==
    ASSUME IInv, NEW a \in Advisors, Register(a)
    PROVE  IInv'
<1>1. PICK f, old, p : f = req[a].form /\ old = req[a].on /\ p = req[a].form.plate
  OBVIOUS
<1>2. PICK c \in Customers, v \in Vehicles :
          /\ ~Live(v)
          /\ vehicle' = [u \in Vehicles |->
                 CASE u = v   -> Registered(c, f.plate, f.vin)
                   [] u = old -> [vehicle[u] EXCEPT !.plate = None]
                   [] OTHER   -> vehicle[u]]
          /\ history' = [u \in Vehicles |-> CASE u = v   -> {f.plate}
                                              [] u = old -> {}
                                              [] OTHER   -> history[u]]
          /\ OpenCard(v)
  BY <1>1 DEF Register
<1>3. /\ req[a].pc = "commit" /\ req[a].go \in {"release", "new"} /\ Finish(a, FALSE)
      /\ UNCHANGED transfer
  BY DEF Register
<1>4. /\ p \in Plates /\ f.plate = p /\ f.vin \in Vins \union {None} /\ c # None
      /\ old \in Vehicles \union {None} /\ (old # None => Live(old))
      /\ Excused(p) \/ req[a].seen \subseteq {old}
      /\ vehicle \in [Vehicles -> VehicleRows] /\ history \in [Vehicles -> SUBSET Plates]
      /\ None \notin Vehicles
  BY <1>1, <1>3, CommitFacts, Parts, IntakeAssumption
<1>5. old # v
  BY <1>2, <1>4
<1>6. /\ req' = [req EXCEPT ![a] = Idle] /\ UNCHANGED booking /\ overtaken \subseteq overtaken'
      /\ Excused(p)' \/ With(p) \subseteq req[a].seen
  BY <1>1, <1>3, FinishFacts
<1>7. /\ vehicle'[v] = Registered(c, p, f.vin) /\ history'[v] = {p}
      /\ old \in Vehicles => /\ vehicle'[old] = [vehicle[old] EXCEPT !.plate = None]
                             /\ history'[old] = {}
      /\ \A u \in Vehicles \ {v, old} : vehicle'[u] = vehicle[u] /\ history'[u] = history[u]
  BY <1>2, <1>4, <1>5
<1>8. Excused(p)' \/ (With(p) \subseteq {old} /\ history'[v] = {p})
  <2>1. Excused(p) => Excused(p)'
    BY <1>6 DEF Excused
  <2> QED BY <1>4, <1>6, <1>7, <2>1
<1>9. /\ vehicle'[v].plate = p /\ vehicle'[v].owner = c /\ vehicle'[v].first = c
      /\ old \in Vehicles => /\ vehicle'[old].plate = None /\ vehicle'[old].owner = vehicle[old].owner
                             /\ vehicle'[old].first = vehicle[old].first
  BY <1>4, <1>7 DEF VehicleRows, Registered
<1>10. PlatesOnOneVehicle'
  <2>1. \A u \in Vehicles \ {v} :
            IF u = old THEN vehicle'[u].plate = None /\ history'[u] = {}
                       ELSE vehicle'[u] = vehicle[u] /\ history'[u] = history[u]
    BY <1>7, <1>9
  <2>2. p # None /\ TypeOK /\ PlatesOnOneVehicle
    BY <1>4, IntakeAssumption DEF IInv
  <2> HIDE DEF TypeOK
  <2> QED BY <1>2, <1>4, <1>5, <1>6, <1>8, <1>9, <2>1, <2>2, PlateRegistered
<1>11. \A u \in Vehicles :
          \/ vehicle'[u].owner = vehicle[u].owner /\ vehicle'[u].first = vehicle[u].first
          \/ ~Live(u) /\ Live(u)' /\ vehicle'[u].owner = vehicle'[u].first
  BY <1>2, <1>4, <1>7, <1>9 DEF Live
<1>12. NoRecord' /\ TransfersChain' /\ Onward /\ transfer' \in [Vehicles -> Seq(Moves)]
  BY <1>3, <1>6, <1>11, ChainKept, Parts DEF Onward, Live
<1>13. vehicle' \in [Vehicles -> VehicleRows]
  <2>1. Registered(c, p, f.vin) \in VehicleRows
    BY <1>4 DEF VehicleRows, Registered
  <2>2. old \in Vehicles => vehicle'[old] \in VehicleRows
    BY <1>4, <1>7 DEF VehicleRows
  <2>3. \A u \in Vehicles : vehicle'[u] \in VehicleRows
    BY <1>4, <1>7, <2>1, <2>2
  <2>4. vehicle' = [u \in Vehicles |-> vehicle'[u]]
    BY <1>2
  <2> QED BY <2>3, <2>4
<1>14. history' \in [Vehicles -> SUBSET Plates]
  <2>1. \A u \in Vehicles : history'[u] \in SUBSET Plates
    BY <1>4, <1>7
  <2>2. history' = [u \in Vehicles |-> history'[u]]
    BY <1>2
  <2> QED BY <2>1, <2>2
<1>15. CardsOK'
  BY <1>2, <1>6, CardOpened, Parts
<1>16. /\ req' \in [Advisors -> Reqs]
       /\ \A b \in Advisors : req'[b] \in Receptions => ReceptionOK(req[b])'
  BY <1>6, <1>12, RequestEnds
<1> QED BY <1>10, <1>12, <1>13, <1>14, <1>15, <1>16, Parts

-----------------------------------------------------------------------------
(* Bookings, and the theorems.                                             *)

LEMMA BookStep ==
    ASSUME IInv, NEW a \in Advisors, NEW n \in Phones, NEW p \in Typed, Book(a, n, p)
    PROVE  IInv'
<1>1. PICK c \in Customers :
         req' = [req EXCEPT ![a] = [pc |-> "book", customer |-> c, plate |-> p,
                   found |-> {v \in With(p) : vehicle[v].owner = c}]]
  BY DEF Book
<1>2. PICK q : q = [pc |-> "book", customer |-> c, plate |-> p,
                    found |-> {v \in With(p) : vehicle[v].owner = c}]
  OBVIOUS
<1>3. q \in Bookers /\ q.pc = "book"
  BY <1>2 DEF Bookers, With
<1>4. q \in Reqs /\ q \notin Receptions
  BY <1>3 DEF Reqs, Receptions
<1>5. req' = [req EXCEPT ![a] = q] /\ UNCHANGED <<vehicle, history, transfer, overtaken>>
  BY <1>1, <1>2 DEF Book
<1>6. CardsOK'
  BY CardsSame, Parts DEF Book
<1> QED BY <1>4, <1>5, <1>6, VehiclesSame

LEMMA ProposeCards ==
    ASSUME CardsOK, NEW v \in Vehicles, Propose(v) \/ UNCHANGED booking, UNCHANGED <<card, jobSeq>>
    PROVE  CardsOK'
<1>1. CASE UNCHANGED booking
  BY <1>1, CardsSame
<1>2. CASE Propose(v)
  <2>1. PICK b \in Bookings :
           /\ booking[b] = NoBooking
           /\ booking' = [booking EXCEPT ![b] = [status |-> "PROPOSED", vehicle |-> v]]
    BY <1>2 DEF Propose
  <2>2. PICK row : row = [status |-> "PROPOSED", vehicle |-> v]
    OBVIOUS
  <2>3. row \in BookingRows /\ row.status # "CONFIRMED" /\ booking[b].status # "CONFIRMED"
    BY <2>1, <2>2 DEF BookingRows, NoBooking
  <2> QED BY <2>1, <2>2, <2>3, BookingAnswered
<1> QED BY <1>1, <1>2

LEMMA BookVehicleStep ==
    ASSUME IInv, NEW a \in Advisors, BookVehicle(a)
    PROVE  IInv'
<1>1. PICK v \in Vehicles :
         /\ IF req[a].found # {}
               THEN v \in req[a].found /\ UNCHANGED <<vehicle, overtaken>>
               ELSE /\ ~Live(v)
                    /\ vehicle' = [vehicle EXCEPT ![v] =
                                      Registered(req[a].customer, req[a].plate, None)]
                    /\ overtaken' = overtaken \union {<<"booked", req[a].plate>>}
         /\ req' = [req EXCEPT ![a] = [pc |-> "propose", on |-> v]]
  BY DEF BookVehicle
<1>2. PICK q : q = [pc |-> "propose", on |-> v]
  OBVIOUS
<1>3. q \in Reqs /\ q \notin Receptions
  <2>1. q \in Proposers /\ q.pc = "propose"
    BY <1>2 DEF Proposers
  <2> QED BY <2>1 DEF Reqs, Receptions
<1>4. /\ req' = [req EXCEPT ![a] = q] /\ UNCHANGED <<history, transfer, card, jobSeq, booking>>
      /\ req[a].pc = "book" /\ req[a] \in Reqs /\ vehicle \in [Vehicles -> VehicleRows]
  BY <1>1, <1>2, Parts DEF BookVehicle
<1>5. CardsOK'
  BY <1>4, CardsSame, Parts
<1>6. CASE req[a].found # {}
  BY <1>1, <1>3, <1>4, <1>5, <1>6, VehiclesSame
<1>7. CASE req[a].found = {}
  <2>1. PICK c, p, row : /\ c = req[a].customer /\ p = req[a].plate
                         /\ row = Registered(c, p, None)
    OBVIOUS
  <2>2. c \in Customers /\ p \in Typed /\ c # None /\ p # None
    BY <1>4, <2>1, ReqKinds, IntakeAssumption DEF Bookers
  <2>3. row \in VehicleRows /\ row.owner = c /\ row.plate = p /\ row.first = c
    BY <2>1, <2>2 DEF VehicleRows, Registered
  <2>4. /\ vehicle' = [vehicle EXCEPT ![v] = row] /\ ~Live(v)
        /\ overtaken' = overtaken \union {<<"booked", p>>}
    BY <1>1, <1>7, <2>1
  <2>5. vehicle' \in [Vehicles -> VehicleRows] /\ vehicle'[v] = row
        /\ \A u \in Vehicles \ {v} : vehicle'[u] = vehicle[u]
    BY <1>4, <2>3, <2>4
  <2>6. overtaken \subseteq overtaken' /\ Excused(p)'
    BY <2>4 DEF Excused
  <2>7. PlatesOnOneVehicle'
    <3>1. None \in Vehicles \union {None} /\ None # v /\ \A u \in Vehicles : u # None
      BY IntakeAssumption
    <3> QED BY <1>4, <2>2, <2>3, <2>4, <2>5, <2>6, <3>1, PlateRegistered DEF IInv
  <2>8. NoRecord' /\ TransfersChain' /\ Onward
    <3>1. \A u \in Vehicles :
             \/ vehicle'[u].owner = vehicle[u].owner /\ vehicle'[u].first = vehicle[u].first
             \/ ~Live(u) /\ Live(u)' /\ vehicle'[u].owner = vehicle'[u].first
      BY <2>2, <2>3, <2>4, <2>5 DEF Live
    <3> QED BY <1>4, <2>6, <3>1, ChainKept, Parts DEF Onward, Live
  <2>9. /\ req' \in [Advisors -> Reqs]
        /\ \A b \in Advisors : req'[b] \in Receptions => ReceptionOK(req[b])'
    BY <1>3, <1>4, <2>8, RequestsKept
  <2> QED BY <1>4, <1>5, <2>5, <2>7, <2>8, <2>9, Parts
<1> QED BY <1>6, <1>7

LEMMA BookWriteStep ==
    ASSUME IInv, NEW a \in Advisors, BookWrite(a)
    PROVE  IInv'
<1>1. PICK v : v = req[a].on
  OBVIOUS
<1>2. v \in Vehicles
  <2>1. req[a] \in Proposers
    BY ReqKinds, Parts DEF BookWrite
  <2> QED BY <1>1, <2>1 DEF Proposers
<1>3. CardsOK'
  BY <1>1, <1>2, ProposeCards, Parts DEF BookWrite
<1>4. req' = [req EXCEPT ![a] = Idle] /\ UNCHANGED <<vehicle, history, transfer, overtaken>>
  BY DEF BookWrite
<1>5. Idle \in Reqs /\ Idle \notin Receptions
  BY IdleIsNoReception
<1> HIDE DEF Idle
<1> QED BY <1>3, <1>4, <1>5, VehiclesSame

LEMMA ConfirmReadStep ==
    ASSUME IInv, NEW a \in Advisors, NEW b \in Bookings, ConfirmRead(a, b)
    PROVE  IInv'
<1>1. PICK q : q = [pc |-> "confirm", booking |-> b]
  OBVIOUS
<1>2. q \in Confirmers /\ q.pc = "confirm"
  BY <1>1 DEF Confirmers
<1>3. q \in Reqs /\ q \notin Receptions
  BY <1>2 DEF Reqs, Receptions
<1>4. /\ req' = [req EXCEPT ![a] = q] /\ UNCHANGED <<vehicle, history, transfer, overtaken>>
      /\ UNCHANGED <<card, jobSeq, booking>>
  BY <1>1 DEF ConfirmRead, rowVars
<1>5. CardsOK'
  BY <1>4, CardsSame, Parts
<1> QED BY <1>3, <1>4, <1>5, VehiclesSame

LEMMA ConfirmStep ==
    ASSUME IInv, NEW a \in Advisors, Confirm(a)
    PROVE  IInv'
<1>1. PICK b : b = req[a].booking
  OBVIOUS
<1>2. b \in Bookings
  <2>1. req[a] \in Confirmers
    BY ReqKinds, Parts DEF Confirm
  <2> QED BY <1>1, <2>1 DEF Confirmers
<1>3. CardsOK'
  <2>1. CASE \E j \in Cards : card[j].booking = b
    BY <1>1, <2>1, CardsSame, Parts DEF Confirm
  <2>2. CASE ~\E j \in Cards : card[j].booking = b
    <3>1. PICK j \in Cards :
             /\ card[j] = NoCard
             /\ card' = [card EXCEPT ![j] = [vehicle |-> booking[b].vehicle, number |-> 0,
                                             booking |-> b]]
      BY <1>1, <2>2 DEF Confirm
    <3>2. booking' = [booking EXCEPT ![b].status = "CONFIRMED"] /\ UNCHANGED jobSeq
      BY <1>1, <2>2 DEF Confirm
    <3> QED BY <1>2, <2>2, <3>1, <3>2, CardOfBooking, Parts
  <2> QED BY <2>1, <2>2
<1>4. req' = [req EXCEPT ![a] = Idle] /\ UNCHANGED <<vehicle, history, transfer, overtaken>>
  BY DEF Confirm
<1>5. Idle \in Reqs /\ Idle \notin Receptions
  BY IdleIsNoReception
<1> HIDE DEF Idle
<1> QED BY <1>3, <1>4, <1>5, VehiclesSame

\* Steps that leave the vehicles and the requests alone.
LEMMA OtherStep ==
    ASSUME IInv, UNCHANGED <<vehicle, history, transfer, req, overtaken>>,
           \/ \E b \in Bookings : Reject(b)
           \/ \E v \in Vehicles : CreateJobCard(v)
           \/ UNCHANGED <<card, jobSeq, booking>>
    PROVE  IInv'
<1>1. CASE \E b \in Bookings : Reject(b)
  <2>1. PICK b \in Bookings : Reject(b)
    BY <1>1
  <2>2. PICK row : row = [booking[b] EXCEPT !.status = "REJECTED"]
    OBVIOUS
  <2>3. booking[b] \in BookingRows
    BY Parts DEF CardsOK
  <2>4. row \in BookingRows /\ row.status # "CONFIRMED"
    BY <2>2, <2>3 DEF BookingRows
  <2>5. booking[b].status # "CONFIRMED" /\ booking' = [booking EXCEPT ![b] = row]
    BY <2>1, <2>2 DEF Reject
  <2>6. CardsOK'
    BY <2>1, <2>4, <2>5, BookingAnswered, Parts DEF Reject
  <2> QED BY <2>6, VehiclesSame
<1>2. CASE \E v \in Vehicles : CreateJobCard(v)
  <2>1. PICK v \in Vehicles : CreateJobCard(v)
    BY <1>2
  <2>2. PICK j \in Cards : card' = [card EXCEPT ![j].vehicle = v]
    BY <2>1 DEF CreateJobCard
  <2>3. CardsOK'
    BY <2>1, <2>2, CardOfVehicle, Parts DEF CreateJobCard
  <2> QED BY <2>3, VehiclesSame
<1>3. CASE UNCHANGED <<card, jobSeq, booking>>
  <2>1. CardsOK'
    BY <1>3, CardsSame, Parts
  <2> QED BY <2>1, VehiclesSame
<1> QED BY <1>1, <1>2, <1>3

LEMMA StepInv == IInv /\ Next => IInv'
<1> SUFFICES ASSUME IInv, Next PROVE IInv'
  OBVIOUS
<1>1. CASE \E b \in Bookings : Reject(b)
  BY <1>1, OtherStep DEF Reject
<1>2. CASE \E v \in Vehicles : CreateJobCard(v)
  BY <1>2, OtherStep DEF CreateJobCard
<1>3. CASE \E c \in Customers, n \in Phones : UpdateCustomer(c, n)
  BY <1>3, OtherStep DEF UpdateCustomer
<1> QED BY <1>1, <1>2, <1>3, SubmitStep, BeginStep, EditOwnerStep, RefreshStep, PhoneTakenStep,
           RegisterStep, BookStep, BookVehicleStep, BookWriteStep, ConfirmReadStep, ConfirmStep DEF Next

\* The chat shares the customers and vehicles of the reception and changes nothing of
\* it but the phone of a customer it makes.
LEMMA FrontStepInv == IInv /\ [FrontNext]_frontVars => IInv'
<1> SUFFICES ASSUME IInv, [FrontNext]_frontVars PROVE IInv'
  OBVIOUS
<1>1. CASE Reception
  BY <1>1, StepInv DEF Reception
<1>2. CASE ~Reception
  <2>1. UNCHANGED deskVars
    BY <1>2 DEF FrontNext, frontVars, vars, rowVars, deskVars, WebhookStep, AdvisorStep, Webhook,
       FindCustomer, CreateCustomer, OpenThread, Seen, Record, QueueDraft, SetStatus, Post,
       PostFails, KillChat, Approve, DeleteDraft, Manual, ScheduleRead, Schedule, MarkSent,
       SendReminder, SetMode, Discard, CancelReminder
  <2> QED BY <2>1, OtherStep DEF deskVars
<1> QED BY <1>1, <1>2

\* The invariant of the reception holds whatever the receptions, bookings, answers and
\* chats that overlap, for any number of customers, vehicles, cards and requests.
THEOREM ReceptionHolds == FrontSpec => []IInv
<1>1. FrontInit => IInv
  BY InitInv DEF FrontInit
<1> QED BY <1>1, FrontStepInv, PTL DEF FrontSpec

\* A plate stays on one vehicle, the one whose open history row says so, unless the
\* requests overlapped, a booking wrote it, or a form wrote over the vehicle's own.
THEOREM PlatesStayOnOneVehicle == FrontSpec => []PlatesOnOneVehicle
<1>1. IInv => PlatesOnOneVehicle
  BY DEF IInv
<1> QED BY <1>1, ReceptionHolds, PTL

\* No change of hands is off the record, unless two advisors moved the car at once.
THEOREM TransfersAlwaysChain == FrontSpec => []TransfersChain
<1>1. IInv => TransfersChain
  BY DEF IInv
<1> QED BY <1>1, ReceptionHolds, PTL

\* Job card numbers have no gap, and a booking has one card exactly when it is confirmed.
THEOREM CardsAlwaysAccountedFor == FrontSpec => []CardsAccountedFor
<1>1. IInv => CardsAccountedFor
  BY DEF IInv
<1> QED BY <1>1, ReceptionHolds, PTL

-----------------------------------------------------------------------------
(***************************************************************************)
(* The chat loses nothing and says nothing twice.                          *)
(***************************************************************************)

Modes      == {"BOT", "HUMAN"}
Answerings == {"customer", "create", "thread", "seen", "record"}
Planned    == {"post", "draft", "open", "flag"}
CallNames  == Answerings \union Planned \union {"delete", "mark", "schedule"}
Calls      == [call: CallNames, what: Texts \union {"none"}]
ThreadRows == [customer: Customers \union {None}, mode: Modes,
               status: {"OPEN", "NEEDS_HUMAN"}]
ReminderRows == [status: {"NONE", "SCHEDULED", "SENT", "CANCELLED"},
                 vehicle: Vehicles \union {None}]

\* A request's locals, whatever the number.
TalkType(t) ==
    t \in [todo: Seq(Calls), mail: Seq(Messages), item: SUBSET Items, number: {t.number},
           customer: Customers \union {None}, mode: Modes, vehicle: Vehicles \union {None}]

ChatTypeOK ==
    /\ thread \in [Phones -> ThreadRows] /\ inbox \in [Messages -> Modes \union {None}]
    /\ draft \subseteq Messages \X Texts /\ posted \in [Items -> Nat]
    /\ reminder \in [Reminders -> ReminderRows]
    /\ \A r \in Reminders : reminder[r].status = "SCHEDULED" => reminder[r].vehicle # None
    /\ talk = [w \in Workers |-> talk[w]]

\* The lists of calls: of a webhook before it knows what to answer, ...
Preparing(todo) == \E name \in Answerings : todo = <<Call(name)>>

\* ... of the receptionist, who owes each text once, ...
Tidy(todo) ==
    /\ todo # <<>>
    /\ \A i \in 1..Len(todo) : /\ todo[i].call \in Planned
                               /\ todo[i].what = "none" <=> todo[i].call \in {"open", "flag"}
    /\ \A i, j \in 1..Len(todo) : todo[i].what = todo[j].what => todo[i].what = "none" \/ i = j

\* ... and of a request about a draft or a reminder.
After(x) == IF x \in Reminders THEN "mark" ELSE "delete"

\* What a request is: at rest, one that schedules, one about a draft or a reminder, one
\* that takes messages in, or one of an advisor who writes himself.
Scheduling(t) == /\ t.vehicle # None /\ t.todo = <<Call("schedule")>>
                 /\ t.mail = <<>> /\ t.item = {}
Handling(t) == /\ t.vehicle = None /\ t.mail = <<>>
               /\ \E x \in Items : /\ t.item = {x}
                                   /\ \/ t.todo = <<Call("post"), Call(After(x))>>
                                      \/ t.todo = <<Call(After(x))>>
Receiving(t) == /\ t.vehicle = None /\ t.mail # <<>> /\ t.item = {}
                /\ Preparing(t.todo) \/ Tidy(t.todo)
Writing(t) == /\ t.vehicle = None /\ t.mail = <<>> /\ t.item = {}
              /\ t.todo = <<Call("post"), Call("open")>> \/ t.todo = <<Call("open")>>

Kinds(t) == t = Rest \/ Scheduling(t) \/ Handling(t) \/ Receiving(t) \/ Writing(t)
Shape(t) == TalkType(t) /\ Kinds(t)

\* A webhook past its preparations has put its message on record.
WorkerOK(w) ==
    /\ Shape(talk[w])
    /\ talk[w].mail # <<>> => Preparing(talk[w].todo) \/ inbox[Message(w)] # None

Owed(todo)    == {c.what : c \in Range(todo)} \ {"none"}
Owing(t, it)  == t.mail # <<>> /\ it[1] = Head(t.mail) /\ it[2] \in Owed(t.todo)
Sending(t, x) == x \in t.item /\ Head(t.todo).call = "post"
Owes(w, it)   == Owing(talk[w], it)
Posts(w, x)   == Sending(talk[w], x)

\* What excuses a text or reminder, and a message.
Faults  == {"met", "failed", "killed"}
Drops   == {"killed", "failed", "raced"}

\* A text is owed by one request at most, and then neither out nor drafted; what it
\* depends on is on record.  Unless excused, it is out once, and only one approval is
\* about it.
TextOK(it) ==
    /\ (\E w \in Workers : Owes(w, it)) \/ posted[it] > 0 \/ it \in draft \/ About(it) # {}
           => inbox[it[1]] # None /\ (inbox[it[1]] = "HUMAN" => Lapsed({"turned"}, it[1]))
    /\ \A w, q \in Workers : Owes(w, it) /\ Owes(q, it) => w = q
    /\ \A w \in Workers : Owes(w, it) => posted[it] = 0 /\ it \notin draft /\ About(it) = {}
    /\ \A w \in About(it) : Posts(w, it) \/ posted[it] > 0
    /\ ~Lapsed(Faults, it) =>
          /\ posted[it] <= 1
          /\ \A w, q \in About(it) : w = q
          /\ \A w \in About(it) : Posts(w, it) => posted[it] = 0
          /\ posted[it] = 1 /\ it \in draft => About(it) # {}

ReminderOK(r) ==
    /\ reminder[r].status = "SENT" => posted[r] > 0
    /\ \A w \in About(r) : Posts(w, r) \/ posted[r] > 0
    /\ ~Lapsed(Faults, r) =>
          /\ posted[r] <= 1
          /\ \A w, q \in About(r) : w = q
          /\ \A w \in About(r) : /\ reminder[r].status = "SCHEDULED"
                                 /\ Posts(w, r) => posted[r] = 0
          /\ posted[r] = 1 => About(r) # {} \/ reminder[r].status = "SENT"

\* Unless two requests about it met, a vehicle has at most one reminder due or to be.
VehicleOK(v) ==
    Lapsed({"met"}, v) \/
        /\ \A w, q \in Workers : talk[w].vehicle = v /\ talk[q].vehicle = v => w = q
        /\ \A w \in Workers : talk[w].vehicle = v => DueFor(v) = {}
        /\ \A r, s \in DueFor(v) : r = s

\* What was delivered is on record or still in a payload; what the receptionist is to
\* answer is answered or owed.
MessageOK(m) ==
    Lapsed(Drops, m) \/
        /\ Lapsed({"delivered"}, m) => inbox[m] # None \/ \E w \in Workers : m \in Mail(w)
        /\ inbox[m] = "BOT" /\ ~Lapsed({"turned"}, m) =>
              \/ Answered(m)
              \/ \E w \in Workers, text \in Texts : Owes(w, <<m, text>>)

ChatOK ==
    /\ ChatTypeOK /\ \A w \in Workers : WorkerOK(w)
    /\ \A m \in Messages : MessageOK(m)
    /\ \A it \in Messages \X Texts : TextOK(it)
    /\ \A r \in Reminders : ReminderOK(r)
    /\ \A v \in Vehicles : VehicleOK(v)

-----------------------------------------------------------------------------
(* Sequences, calls and requests.                                          *)

LEMMA HeadInRange ==
    ASSUME NEW S, NEW s \in Seq(S), s # <<>>
    PROVE  /\ Head(s) \in S /\ Tail(s) \in Seq(S) /\ Head(s) \in Range(s)
           /\ Range(s) = {Head(s)} \union Range(Tail(s))
           /\ Len(s) \in Nat /\ Len(s) > 0 /\ Head(s) = s[1]
           /\ Tail(s) = <<>> <=> Len(s) = 1
<1>1. /\ Head(s) \in S /\ Tail(s) \in Seq(S) /\ Len(Tail(s)) = Len(s) - 1
      /\ \A i \in 1..Len(Tail(s)) : Tail(s)[i] = s[i + 1]
  BY HeadTailProperties
<1>2. Len(s) \in Nat /\ Len(s) > 0 /\ Head(s) = s[1] /\ DOMAIN s = 1..Len(s)
  OBVIOUS
<1>3. DOMAIN Tail(s) = 1..Len(Tail(s))
  BY <1>1
<1>4. ASSUME NEW i \in 1..Len(s) PROVE s[i] \in {Head(s)} \union Range(Tail(s))
  <2>1. CASE i = 1
    BY <1>2, <2>1
  <2>2. CASE i # 1
    <3>1. i - 1 \in 1..Len(Tail(s)) /\ Tail(s)[i - 1] = s[i]
      BY <1>1, <1>2, <2>2
    <3> QED BY <1>3, <3>1 DEF Range
  <2> QED BY <2>1, <2>2
<1>5. ASSUME NEW i \in 1..Len(Tail(s)) PROVE Tail(s)[i] \in Range(s)
  <2>1. i + 1 \in DOMAIN s
    BY <1>1, <1>2
  <2> QED BY <1>1, <2>1 DEF Range
<1>6. Head(s) \in Range(s)
  <2>1. 1 \in DOMAIN s
    BY <1>2
  <2> QED BY <1>2, <2>1 DEF Range
<1>7. Range(s) = {Head(s)} \union Range(Tail(s))
  <2>1. Range(s) \subseteq {Head(s)} \union Range(Tail(s))
    BY <1>2, <1>4 DEF Range
  <2>2. Range(Tail(s)) \subseteq Range(s)
    BY <1>3, <1>5 DEF Range
  <2> QED BY <1>6, <2>1, <2>2
<1>8. Tail(s) = <<>> <=> Len(s) = 1
  BY <1>1, <1>2, EmptySeq
<1> QED BY <1>1, <1>2, <1>6, <1>7, <1>8

LEMMA EmptyRange == Range(<<>>) = {}
BY DEF Range

\* A list of one call, or of two.
LEMMA OneCall ==
    ASSUME NEW c \in Calls
    PROVE  /\ <<c>> \in Seq(Calls) /\ <<c>> # <<>> /\ Head(<<c>>) = c /\ Len(<<c>>) = 1
           /\ Tail(<<c>>) = <<>> /\ Range(<<c>>) = {c}
<1>1. <<c>> \in Seq(Calls) /\ <<c>> # <<>> /\ Len(<<c>>) = 1 /\ Head(<<c>>) = c
  OBVIOUS
<1>2. Tail(<<c>>) = <<>>
  BY <1>1, HeadInRange
<1> QED BY <1>1, <1>2, HeadInRange, EmptyRange

LEMMA CallFacts ==
    /\ \A name \in CallNames : /\ Call(name) \in Calls /\ Call(name).call = name
                               /\ Call(name).what = "none"
    /\ \A name \in CallNames, text \in Texts : /\ Do(name, text) \in Calls
                                               /\ Do(name, text).call = name
                                               /\ Do(name, text).what = text
    /\ "none" \notin Texts
BY DEF Call, Do, Calls, Texts

\* A list of calls that say nothing owes nothing.
LEMMA OwedByNone ==
    ASSUME NEW todo, \A c \in Range(todo) : c.what = "none"
    PROVE  Owed(todo) = {}
BY DEF Owed

LEMMA SingleCall ==
    ASSUME NEW name \in CallNames
    PROVE  /\ <<Call(name)>> \in Seq(Calls) /\ <<Call(name)>> # <<>>
           /\ Head(<<Call(name)>>).call = name /\ Head(<<Call(name)>>).what = "none"
           /\ Len(<<Call(name)>>) = 1 /\ Owed(<<Call(name)>>) = {}
<1>1. Call(name) \in Calls /\ Call(name).call = name /\ Call(name).what = "none"
  BY CallFacts
<1>2. \A c \in Range(<<Call(name)>>) : c.what = "none"
  BY <1>1, OneCall
<1> QED BY <1>1, <1>2, OneCall, OwedByNone

LEMMA PairOfCalls ==
    ASSUME NEW c \in Calls, NEW d \in Calls
    PROVE  /\ <<c, d>> \in Seq(Calls) /\ <<c, d>> # <<>> /\ Head(<<c, d>>) = c
           /\ Len(<<c, d>>) = 2 /\ Tail(<<c, d>>) = <<d>> /\ Range(<<c, d>>) = {c, d}
<1>1. /\ <<c, d>> \in Seq(Calls) /\ <<c, d>> # <<>> /\ Head(<<c, d>>) = c
      /\ Len(<<c, d>>) = 2 /\ Tail(<<c, d>>) = <<d>>
  OBVIOUS
<1>2. Range(<<c, d>>) = {c} \union Range(<<d>>)
  BY <1>1, HeadInRange
<1> QED BY <1>1, <1>2, OneCall

LEMMA TwoCalls ==
    ASSUME NEW one \in CallNames, NEW two \in CallNames
    PROVE  /\ <<Call(one), Call(two)>> \in Seq(Calls) /\ <<Call(one), Call(two)>> # <<>>
           /\ Head(<<Call(one), Call(two)>>).call = one
           /\ Head(<<Call(one), Call(two)>>).what = "none"
           /\ Len(<<Call(one), Call(two)>>) = 2
           /\ Tail(<<Call(one), Call(two)>>) = <<Call(two)>>
           /\ Owed(<<Call(one), Call(two)>>) = {}
<1>1. /\ Call(one) \in Calls /\ Call(one).call = one /\ Call(one).what = "none"
      /\ Call(two) \in Calls /\ Call(two).what = "none"
  BY CallFacts
<1>2. PICK c, d : c = Call(one) /\ d = Call(two)
  OBVIOUS
<1>3. c \in Calls /\ d \in Calls /\ c.call = one /\ c.what = "none" /\ d.what = "none"
  BY <1>1, <1>2
<1>4. Head(<<c, d>>) = c /\ Tail(<<c, d>>) = <<d>> /\ Range(<<c, d>>) = {c, d}
      /\ <<c, d>> \in Seq(Calls) /\ <<c, d>> # <<>> /\ Len(<<c, d>>) = 2
  BY <1>3, PairOfCalls
<1>5. Owed(<<c, d>>) = {}
  BY <1>3, <1>4, OwedByNone
<1> QED BY <1>2, <1>3, <1>4, <1>5

\* The fields of a request at rest.
LEMMA RestFacts ==
    /\ Rest.todo = <<>> /\ Rest.mail = <<>> /\ Rest.item = {} /\ Rest.number = None
    /\ Rest.customer = None /\ Rest.mode = "BOT" /\ Rest.vehicle = None
    /\ Shape(Rest) /\ \A it : ~Owing(Rest, it)
<1>1. /\ Rest.todo = <<>> /\ Rest.mail = <<>> /\ Rest.item = {} /\ Rest.number = None
      /\ Rest.customer = None /\ Rest.mode = "BOT" /\ Rest.vehicle = None
  BY DEF Rest
<1>2. TalkType(Rest)
  <2>1. <<>> \in Seq(Calls) /\ <<>> \in Seq(Messages)
    BY EmptySeq
  <2> QED BY <2>1 DEF TalkType, Rest, Modes
<1> QED BY <1>1, <1>2 DEF Shape, Kinds, Owing

\* The fields of any request, by type.
LEMMA TalkFields ==
    ASSUME NEW t, TalkType(t)
    PROVE  /\ t.todo \in Seq(Calls) /\ t.mail \in Seq(Messages) /\ t.item \subseteq Items
           /\ t.customer \in Customers \union {None} /\ t.mode \in Modes
           /\ t.vehicle \in Vehicles \union {None}
BY DEF TalkType

\* What a request is, is told by its call.
LEMMA HandlingFacts ==
    ASSUME NEW t, Handling(t)
    PROVE  /\ t.todo # <<>> /\ Head(t.todo).what = "none"
           /\ Head(t.todo).call \in {"post", "delete", "mark"}
           /\ Owed(t.todo) = {}
           /\ Head(t.todo).call = "post" =>
                 \E x \in Items : t.item = {x} /\ t.todo = <<Call("post"), Call(After(x))>>
           /\ Head(t.todo).call # "post" =>
                 \E x \in Items : /\ t.item = {x} /\ t.todo = <<Call(After(x))>>
                                  /\ Head(t.todo).call = After(x)
<1>1. PICK x \in Items : t.item = {x} /\ \/ t.todo = <<Call("post"), Call(After(x))>>
                                         \/ t.todo = <<Call(After(x))>>
  BY DEF Handling
<1>2. After(x) \in {"mark", "delete"} /\ After(x) \in CallNames /\ "post" \in CallNames
  BY DEF After, CallNames, Planned
<1>3. CASE t.todo = <<Call("post"), Call(After(x))>>
  <2>1. PICK one \in CallNames, after \in CallNames : one = "post" /\ after = After(x)
    BY <1>2
  <2>2. /\ <<Call(one), Call(after)>> # <<>> /\ Owed(<<Call(one), Call(after)>>) = {}
        /\ Head(<<Call(one), Call(after)>>).call = one
        /\ Head(<<Call(one), Call(after)>>).what = "none"
    BY TwoCalls
  <2> QED BY <1>1, <1>3, <2>1, <2>2
<1>4. CASE t.todo = <<Call(After(x))>>
  <2>1. /\ Head(t.todo).call = After(x) /\ Head(t.todo).what = "none"
        /\ Owed(t.todo) = {} /\ t.todo # <<>>
    BY <1>2, <1>4, SingleCall
  <2> QED BY <1>1, <1>2, <1>4, <2>1
<1> QED BY <1>1, <1>3, <1>4

LEMMA PreparingFacts ==
    ASSUME NEW todo, Preparing(todo)
    PROVE  /\ todo \in Seq(Calls) /\ todo # <<>> /\ Head(todo).call \in Answerings
           /\ Head(todo).what = "none" /\ Owed(todo) = {} /\ todo = <<Call(Head(todo).call)>>
<1>1. PICK name \in Answerings : todo = <<Call(name)>>
  BY DEF Preparing
<1>2. name \in CallNames
  BY DEF CallNames
<1> QED BY <1>1, <1>2, SingleCall

LEMMA TidyFacts ==
    ASSUME NEW todo \in Seq(Calls), Tidy(todo)
    PROVE  /\ Head(todo).call \in Planned
           /\ Head(todo).what = "none" <=> Head(todo).call \in {"open", "flag"}
<1>1. Len(todo) \in Nat /\ Len(todo) > 0 /\ Head(todo) = todo[1]
  BY HeadInRange DEF Tidy
<1>2. 1 \in 1..Len(todo)
  BY <1>1
<1> QED BY <1>1, <1>2 DEF Tidy

LEMMA WritingFacts ==
    ASSUME NEW t, Writing(t)
    PROVE  /\ t.todo # <<>> /\ Head(t.todo).what = "none" /\ Owed(t.todo) = {}
           /\ Head(t.todo).call \in {"post", "open"}
<1>1. "post" \in CallNames /\ "open" \in CallNames
  BY DEF CallNames, Planned
<1>2. CASE t.todo = <<Call("post"), Call("open")>>
  <2>0. PICK one \in CallNames, two \in CallNames : one = "post" /\ two = "open"
    BY <1>1
  <2>1. /\ <<Call(one), Call(two)>> # <<>> /\ Owed(<<Call(one), Call(two)>>) = {}
        /\ Head(<<Call(one), Call(two)>>).call = one
        /\ Head(<<Call(one), Call(two)>>).what = "none"
    BY TwoCalls
  <2> QED BY <1>2, <2>0, <2>1
<1>3. CASE t.todo = <<Call("open")>>
  BY <1>1, <1>3, SingleCall
<1> QED BY <1>2, <1>3 DEF Writing

LEMMA SchedulingFacts ==
    ASSUME NEW t, Scheduling(t)
    PROVE  /\ t.todo # <<>> /\ Len(t.todo) = 1 /\ Head(t.todo).what = "none"
           /\ Head(t.todo).call = "schedule"
<1>1. "schedule" \in CallNames
  BY DEF CallNames
<1> QED BY <1>1, SingleCall DEF Scheduling

\* A call made, the receptionist owes one text less.
LEMMA TidyTail ==
    ASSUME NEW todo \in Seq(Calls), Tidy(todo)
    PROVE  /\ \A x \in Owed(todo) : x = Head(todo).what \/ x \in Owed(Tail(todo))
           /\ \A x \in Owed(Tail(todo)) : x \in Owed(todo) /\ x # Head(todo).what
           /\ Len(todo) = 1 => Tail(todo) = <<>>
           /\ Len(todo) # 1 => Tail(todo) \in Seq(Calls) /\ Tidy(Tail(todo))
<1>1. /\ todo # <<>> /\ Len(todo) \in Nat /\ Len(todo) > 0 /\ Head(todo) = todo[1]
      /\ Tail(todo) \in Seq(Calls) /\ Len(Tail(todo)) = Len(todo) - 1
      /\ Range(todo) = {Head(todo)} \union Range(Tail(todo))
      /\ Tail(todo) = <<>> <=> Len(todo) = 1
  BY HeadInRange, HeadTailProperties DEF Tidy
<1>2. \A i \in 1..Len(Tail(todo)) : /\ Tail(todo)[i] = todo[i + 1]
                                    /\ i + 1 \in 1..Len(todo) /\ i + 1 # 1
  BY <1>1, HeadTailProperties
<1>3. \A x \in Owed(todo) : x = Head(todo).what \/ x \in Owed(Tail(todo))
  BY <1>1 DEF Owed
<1>4. ASSUME NEW x \in Owed(Tail(todo)) PROVE x \in Owed(todo) /\ x # Head(todo).what
  <2>1. PICK c \in Range(Tail(todo)) : x = c.what /\ x # "none"
    BY DEF Owed
  <2>2. PICK i \in 1..Len(Tail(todo)) : c = Tail(todo)[i]
    BY <1>1, <2>1 DEF Range
  <2>3. c = todo[i + 1] /\ i + 1 \in 1..Len(todo) /\ i + 1 # 1 /\ 1 \in 1..Len(todo)
    BY <1>1, <1>2, <2>2
  <2>4. todo[1].what # todo[i + 1].what
    BY <2>1, <2>3 DEF Tidy
  <2>5. x \in Owed(todo)
    BY <1>1, <2>1 DEF Owed
  <2> QED BY <1>1, <2>1, <2>3, <2>4, <2>5
<1>5. ASSUME Len(todo) # 1 PROVE Tidy(Tail(todo))
  <2>1. ASSUME NEW i \in 1..Len(Tail(todo))
        PROVE  /\ Tail(todo)[i].call \in Planned
               /\ Tail(todo)[i].what = "none" <=> Tail(todo)[i].call \in {"open", "flag"}
    BY <1>2 DEF Tidy
  <2>2. ASSUME NEW i \in 1..Len(Tail(todo)), NEW j \in 1..Len(Tail(todo)),
               Tail(todo)[i].what = Tail(todo)[j].what
        PROVE  Tail(todo)[i].what = "none" \/ i = j
    <3>1. todo[i + 1].what = "none" \/ i + 1 = j + 1
      BY <1>2, <2>2 DEF Tidy
    <3> QED BY <1>1, <1>2, <3>1
  <2> QED BY <1>1, <1>5, <2>1, <2>2 DEF Tidy
<1> QED BY <1>1, <1>3, <1>4, <1>5

\* What a request becomes with other calls to make, ...
Making(t, todo) == [t EXCEPT !.todo = todo]

LEMMA MakingFacts ==
    ASSUME NEW t, TalkType(t), NEW todo \in Seq(Calls)
    PROVE  /\ TalkType(Making(t, todo)) /\ Making(t, todo).todo = todo
           /\ Making(t, todo).mail = t.mail /\ Making(t, todo).item = t.item
           /\ Making(t, todo).vehicle = t.vehicle
<1>1. PICK u : u = [t EXCEPT !.todo = todo]
  OBVIOUS
<1>2. TalkType(u) /\ u.todo = todo /\ u.mail = t.mail /\ u.item = t.item /\ u.vehicle = t.vehicle
  BY <1>1 DEF TalkType
<1> QED BY <1>1, <1>2 DEF Making

\* ... with a payload to take in, ...
Taking(mail) == [Rest EXCEPT !.todo = Incoming, !.mail = mail]

LEMMA TakingFacts ==
    ASSUME NEW mail \in Seq(Messages), mail # <<>>
    PROVE  /\ Shape(Taking(mail)) /\ Taking(mail).mail = mail /\ Taking(mail).item = {}
           /\ Taking(mail).vehicle = None /\ Preparing(Taking(mail).todo)
           /\ \A it : ~Owing(Taking(mail), it)
<1>0. "customer" \in CallNames /\ "customer" \in Answerings
  BY DEF CallNames, Answerings
<1>1. Incoming \in Seq(Calls) /\ Owed(Incoming) = {} /\ Preparing(Incoming)
  BY <1>0, SingleCall DEF Incoming, Preparing
<1>2. PICK u : u = [Rest EXCEPT !.todo = Incoming, !.mail = mail]
  OBVIOUS
<1>3. u.todo = Incoming /\ u.mail = mail /\ u.item = {} /\ u.vehicle = None
  BY <1>2 DEF Rest
<1>4. TalkType(u)
  BY <1>1, <1>2 DEF TalkType, Rest, Modes
<1>5. Receiving(u)
  BY <1>1, <1>3 DEF Receiving
<1>6. \A it : ~Owing(u, it)
  BY <1>1, <1>3 DEF Owing
<1> QED BY <1>1, <1>2, <1>3, <1>4, <1>5, <1>6 DEF Shape, Kinds, Taking

\* ... with the next message of its payload, and when it has made a call.
Further(t)  == IF Len(t.mail) > 1 THEN Taking(Tail(t.mail)) ELSE Rest
Finished(t) == IF Len(t.todo) = 1 THEN Further(t) ELSE Making(t, Tail(t.todo))

LEMMA FurtherFacts ==
    ASSUME NEW t, TalkType(t)
    PROVE  /\ Shape(Further(t)) /\ Further(t).item = {} /\ Further(t).vehicle = None
           /\ \A it : ~Owing(Further(t), it)
           /\ Further(t).mail # <<>> => Preparing(Further(t).todo)
           /\ \A m \in Range(t.mail) : m \in Range(Further(t).mail) \/ m = Head(t.mail)
<1>1. t.mail \in Seq(Messages)
  BY TalkFields
<1>2. CASE Len(t.mail) > 1
  <2>0. t.mail # <<>>
    BY <1>2
  <2>1. /\ Tail(t.mail) \in Seq(Messages) /\ (Tail(t.mail) = <<>> <=> Len(t.mail) = 1)
        /\ Range(t.mail) = {Head(t.mail)} \union Range(Tail(t.mail))
    BY <1>1, <2>0, HeadInRange
  <2>2. Tail(t.mail) # <<>>
    BY <1>2, <2>1
  <2>3. Further(t) = Taking(Tail(t.mail))
    BY <1>2 DEF Further
  <2>4. /\ Shape(Taking(Tail(t.mail))) /\ Taking(Tail(t.mail)).mail = Tail(t.mail)
        /\ Taking(Tail(t.mail)).item = {} /\ Taking(Tail(t.mail)).vehicle = None
        /\ Preparing(Taking(Tail(t.mail)).todo) /\ \A it : ~Owing(Taking(Tail(t.mail)), it)
    BY <2>1, <2>2, TakingFacts
  <2> QED BY <2>1, <2>3, <2>4
<1>3. CASE ~(Len(t.mail) > 1)
  <2>1. Further(t) = Rest
    BY <1>3 DEF Further
  <2>2. ASSUME NEW m \in Range(t.mail) PROVE m = Head(t.mail)
    <3>1. t.mail # <<>>
      BY EmptyRange
    <3>2. /\ Len(t.mail) = 1 /\ Range(t.mail) = {Head(t.mail)} \union Range(Tail(t.mail))
          /\ Tail(t.mail) = <<>>
      BY <1>1, <1>3, <3>1, HeadInRange
    <3> QED BY <3>2, EmptyRange
  <2> QED BY <2>1, <2>2, RestFacts
<1> QED BY <1>2, <1>3

\* A call that ends a list or goes on with it: what is owed, sent and handled after it.
Leaves(t, u) ==
    /\ Shape(u) /\ u.vehicle = None
    /\ \A it : Owing(u, it) => Owing(t, it) /\ it[2] # Head(t.todo).what
    /\ \A it : Owing(t, it) => Owing(u, it) \/ it[2] = Head(t.todo).what
    /\ \A m \in Range(t.mail) : m \in Range(u.mail) \/ m = Head(t.mail)
    /\ u.mail # <<>> => Preparing(u.todo) \/ (t.mail # <<>> /\ Head(u.mail) = Head(t.mail))
    /\ \A x \in u.item : ~Sending(u, x) /\ Sending(t, x)
    /\ \A x \in t.item : Sending(t, x) => x \in u.item

LEMMA FurtherLeaves ==
    ASSUME NEW t, TalkType(t), \A x \in t.item : ~Sending(t, x),
           \A it : Owing(t, it) => it[2] = Head(t.todo).what
    PROVE  Leaves(t, Further(t))
<1>1. PICK u : u = Further(t)
  OBVIOUS
<1>2. /\ Shape(u) /\ u.item = {} /\ u.vehicle = None /\ \A it : ~Owing(u, it)
      /\ u.mail # <<>> => Preparing(u.todo)
  BY <1>1, FurtherFacts
<1>3. \A m \in Range(t.mail) : m \in Range(u.mail) \/ m = Head(t.mail)
  BY <1>1, FurtherFacts
<1>4. \A it : Owing(t, it) => Owing(u, it) \/ it[2] = Head(t.todo).what
  OBVIOUS
<1>5. \A it : Owing(u, it) => Owing(t, it) /\ it[2] # Head(t.todo).what
  BY <1>2
<1>6. /\ \A x \in u.item : ~Sending(u, x) /\ Sending(t, x)
      /\ \A x \in t.item : Sending(t, x) => x \in u.item
  BY <1>2
<1>7. Leaves(t, u)
  BY <1>2, <1>3, <1>4, <1>5, <1>6 DEF Leaves
<1> QED BY <1>1, <1>7

LEMMA MakingLeaves ==
    ASSUME NEW t, TalkType(t), NEW todo \in Seq(Calls), Kinds(Making(t, todo)),
           t.vehicle = None,
           \A it : Owing(Making(t, todo), it) => Owing(t, it) /\ it[2] # Head(t.todo).what,
           \A it : Owing(t, it) => Owing(Making(t, todo), it) \/ it[2] = Head(t.todo).what,
           \A x \in t.item : ~Sending(Making(t, todo), x) /\ Sending(t, x)
    PROVE  Leaves(t, Making(t, todo))
<1>1. PICK u : u = Making(t, todo)
  OBVIOUS
<1>2. TalkType(u) /\ u.mail = t.mail /\ u.item = t.item /\ u.vehicle = t.vehicle
  BY <1>1, MakingFacts
<1>3. Shape(u) /\ u.vehicle = None
  BY <1>1, <1>2 DEF Shape
<1>4. \A m \in Range(t.mail) : m \in Range(u.mail)
  BY <1>2
<1>5. u.mail # <<>> => t.mail # <<>> /\ Head(u.mail) = Head(t.mail)
  BY <1>2
<1>6. Leaves(t, u)
  BY <1>1, <1>2, <1>3, <1>4, <1>5 DEF Leaves
<1> QED BY <1>1, <1>6

LEMMA FinishedFacts ==
    ASSUME NEW t, Shape(t), t.todo # <<>>, Head(t.todo).call \notin Answerings
    PROVE  Leaves(t, Finished(t))
<1>0. TalkType(t)
  BY DEF Shape
<1>1. t # Rest /\ ~Preparing(t.todo)
  BY RestFacts, PreparingFacts
<1>2. /\ Len(t.todo) = 1 => Finished(t) = Further(t)
      /\ Len(t.todo) # 1 => Finished(t) = Making(t, Tail(t.todo))
  BY DEF Finished
<1>3. CASE Scheduling(t)
  <2>1. Len(t.todo) = 1 /\ t.item = {} /\ \A it : ~Owing(t, it)
    BY <1>3, SchedulingFacts DEF Scheduling, Owing
  <2>2. Leaves(t, Further(t))
    BY <1>0, <2>1, FurtherLeaves
  <2> QED BY <1>2, <2>1, <2>2
<1>4. CASE Handling(t)
  <2>1. /\ t.mail = <<>> /\ t.vehicle = None /\ \A it : ~Owing(t, it)
        /\ \A x \in t.item : Sending(t, x) <=> Head(t.todo).call = "post"
    BY <1>4, HandlingFacts DEF Handling, Owing, Sending
  <2>2. CASE Head(t.todo).call = "post"
    <3>1. PICK x \in Items : t.item = {x} /\ t.todo = <<Call("post"), Call(After(x))>>
      BY <1>4, <2>2, HandlingFacts
    <3>2. PICK one \in CallNames, after \in CallNames : one = "post" /\ after = After(x)
      BY DEF After, CallNames, Planned
    <3>3. Len(t.todo) # 1 /\ Tail(t.todo) = <<Call(after)>>
      BY <3>1, <3>2, TwoCalls
    <3>4. PICK todo \in Seq(Calls) : /\ todo = <<Call(after)>> /\ Head(todo).call = after
                                     /\ Owed(todo) = {} /\ todo = Tail(t.todo)
      BY <3>3, SingleCall
    <3>5. PICK u : u = Making(t, todo)
      OBVIOUS
    <3>6. /\ TalkType(u) /\ u.todo = todo /\ u.mail = t.mail /\ u.item = t.item
          /\ u.vehicle = t.vehicle
      BY <1>0, <3>5, MakingFacts
    <3>7. Handling(u) /\ after # "post"
      BY <2>1, <3>1, <3>2, <3>4, <3>6 DEF Handling, After
    <3>8. /\ \A it : ~Owing(u, it)
          /\ \A y \in t.item : ~Sending(u, y) /\ Sending(t, y)
      BY <2>1, <2>2, <3>4, <3>6, <3>7 DEF Owing, Sending
    <3>9. Leaves(t, Making(t, todo))
      BY <1>0, <2>1, <3>5, <3>7, <3>8, MakingLeaves DEF Kinds
    <3> QED BY <1>2, <3>3, <3>4, <3>9
  <2>3. CASE Head(t.todo).call # "post"
    <3>1. PICK x \in Items : t.item = {x} /\ t.todo = <<Call(After(x))>>
      BY <1>4, <2>3, HandlingFacts
    <3>2. PICK after \in CallNames : after = After(x)
      BY DEF After, CallNames, Planned
    <3>3. Len(t.todo) = 1
      BY <3>1, <3>2, SingleCall
    <3>4. Leaves(t, Further(t))
      BY <1>0, <2>1, <2>3, FurtherLeaves
    <3> QED BY <1>2, <3>3, <3>4
  <2> QED BY <2>2, <2>3
<1>5. CASE Receiving(t)
  <2>1. /\ Tidy(t.todo) /\ t.mail # <<>> /\ t.item = {} /\ t.vehicle = None
    BY <1>1, <1>5 DEF Receiving
  <2>2. /\ \A x \in Owed(t.todo) : x = Head(t.todo).what \/ x \in Owed(Tail(t.todo))
        /\ \A x \in Owed(Tail(t.todo)) : x \in Owed(t.todo) /\ x # Head(t.todo).what
        /\ Len(t.todo) = 1 => Tail(t.todo) = <<>>
        /\ Len(t.todo) # 1 => Tail(t.todo) \in Seq(Calls) /\ Tidy(Tail(t.todo))
    BY <1>0, <2>1, TidyTail, TalkFields
  <2>3. CASE Len(t.todo) = 1
    <3>1. Owed(Tail(t.todo)) = {}
      BY <2>2, <2>3, EmptyRange DEF Owed
    <3>2. \A it : Owing(t, it) => it[2] = Head(t.todo).what
      BY <2>2, <3>1 DEF Owing
    <3>3. Leaves(t, Further(t))
      BY <1>0, <2>1, <3>2, FurtherLeaves
    <3> QED BY <1>2, <2>3, <3>3
  <2>4. CASE Len(t.todo) # 1
    <3>1. PICK todo \in Seq(Calls) : todo = Tail(t.todo) /\ Tidy(todo)
      BY <2>2, <2>4
    <3>2. PICK u : u = Making(t, todo)
      OBVIOUS
    <3>3. /\ TalkType(u) /\ u.todo = todo /\ u.mail = t.mail /\ u.item = t.item
          /\ u.vehicle = t.vehicle
      BY <1>0, <3>2, MakingFacts
    <3>4. Receiving(u)
      BY <2>1, <3>1, <3>3 DEF Receiving
    <3>5. \A it : Owing(u, it) => Owing(t, it) /\ it[2] # Head(t.todo).what
      BY <2>2, <3>1, <3>3 DEF Owing
    <3>6. \A it : Owing(t, it) => Owing(u, it) \/ it[2] = Head(t.todo).what
      BY <2>2, <3>1, <3>3 DEF Owing
    <3>7. Leaves(t, Making(t, todo))
      BY <1>0, <2>1, <3>2, <3>4, <3>5, <3>6, MakingLeaves DEF Kinds
    <3> QED BY <1>2, <2>4, <3>1, <3>7
  <2> QED BY <2>3, <2>4
<1>6. CASE Writing(t)
  <2>1. /\ t.mail = <<>> /\ t.vehicle = None /\ t.item = {} /\ \A it : ~Owing(t, it)
    BY <1>6 DEF Writing, Owing
  <2>2. PICK one \in CallNames, two \in CallNames : one = "post" /\ two = "open"
    BY DEF CallNames, Planned
  <2>3. CASE t.todo = <<Call(one), Call(two)>>
    <3>1. Len(t.todo) # 1 /\ Tail(t.todo) = <<Call(two)>>
      BY <2>3, TwoCalls
    <3>2. PICK todo \in Seq(Calls) : todo = <<Call(two)>> /\ todo = Tail(t.todo)
      BY <3>1, SingleCall
    <3>3. PICK u : u = Making(t, todo)
      OBVIOUS
    <3>4. /\ TalkType(u) /\ u.todo = todo /\ u.mail = t.mail /\ u.item = t.item
          /\ u.vehicle = t.vehicle
      BY <1>0, <3>3, MakingFacts
    <3>5. Writing(u) /\ \A it : ~Owing(u, it)
      BY <2>1, <2>2, <3>2, <3>4 DEF Writing, Owing
    <3>6. Leaves(t, Making(t, todo))
      BY <1>0, <2>1, <3>3, <3>5, MakingLeaves DEF Kinds
    <3> QED BY <1>2, <3>1, <3>2, <3>6
  <2>4. CASE t.todo = <<Call(two)>>
    <3>1. Len(t.todo) = 1
      BY <2>4, SingleCall
    <3>2. Leaves(t, Further(t))
      BY <1>0, <2>1, FurtherLeaves
    <3> QED BY <1>2, <3>1, <3>2
  <2> QED BY <1>6, <2>2, <2>3, <2>4 DEF Writing
<1> QED BY <1>1, <1>3, <1>4, <1>5, <1>6 DEF Shape, Kinds

-----------------------------------------------------------------------------
(* What the receptionist plans, and what a call tells of its request.      *)

Saying(c, text) == c \in Calls /\ c.call \in {"post", "draft"} /\ c.what = text /\ text # "none"
Silent(c)       == c \in Calls /\ c.call \in {"open", "flag"} /\ c.what = "none"

LEMMA OwedHas ==
    ASSUME NEW todo \in Seq(Calls), NEW i \in 1..Len(todo), todo[i].what # "none"
    PROVE  todo[i].what \in Owed(todo)
<1>1. todo[i] \in Range(todo)
  BY DEF Range
<1> QED BY <1>1 DEF Owed

LEMMA OwedTexts ==
    ASSUME NEW todo \in Seq(Calls)
    PROVE  Owed(todo) \subseteq Texts
<1>1. \A c \in Range(todo) : c \in Calls
  BY DEF Range
<1> QED BY <1>1 DEF Owed, Calls

LEMMA TidyOne ==
    ASSUME NEW c, NEW text, Saying(c, text) \/ (Silent(c) /\ text = "none")
    PROVE  <<c>> \in Seq(Calls) /\ Tidy(<<c>>) /\ Owed(<<c>>) = {text} \ {"none"}
<1>1. PICK todo : todo = <<c>>
  OBVIOUS
<1>2. c \in Calls /\ c.what = text
  BY DEF Saying, Silent
<1>3. todo \in Seq(Calls) /\ Len(todo) = 1 /\ todo # <<>> /\ todo[1] = c
  BY <1>1, <1>2
<1>4. Range(todo) = {c}
  BY <1>1, <1>2, OneCall
<1>5. text = "none" <=> c.call \in {"open", "flag"}
  BY DEF Saying, Silent
<1>6. Tidy(todo)
  BY <1>2, <1>3, <1>5 DEF Tidy, Saying, Silent, Planned
<1>7. Owed(todo) = {text} \ {"none"}
  BY <1>2, <1>4 DEF Owed
<1> QED BY <1>1, <1>3, <1>6, <1>7

LEMMA TidyConcat ==
    ASSUME NEW s \in Seq(Calls), NEW t \in Seq(Calls), Tidy(s), Tidy(t),
           Owed(s) \intersect Owed(t) = {}
    PROVE  s \o t \in Seq(Calls) /\ Tidy(s \o t) /\ Owed(s \o t) = Owed(s) \union Owed(t)
<1>1. PICK u : u = s \o t
  OBVIOUS
<1>2. /\ u \in Seq(Calls) /\ Len(u) = Len(s) + Len(t)
      /\ \A i \in 1..Len(s) + Len(t) : u[i] = IF i <= Len(s) THEN s[i] ELSE t[i - Len(s)]
  BY <1>1, ConcatProperties
<1>3. Len(s) \in Nat /\ Len(s) > 0 /\ Len(t) \in Nat /\ Len(t) > 0
  BY HeadInRange DEF Tidy
<1>4. \A i \in 1..Len(s) : i \in 1..Len(u) /\ u[i] = s[i]
  BY <1>2, <1>3
<1>5. ASSUME NEW i \in 1..Len(t) PROVE i + Len(s) \in 1..Len(u) /\ u[i + Len(s)] = t[i]
  <2>1. i + Len(s) \in 1..Len(s) + Len(t) /\ ~(i + Len(s) <= Len(s)) /\ i + Len(s) - Len(s) = i
    BY <1>3
  <2> QED BY <1>2, <2>1
<1>6. ASSUME NEW i \in 1..Len(u)
      PROVE  \/ i \in 1..Len(s) /\ u[i] = s[i]
             \/ \E j \in 1..Len(t) : i = j + Len(s) /\ u[i] = t[j]
  <2>1. CASE i <= Len(s)
    BY <1>2, <1>3, <2>1
  <2>2. CASE ~(i <= Len(s))
    <3>1. i - Len(s) \in 1..Len(t) /\ i = (i - Len(s)) + Len(s) /\ u[i] = t[i - Len(s)]
      BY <1>2, <1>3, <2>2
    <3> QED BY <3>1
  <2> QED BY <2>1, <2>2
<1>7. Owed(u) = Owed(s) \union Owed(t)
  <2>1. Range(u) = Range(s) \union Range(t)
    <3>1. \A c \in Range(u) : c \in Range(s) \/ c \in Range(t)
      BY <1>2, <1>6 DEF Range
    <3>2. \A c \in Range(s) : c \in Range(u)
      BY <1>2, <1>4 DEF Range
    <3>3. ASSUME NEW i \in 1..Len(t) PROVE t[i] \in Range(u)
      <4>1. i + Len(s) \in DOMAIN u /\ u[i + Len(s)] = t[i]
        BY <1>2, <1>5
      <4> QED BY <4>1 DEF Range
    <3>4. \A c \in Range(t) : c \in Range(u)
      BY <3>3 DEF Range
    <3> QED BY <3>1, <3>2, <3>4
  <2> QED BY <2>1 DEF Owed
<1>8. u # <<>>
  BY <1>2, <1>3
<1>9. ASSUME NEW i \in 1..Len(u)
      PROVE  /\ u[i].call \in Planned
             /\ u[i].what = "none" <=> u[i].call \in {"open", "flag"}
  <2>1. CASE i \in 1..Len(s) /\ u[i] = s[i]
    BY <2>1 DEF Tidy
  <2>2. ASSUME NEW j \in 1..Len(t), u[i] = t[j]
        PROVE  /\ u[i].call \in Planned
               /\ u[i].what = "none" <=> u[i].call \in {"open", "flag"}
    BY <2>2 DEF Tidy
  <2> QED BY <1>6, <2>1, <2>2
<1>10. ASSUME NEW i \in 1..Len(u), NEW j \in 1..Len(u), u[i].what = u[j].what, u[i].what # "none"
       PROVE  i = j
  <2>1. \A k \in 1..Len(s), l \in 1..Len(t) : s[k].what = t[l].what => s[k].what = "none"
    <3>1. ASSUME NEW k \in 1..Len(s), NEW l \in 1..Len(t), s[k].what = t[l].what,
                 s[k].what # "none"
          PROVE  FALSE
      BY <3>1, OwedHas
    <3> QED BY <3>1
  <2>2. CASE i \in 1..Len(s) /\ u[i] = s[i] /\ j \in 1..Len(s) /\ u[j] = s[j]
    BY <1>10, <2>2 DEF Tidy
  <2>3. ASSUME NEW k \in 1..Len(t), i = k + Len(s), u[i] = t[k],
               NEW l \in 1..Len(t), j = l + Len(s), u[j] = t[l]
        PROVE  i = j
    <3>1. k = l
      BY <1>10, <2>3 DEF Tidy
    <3> QED BY <2>3, <3>1
  <2> QED BY <1>6, <1>10, <2>1, <2>2, <2>3
<1>11. Tidy(u)
  BY <1>8, <1>9, <1>10 DEF Tidy
<1> QED BY <1>1, <1>2, <1>7, <1>11

\* A text to m is sent, or drafted with its thread reopened.
LEMMA SayFacts ==
    ASSUME NEW m, NEW text \in Texts
    PROVE  /\ Queue(text) \in Seq(Calls) /\ Tidy(Queue(text)) /\ Owed(Queue(text)) = {text}
           /\ Say(m, text) \in Seq(Calls) /\ Tidy(Say(m, text)) /\ Owed(Say(m, text)) = {text}
<1>1. PICK c, d, e : c = Do("draft", text) /\ d = Call("open") /\ e = Do("post", text)
  OBVIOUS
<1>2. Saying(c, text) /\ Silent(d) /\ Saying(e, text) /\ text # "none"
  BY <1>1 DEF Do, Call, Saying, Silent, Calls, CallNames, Planned, Texts
<1>3. <<e>> \in Seq(Calls) /\ Tidy(<<e>>) /\ Owed(<<e>>) = {text}
  BY <1>2, TidyOne
<1>4. c \in Calls /\ d \in Calls
  BY <1>2 DEF Saying, Silent
<1>5. PICK todo : todo = <<c, d>>
  OBVIOUS
<1>6. /\ todo \in Seq(Calls) /\ Len(todo) = 2 /\ todo # <<>> /\ todo[1] = c /\ todo[2] = d
      /\ Range(todo) = {c, d}
  BY <1>4, <1>5, PairOfCalls
<1>7. Tidy(todo)
  BY <1>2, <1>6 DEF Tidy, Saying, Silent, Planned
<1>8. Owed(todo) = {text}
  BY <1>2, <1>6 DEF Owed, Saying, Silent
<1>9. Queue(text) = todo
  BY <1>1, <1>5 DEF Queue
<1>10. Say(m, text) = <<e>> \/ Say(m, text) = todo
  BY <1>1, <1>9 DEF Say
<1> QED BY <1>3, <1>6, <1>7, <1>8, <1>9, <1>10

LEMMA PlanFacts ==
    ASSUME NEW m \in Messages
    PROVE  /\ Plan(m) \in Seq(Calls) /\ Tidy(Plan(m))
           /\ \E text \in Texts : text \in Owed(Plan(m))
<1>1. RouteOf[m] \in Routes
  BY ChatAssumption
<1>2. CASE RouteOf[m] = "AUTO"
  BY <1>2, SayFacts DEF Plan, Texts
<1>3. CASE RouteOf[m] = "PROPOSE"
  <2>1. PICK s, t : s = Queue("reply") /\ t = Say(m, "holding")
    OBVIOUS
  <2>2. /\ s \in Seq(Calls) /\ Tidy(s) /\ Owed(s) = {"reply"}
        /\ t \in Seq(Calls) /\ Tidy(t) /\ Owed(t) = {"holding"}
    BY <2>1, SayFacts DEF Texts
  <2>3. s \o t \in Seq(Calls) /\ Tidy(s \o t) /\ "reply" \in Owed(s \o t)
    BY <2>2, TidyConcat
  <2>4. Plan(m) = s \o t
    BY <1>3, <2>1 DEF Plan
  <2> QED BY <2>3, <2>4 DEF Texts
<1>4. CASE RouteOf[m] = "HANDOFF"
  <2>1. PICK c, s, t : c = Call("flag") /\ s = <<c>> /\ t = Say(m, "handoff")
    OBVIOUS
  <2>2. Silent(c)
    BY <2>1 DEF Silent, Call, Do, Calls, CallNames, Planned
  <2>3. /\ s \in Seq(Calls) /\ Tidy(s) /\ Owed(s) = {}
    <3>1. PICK none : none = "none"
      OBVIOUS
    <3>2. <<c>> \in Seq(Calls) /\ Tidy(<<c>>) /\ Owed(<<c>>) = {none} \ {"none"}
      BY <2>2, <3>1, TidyOne
    <3> QED BY <2>1, <3>1, <3>2
  <2>6. t \in Seq(Calls) /\ Tidy(t) /\ Owed(t) = {"handoff"}
    BY <2>1, SayFacts DEF Texts
  <2>4. s \o t \in Seq(Calls) /\ Tidy(s \o t) /\ "handoff" \in Owed(s \o t)
    BY <2>3, <2>6, TidyConcat
  <2>5. Plan(m) = s \o t
    BY <1>4, <2>1 DEF Plan
  <2> QED BY <2>4, <2>5 DEF Texts
<1> QED BY <1>1, <1>2, <1>3, <1>4 DEF Routes

\* The call a request is at tells what kind of request it is.
LEMMA AnsweringKind ==
    ASSUME NEW t, Shape(t), t.todo # <<>>, Head(t.todo).call \in Answerings
    PROVE  Receiving(t) /\ Preparing(t.todo) /\ \A it : ~Owing(t, it)
<1>1. TalkType(t) /\ t.todo \in Seq(Calls) /\ t # Rest
  BY TalkFields, RestFacts DEF Shape
<1>2. ~Scheduling(t) /\ ~Handling(t) /\ ~Writing(t)
  BY SchedulingFacts, HandlingFacts, WritingFacts DEF Answerings
<1>3. ~Tidy(t.todo)
  BY <1>1, TidyFacts DEF Answerings, Planned
<1>4. Receiving(t) /\ Preparing(t.todo)
  BY <1>1, <1>2, <1>3 DEF Shape, Kinds, Receiving
<1> QED BY <1>4, PreparingFacts DEF Owing

LEMMA PlannedKind ==
    ASSUME NEW t, Shape(t), t.todo # <<>>, Head(t.todo).what # "none"
    PROVE  /\ Receiving(t) /\ Tidy(t.todo) /\ Head(t.todo).what \in Texts
           /\ Head(t.todo).call \in {"post", "draft"} /\ Head(t.mail) \in Messages
           /\ Owing(t, <<Head(t.mail), Head(t.todo).what>>)
<1>1. /\ TalkType(t) /\ t.todo \in Seq(Calls) /\ t.mail \in Seq(Messages) /\ t # Rest
  BY TalkFields, RestFacts DEF Shape
<1>2. ~Scheduling(t) /\ ~Handling(t) /\ ~Writing(t) /\ ~Preparing(t.todo)
  BY SchedulingFacts, HandlingFacts, WritingFacts, PreparingFacts
<1>3. Receiving(t) /\ Tidy(t.todo) /\ t.mail # <<>>
  BY <1>1, <1>2 DEF Shape, Kinds, Receiving
<1>4. Head(t.todo).call \in {"post", "draft"}
  BY <1>1, <1>3, TidyFacts DEF Planned
<1>5. Head(t.todo) \in Calls /\ Head(t.todo) \in Range(t.todo) /\ Head(t.mail) \in Messages
  BY <1>1, <1>3, HeadInRange
<1>6. Head(t.todo).what \in Owed(t.todo) /\ Head(t.todo).what \in Texts
  BY <1>5 DEF Owed, Calls
<1> QED BY <1>3, <1>4, <1>5, <1>6 DEF Owing

LEMMA ItemKind ==
    ASSUME NEW t, Shape(t), t.item # {}
    PROVE  /\ Handling(t) /\ t # Rest /\ t.todo # <<>> /\ Head(t.todo).what = "none"
           /\ \A it : ~Owing(t, it)
           /\ \E x \in Items : /\ t.item = {x} /\ Head(t.todo).call \in {"post", After(x)}
<1>1. Handling(t)
  BY RestFacts DEF Shape, Kinds, Scheduling, Receiving, Writing
<1>2. t # Rest /\ t.todo # <<>> /\ Head(t.todo).what = "none" /\ \A it : ~Owing(t, it)
  BY <1>1, HandlingFacts, RestFacts DEF Handling, Owing
<1>3. \E x \in Items : /\ t.item = {x} /\ Head(t.todo).call \in {"post", After(x)}
  BY <1>1, HandlingFacts
<1> QED BY <1>1, <1>2, <1>3

\* A call about a draft or reminder.
LEMMA AfterKind ==
    ASSUME NEW t, Shape(t), t.todo # <<>>, Head(t.todo).call \in {"delete", "mark"}
    PROVE  \E x \in Items : t.item = {x} /\ Head(t.todo).call = After(x)
<1>1. TalkType(t) /\ t.todo \in Seq(Calls) /\ t # Rest
  BY TalkFields, RestFacts DEF Shape
<1>2. ~Scheduling(t) /\ ~Writing(t) /\ ~Receiving(t)
  BY <1>1, SchedulingFacts, WritingFacts, PreparingFacts, TidyFacts
     DEF Receiving, Answerings, Planned
<1>3. t.item # {}
  BY <1>1, <1>2 DEF Shape, Kinds, Handling
<1> QED BY <1>3, ItemKind

LEMMA ScheduleKind ==
    ASSUME NEW t, Shape(t), t.todo # <<>>, Head(t.todo).call = "schedule"
    PROVE  Scheduling(t)
<1>1. TalkType(t) /\ t.todo \in Seq(Calls) /\ t # Rest
  BY TalkFields, RestFacts DEF Shape
<1>2. ~Handling(t) /\ ~Writing(t) /\ ~Receiving(t)
  BY <1>1, HandlingFacts, WritingFacts, PreparingFacts, TidyFacts
     DEF Receiving, Answerings, Planned
<1> QED BY <1>1, <1>2 DEF Shape, Kinds

-----------------------------------------------------------------------------
(* Steps of one request.                                                   *)

\* No other request has done anything.
Others(w) == \A q \in Workers : q # w => talk'[q] = talk[q]
Only(w)   == Others(w) /\ talk' = [q \in Workers |-> talk'[q]]

LEMMA BecomesFacts ==
    ASSUME NEW w \in Workers, ChatTypeOK, NEW u, Becomes(w, u)
    PROVE  talk'[w] = u /\ Only(w)
BY DEF ChatTypeOK, Becomes, Only, Others

LEMMA DoneFacts ==
    ASSUME NEW w \in Workers, ChatTypeOK, WorkerOK(w), Done(w), talk[w].todo # <<>>,
           Head(talk[w].todo).call \notin Answerings
    PROVE  talk'[w] = Finished(talk[w]) /\ Only(w) /\ Leaves(talk[w], talk'[w])
<1>1. Becomes(w, Finished(talk[w]))
  BY DEF Done, NextMail, Becomes, Finished, Further, Taking, Making
<1>2. talk'[w] = Finished(talk[w]) /\ Only(w)
  BY <1>1, BecomesFacts
<1>3. Leaves(talk[w], Finished(talk[w]))
  BY FinishedFacts DEF WorkerOK
<1> QED BY <1>2, <1>3

LEMMA NextMailFacts ==
    ASSUME NEW w \in Workers, ChatTypeOK, WorkerOK(w), NextMail(w)
    PROVE  talk'[w] = Further(talk[w]) /\ Only(w)
<1>1. Becomes(w, Further(talk[w]))
  BY DEF NextMail, Becomes, Further, Taking
<1> QED BY <1>1, BecomesFacts

LEMMA LapseFacts ==
    ASSUME NEW why, NEW whats, Lapse(why, whats)
    PROVE  /\ lapses \subseteq lapses'
           /\ \A whys, x : Lapsed(whys, x)' <=> Lapsed(whys, x) \/ (why \in whys /\ x \in whats)
<1>1. lapses' = lapses \union {<<why, x>> : x \in whats}
  BY DEF Lapse
<1>2. \A y, x : <<y, x>> \in lapses' <=> <<y, x>> \in lapses \/ (y = why /\ x \in whats)
  BY <1>1
<1>3. \A whys, x : Lapsed(whys, x)' <=> \E y \in whys : <<y, x>> \in lapses'
  BY DEF Lapsed
<1>4. \A whys, x : Lapsed(whys, x) <=> \E y \in whys : <<y, x>> \in lapses
  BY DEF Lapsed
<1>5. lapses \subseteq lapses'
  BY <1>1
<1> QED BY <1>2, <1>3, <1>4, <1>5

LEMMA LapsedGrows ==
    ASSUME lapses \subseteq lapses'
    PROVE  \A whys, x : Lapsed(whys, x) => Lapsed(whys, x)'
BY DEF Lapsed

-----------------------------------------------------------------------------
(* What a step of one request leaves as it was.                            *)

\* The invariant's operators, one step later.
LEMMA NextOperators ==
    /\ \A w, it : Owes(w, it)' <=> Owing(talk'[w], it)
    /\ \A w, x : Posts(w, x)' <=> Sending(talk'[w], x)
    /\ \A x, w : w \in About(x)' <=> w \in Workers /\ x \in talk'[w].item
    /\ \A x, w : w \in About(x) <=> w \in Workers /\ x \in talk[w].item
    /\ \A w : Mail(w)' = Range(talk'[w].mail)
BY DEF Owes, Owing, Posts, Sending, About, Mail

\* Step of w: a text, ...
TextSame(w, it) ==
    /\ inbox'[it[1]] = inbox[it[1]] /\ posted'[it] = posted[it]
    /\ it \in draft' => it \in draft
    /\ Owing(talk'[w], it) => Owing(talk[w], it)
    /\ it \in talk'[w].item =>
          it \in talk[w].item /\ (Sending(talk'[w], it) <=> Sending(talk[w], it))
    /\ it \in talk[w].item => it \in talk'[w].item \/ it \notin draft' \/ Lapsed(Faults, it)'

LEMMA TextKept ==
    ASSUME NEW w, NEW it \in Messages \X Texts, Others(w), lapses \subseteq lapses',
           TextOK(it), TextSame(w, it)
    PROVE  TextOK(it)'
<1>1. \A q \in Workers : /\ Owing(talk'[q], it) => Owing(talk[q], it)
                         /\ it \in talk'[q].item =>
                               /\ it \in talk[q].item
                               /\ Sending(talk'[q], it) <=> Sending(talk[q], it)
                         /\ it \in talk[q].item => \/ it \in talk'[q].item \/ it \notin draft'
                                                   \/ Lapsed(Faults, it)'
  BY DEF TextSame, Others
<1>2. /\ inbox'[it[1]] = inbox[it[1]] /\ posted'[it] = posted[it]
      /\ it \in draft' => it \in draft
  BY DEF TextSame
<1>3. /\ Lapsed(Faults, it) => Lapsed(Faults, it)'
      /\ Lapsed({"turned"}, it[1]) => Lapsed({"turned"}, it[1])'
  BY LapsedGrows
<1>4. /\ \A q \in Workers : Owes(q, it)' => Owes(q, it)
      /\ \A q \in About(it)' : q \in About(it) /\ (Posts(q, it)' <=> Posts(q, it))
      /\ \A q \in About(it) : q \in About(it)' \/ it \notin draft' \/ Lapsed(Faults, it)'
  BY <1>1, NextOperators DEF Owes, Posts
<1>5. (\E q \in Workers : Owes(q, it)') \/ posted'[it] > 0 \/ it \in draft' \/ About(it)' # {}
         => inbox'[it[1]] # None /\ (inbox'[it[1]] = "HUMAN" => Lapsed({"turned"}, it[1])')
  BY <1>2, <1>3, <1>4 DEF TextOK
<1>6. /\ \A q, s \in Workers : Owes(q, it)' /\ Owes(s, it)' => q = s
      /\ \A q \in Workers : Owes(q, it)' => posted'[it] = 0 /\ it \notin draft' /\ About(it)' = {}
      /\ \A q \in About(it)' : Posts(q, it)' \/ posted'[it] > 0
  BY <1>2, <1>4 DEF TextOK
<1>7. ASSUME ~Lapsed(Faults, it)'
      PROVE  /\ posted'[it] <= 1
             /\ \A q, s \in About(it)' : q = s
             /\ \A q \in About(it)' : Posts(q, it)' => posted'[it] = 0
             /\ posted'[it] = 1 /\ it \in draft' => About(it)' # {}
  BY <1>2, <1>3, <1>4, <1>7 DEF TextOK
<1> QED BY <1>5, <1>6, <1>7 DEF TextOK

\* ... a reminder, ...
ReminderSame(w, r) ==
    /\ reminder'[r] = reminder[r] /\ posted'[r] = posted[r]
    /\ r \in talk'[w].item =>
          r \in talk[w].item /\ (Sending(talk'[w], r) <=> Sending(talk[w], r))
    /\ r \in talk[w].item => r \in talk'[w].item \/ Lapsed(Faults, r)'

LEMMA ReminderKept ==
    ASSUME NEW w, NEW r \in Reminders, Others(w), lapses \subseteq lapses',
           ReminderOK(r), ReminderSame(w, r)
    PROVE  ReminderOK(r)'
<1>1. \A q \in Workers : /\ r \in talk'[q].item =>
                               /\ r \in talk[q].item
                               /\ Sending(talk'[q], r) <=> Sending(talk[q], r)
                         /\ r \in talk[q].item => r \in talk'[q].item \/ Lapsed(Faults, r)'
  BY DEF ReminderSame, Others
<1>2. reminder'[r] = reminder[r] /\ posted'[r] = posted[r]
  BY DEF ReminderSame
<1>3. Lapsed(Faults, r) => Lapsed(Faults, r)'
  BY LapsedGrows
<1>4. /\ \A q \in About(r)' : q \in About(r) /\ (Posts(q, r)' <=> Posts(q, r))
      /\ \A q \in About(r) : q \in About(r)' \/ Lapsed(Faults, r)'
  BY <1>1, NextOperators DEF Posts
<1> QED BY <1>2, <1>3, <1>4 DEF ReminderOK

\* ... a vehicle, ...
VehicleSame(w, v) ==
    DueFor(v)' \subseteq DueFor(v) /\ (talk'[w].vehicle = v => talk[w].vehicle = v)

LEMMA VehicleKept ==
    ASSUME NEW w, NEW v \in Vehicles, Others(w), lapses \subseteq lapses',
           VehicleOK(v), VehicleSame(w, v)
    PROVE  VehicleOK(v)'
<1>1. \A q \in Workers : talk'[q].vehicle = v => talk[q].vehicle = v
  BY DEF VehicleSame, Others
<1>2. Lapsed({"met"}, v) => Lapsed({"met"}, v)'
  BY LapsedGrows
<1>3. DueFor(v)' \subseteq DueFor(v)
  BY DEF VehicleSame
<1> QED BY <1>1, <1>2, <1>3 DEF VehicleOK

\* ... and a message.
MessageSame(w, m) ==
    /\ inbox'[m] = inbox[m]
    /\ Lapsed({"delivered"}, m)' =>
          Lapsed({"delivered"}, m) \/ (w \in Workers /\ m \in Range(talk'[w].mail))
    /\ m \in Range(talk[w].mail) => \/ m \in Range(talk'[w].mail) \/ inbox[m] # None
                                    \/ Lapsed(Drops, m)'
    /\ Answered(m) => Answered(m)'
    /\ \A text \in Texts : Owing(talk[w], <<m, text>>) =>
          \/ Owing(talk'[w], <<m, text>>) \/ Answered(m)' \/ Lapsed(Drops, m)'

LEMMA MessageKept ==
    ASSUME NEW w, NEW m \in Messages, Others(w), lapses \subseteq lapses',
           MessageOK(m), MessageSame(w, m)
    PROVE  MessageOK(m)'
<1>1. \A q \in Workers : /\ m \in Range(talk[q].mail) => \/ m \in Range(talk'[q].mail)
                                                         \/ inbox[m] # None \/ Lapsed(Drops, m)'
                         /\ \A text \in Texts : Owing(talk[q], <<m, text>>) =>
                               \/ Owing(talk'[q], <<m, text>>) \/ Answered(m)'
                               \/ Lapsed(Drops, m)'
  BY DEF MessageSame, Others
<1>2. /\ Lapsed(Drops, m) => Lapsed(Drops, m)'
      /\ Lapsed({"turned"}, m) => Lapsed({"turned"}, m)'
  BY LapsedGrows
<1>3. /\ inbox'[m] = inbox[m] /\ (Answered(m) => Answered(m)')
      /\ Lapsed({"delivered"}, m)' =>
            Lapsed({"delivered"}, m) \/ (w \in Workers /\ m \in Range(talk'[w].mail))
  BY DEF MessageSame
<1> SUFFICES ASSUME ~Lapsed(Drops, m)' PROVE MessageOK(m)'
  BY DEF MessageOK
<1>4. Lapsed({"delivered"}, m)' => inbox'[m] # None \/ \E q \in Workers : m \in Mail(q)'
  BY <1>1, <1>2, <1>3, NextOperators DEF MessageOK, Mail
<1>5. inbox'[m] = "BOT" /\ ~Lapsed({"turned"}, m)' =>
         \/ Answered(m)'
         \/ \E q \in Workers, text \in Texts : Owes(q, <<m, text>>)'
  BY <1>1, <1>2, <1>3, NextOperators DEF MessageOK, Owes
<1> QED BY <1>4, <1>5 DEF MessageOK

\* The invariant says what the property does.
LEMMA ChatOKSuffices == ChatOK => NothingLostOrTwice
<1> SUFFICES ASSUME ChatOK PROVE NothingLostOrTwice
  OBVIOUS
<1>1. ASSUME NEW m \in Messages, Lapsed({"delivered"}, m),
             ~Lapsed({"killed", "failed", "raced"}, m), \A w \in Workers : m \notin Mail(w)
      PROVE  inbox[m] # None /\ (inbox[m] = "BOT" /\ ~Lapsed({"turned"}, m) => Answered(m))
  <2>1. MessageOK(m)
    BY DEF ChatOK
  <2>2. ASSUME NEW w \in Workers, NEW text \in Texts PROVE ~Owes(w, <<m, text>>)
    <3>1. talk[w].mail \in Seq(Messages)
      BY TalkFields DEF ChatOK, WorkerOK, Shape
    <3>2. talk[w].mail # <<>> => Message(w) \in Mail(w)
      BY <3>1, HeadInRange DEF Message, Mail
    <3> QED BY <1>1, <3>2 DEF Owes, Owing, Message
  <2> QED BY <1>1, <2>1, <2>2 DEF MessageOK, Drops
<1>2. AnsweredOnce
  <2> SUFFICES ASSUME NEW it \in Messages \X Texts
               PROVE  /\ ~Lapsed({"met", "failed", "killed"}, it) =>
                             /\ posted[it] <= 1
                             /\ posted[it] = 1 /\ it \in draft => About(it) # {}
                      /\ inbox[it[1]] = "HUMAN" /\ ~Lapsed({"turned"}, it[1])
                             => posted[it] = 0 /\ it \notin draft
    BY DEF AnsweredOnce
  <2>1. TextOK(it) /\ posted[it] \in Nat
    BY DEF ChatOK, ChatTypeOK, Items
  <2> QED BY <2>1 DEF TextOK, Faults
<1>3. RemindersOnce
  <2>1. ASSUME NEW r \in Reminders
        PROVE  /\ reminder[r].status = "SENT" => posted[r] > 0
               /\ ~Lapsed({"met", "failed", "killed"}, r) =>
                     /\ posted[r] <= 1
                     /\ posted[r] = 1 /\ About(r) = {} => reminder[r].status = "SENT"
    BY DEF ChatOK, ChatTypeOK, Items, ReminderOK, Faults
  <2>2. ASSUME NEW v \in Vehicles, ~Lapsed({"met"}, v) PROVE Cardinality(DueFor(v)) <= 1
    <3>1. \A r, s \in DueFor(v) : r = s
      BY <2>2 DEF ChatOK, VehicleOK
    <3>2. CASE DueFor(v) = {}
      <4>1. Cardinality(DueFor(v)) = 0
        BY <3>2, FS_EmptySet
      <4> QED BY <4>1
    <3>3. CASE DueFor(v) # {}
      <4>1. PICK r : DueFor(v) = {r}
        BY <3>1, <3>3
      <4>2. Cardinality(DueFor(v)) = 1
        BY <4>1, FS_Singleton
      <4> QED BY <4>2
    <3> QED BY <3>2, <3>3
  <2> QED BY <2>1, <2>2 DEF RemindersOnce
<1> QED BY <1>1, <1>2, <1>3 DEF NothingLostOrTwice, NoMessageLost


-----------------------------------------------------------------------------
(* A step that only moves a request on.                                    *)

\* Rows of inbox only come; the other requests are what they were.
LEMMA WorkersKept ==
    ASSUME NEW w, Others(w), \A q \in Workers : WorkerOK(q),
           \A m \in Messages : inbox[m] # None => inbox'[m] # None,
           w \in Workers => WorkerOK(w)'
    PROVE  \A q \in Workers : WorkerOK(q)'
<1>1. ASSUME NEW q \in Workers, q # w PROVE WorkerOK(q)'
  <2>1. talk'[q] = talk[q]
    BY <1>1 DEF Others
  <2>2. Shape(talk'[q])
    BY <2>1 DEF WorkerOK
  <2>3. talk[q].mail # <<>> => Head(talk[q].mail) \in Messages
    BY HeadInRange, TalkFields DEF WorkerOK, Shape
  <2>4. talk'[q].mail # <<>> => Preparing(talk'[q].todo) \/ inbox'[Head(talk'[q].mail)] # None
    BY <2>1, <2>3 DEF WorkerOK, Message
  <2> QED BY <2>2, <2>4 DEF WorkerOK, Message, Shape, TalkType, Kinds, Scheduling, Handling,
                            Receiving, Writing, Preparing
<1> QED BY <1>1

\* All of a request's step that the rows do not show.
MovesOn(w) ==
    /\ Shape(talk'[w])
    /\ talk'[w].mail # <<>> => Preparing(talk'[w].todo) \/ inbox[Head(talk'[w].mail)] # None
    /\ \A it : Owing(talk'[w], it) => Owing(talk[w], it)
    /\ \A it : Owing(talk[w], it) => Owing(talk'[w], it) \/ Lapsed(Drops, it[1])'
    /\ \A x \in talk'[w].item : x \in talk[w].item /\ (Sending(talk'[w], x) <=> Sending(talk[w], x))
    /\ \A x \in talk[w].item : x \in talk'[w].item \/ Lapsed(Faults, x)'
    /\ \A m \in Range(talk[w].mail) : \/ m \in Range(talk'[w].mail) \/ inbox[m] # None
                                      \/ Lapsed(Drops, m)'
    /\ \A m : Lapsed({"delivered"}, m)' =>
                 Lapsed({"delivered"}, m) \/ m \in Range(talk'[w].mail)

LEMMA QuietStep ==
    ASSUME NEW w \in Workers, ChatOK, Only(w), MovesOn(w), lapses \subseteq lapses',
           UNCHANGED <<inbox, draft, posted, reminder>>, thread' \in [Phones -> ThreadRows],
           \A v \in Vehicles : talk'[w].vehicle = v => talk[w].vehicle = v \/ VehicleOK(v)'
    PROVE  ChatOK'
<1>1. ChatTypeOK'
  BY DEF ChatOK, ChatTypeOK, Only
<1>2. WorkerOK(w)'
  <2>1. /\ Shape(talk'[w])
        /\ talk'[w].mail # <<>> => Preparing(talk'[w].todo) \/ inbox'[Head(talk'[w].mail)] # None
    BY DEF MovesOn
  <2> QED BY <2>1 DEF WorkerOK, Message, Shape, TalkType, Kinds, Scheduling, Handling,
                      Receiving, Writing, Preparing
<1>3. \A q \in Workers : WorkerOK(q)'
  BY <1>2, WorkersKept DEF ChatOK, Only
<1>4. ASSUME NEW m \in Messages PROVE MessageOK(m)'
  <2>1. Answered(m) => Answered(m)'
    BY LapsedGrows DEF Answered
  <2>2. \A text \in Texts : Owing(talk[w], <<m, text>>) =>
           Owing(talk'[w], <<m, text>>) \/ Lapsed(Drops, m)'
    BY DEF MovesOn
  <2>3. MessageSame(w, m)
    BY <2>1, <2>2 DEF MovesOn, MessageSame
  <2> QED BY <2>3, MessageKept DEF ChatOK, Only
<1>5. ASSUME NEW it \in Messages \X Texts PROVE TextOK(it)'
  <2>1. TextSame(w, it)
    BY DEF MovesOn, TextSame
  <2> QED BY <2>1, TextKept DEF ChatOK, Only
<1>6. ASSUME NEW r \in Reminders PROVE ReminderOK(r)'
  <2>1. ReminderSame(w, r)
    BY DEF MovesOn, ReminderSame
  <2> QED BY <2>1, ReminderKept DEF ChatOK, Only
<1>7. ASSUME NEW v \in Vehicles PROVE VehicleOK(v)'
  <2>1. CASE VehicleSame(w, v)
    BY <2>1, VehicleKept DEF ChatOK, Only
  <2>2. CASE ~VehicleSame(w, v)
    BY <2>2 DEF VehicleSame, DueFor
  <2> QED BY <2>1, <2>2
<1> QED BY <1>1, <1>3, <1>4, <1>5, <1>6, <1>7 DEF ChatOK

\* A webhook goes on with its preparations, ...
LEMMA PreparingMoves ==
    ASSUME NEW w \in Workers, ChatOK, talk[w].todo # <<>>,
           Head(talk[w].todo).call \in Answerings, NEW name \in Answerings,
           TalkType(talk'[w]), talk'[w].todo = <<Call(name)>>, talk'[w].mail = talk[w].mail,
           talk'[w].item = talk[w].item, talk'[w].vehicle = talk[w].vehicle,
           lapses' = lapses
    PROVE  MovesOn(w) /\ talk'[w].vehicle = None
<1>1. PICK t, u : t = talk[w] /\ u = talk'[w]
  OBVIOUS
<1>2. Receiving(t) /\ \A it : ~Owing(t, it)
  BY <1>1, AnsweringKind DEF ChatOK, WorkerOK
<1>3. /\ TalkType(u) /\ u.todo = <<Call(name)>> /\ u.mail = t.mail /\ u.item = t.item
      /\ u.vehicle = t.vehicle
  BY <1>1
<1>4. Preparing(u.todo)
  BY <1>3 DEF Preparing
<1>5. Receiving(u) /\ \A it : ~Owing(u, it)
  BY <1>2, <1>3, <1>4, PreparingFacts DEF Receiving, Owing
<1>6. t.item = {} /\ u.item = {} /\ u.vehicle = None
  BY <1>2, <1>3 DEF Receiving
<1>7. Shape(u)
  BY <1>3, <1>5 DEF Shape, Kinds
<1>8. \A m : Lapsed({"delivered"}, m)' => Lapsed({"delivered"}, m)
  BY DEF Lapsed
<1> QED BY <1>1, <1>2, <1>3, <1>4, <1>5, <1>6, <1>7, <1>8 DEF MovesOn

\* ... or a request ends with what it has before it.
LEMMA AbandonFacts ==
    ASSUME NEW w \in Workers, ChatOK, NEW why, Abandon(w, why)
    PROVE  /\ talk'[w] = Rest /\ Only(w) /\ lapses \subseteq lapses'
           /\ \A whys, x : Lapsed(whys, x)' <=>
                 Lapsed(whys, x) \/ (why \in whys /\ (x \in Mail(w) \/ x \in Topic(w)))
           /\ \A it : Owing(talk[w], it) => it[1] \in Mail(w)
           /\ \A x \in talk[w].item : x \in Topic(w)
<1>1. Becomes(w, Rest) /\ Lapse(why, Mail(w) \union Topic(w))
  BY DEF Abandon
<1>2. talk'[w] = Rest /\ Only(w)
  BY <1>1, BecomesFacts DEF ChatOK
<1>3. /\ lapses \subseteq lapses'
      /\ \A whys, x : Lapsed(whys, x)' <=>
            Lapsed(whys, x) \/ (why \in whys /\ x \in Mail(w) \union Topic(w))
  BY <1>1, LapseFacts
<1>4. Shape(talk[w]) /\ TalkType(talk[w])
  BY DEF ChatOK, WorkerOK, Shape
<1>5. \A it : Owing(talk[w], it) => it[1] \in Mail(w)
  <2>1. talk[w].mail # <<>> => Head(talk[w].mail) \in Range(talk[w].mail)
    BY <1>4, TalkFields, HeadInRange
  <2> QED BY <2>1 DEF Owing, Mail
<1>6. \A x \in talk[w].item : x \in Topic(w)
  BY <1>4, ItemKind DEF Topic, What
<1> QED BY <1>2, <1>3, <1>5, <1>6

LEMMA AbandonMoves ==
    ASSUME NEW w \in Workers, ChatOK, NEW why \in Drops, Abandon(w, why),
           why \in Faults \/ talk[w].item = {}
    PROVE  MovesOn(w) /\ talk'[w].vehicle = None /\ Only(w) /\ lapses \subseteq lapses'
<1>1. /\ talk'[w] = Rest /\ Only(w) /\ lapses \subseteq lapses'
      /\ \A whys, x : Lapsed(whys, x)' <=>
            Lapsed(whys, x) \/ (why \in whys /\ (x \in Mail(w) \/ x \in Topic(w)))
      /\ \A it : Owing(talk[w], it) => it[1] \in Mail(w)
      /\ \A x \in talk[w].item : x \in Topic(w)
  BY AbandonFacts
<1>2. Shape(talk'[w]) /\ talk'[w].mail = <<>> /\ talk'[w].item = {} /\ talk'[w].vehicle = None
      /\ \A it : ~Owing(talk'[w], it)
  BY <1>1, RestFacts
<1>3. \A m \in Range(talk[w].mail) : Lapsed(Drops, m)'
  BY <1>1 DEF Mail
<1>4. \A m : Lapsed({"delivered"}, m)' => Lapsed({"delivered"}, m)
  BY <1>1 DEF Drops
<1>5. \A it : Owing(talk[w], it) => Lapsed(Drops, it[1])'
  BY <1>1
<1>6. \A x \in talk[w].item : Lapsed(Faults, x)'
  BY <1>1
<1> QED BY <1>1, <1>2, <1>3, <1>4, <1>5, <1>6 DEF MovesOn

\* Threads keep their type.
LEMMA ReachFacts ==
    ASSUME NEW n, NEW c \in Customers \union {None}, ChatTypeOK, Reach(n, c)
    PROVE  thread' \in [Phones -> ThreadRows]
<1>1. thread \in [Phones -> ThreadRows]
  BY DEF ChatTypeOK
<1>2. \A row \in ThreadRows : [row EXCEPT !.customer = c] \in ThreadRows
  BY DEF ThreadRows
<1>3. thread' = [k \in Phones |-> IF k = n THEN IF thread[k] = NoThread
                                               THEN [thread[k] EXCEPT !.customer = c]
                                               ELSE thread[k]
                                  ELSE thread[k]]
  BY <1>1 DEF Reach
<1> QED BY <1>1, <1>2, <1>3

\* The message a webhook is at.
LEMMA AtMessage ==
    ASSUME NEW w \in Workers, ChatOK, talk[w].todo # <<>>,
           Head(talk[w].todo).call \in Answerings
    PROVE  /\ Message(w) \in Messages /\ SenderOf[Message(w)] \in Phones
           /\ talk[w].mail # <<>> /\ talk[w].item = {} /\ talk[w].vehicle = None
           /\ Message(w) \in Mail(w) /\ \A it : ~Owing(talk[w], it)
<1>1. Shape(talk[w]) /\ TalkType(talk[w])
  BY DEF ChatOK, WorkerOK, Shape
<1>2. Receiving(talk[w]) /\ \A it : ~Owing(talk[w], it)
  BY <1>1, AnsweringKind
<1>3. talk[w].mail # <<>> /\ talk[w].item = {} /\ talk[w].vehicle = None
  BY <1>2 DEF Receiving
<1>4. Message(w) \in Messages /\ Message(w) \in Mail(w)
  BY <1>1, <1>3, TalkFields, HeadInRange DEF Message, Mail
<1> QED BY <1>2, <1>3, <1>4, ChatAssumption

-----------------------------------------------------------------------------
(* The webhook.                                                            *)

LEMMA WebhookStepOK ==
    ASSUME NEW w \in Workers, ChatOK, NEW mail \in Payloads, Webhook(w, mail)
    PROVE  ChatOK'
<1>1. mail \in Seq(Messages) /\ mail # <<>>
  BY ChatAssumption
<1>2. Becomes(w, Taking(mail)) /\ Lapse("delivered", Range(mail)) /\ talk[w] = Rest
  BY DEF Webhook, Taking, Resting
<1>3. talk'[w] = Taking(mail) /\ Only(w)
  BY <1>2, BecomesFacts DEF ChatOK
<1>4. PICK u : u = Taking(mail)
  OBVIOUS
<1>5. /\ Shape(u) /\ u.mail = mail /\ u.item = {} /\ u.vehicle = None /\ Preparing(u.todo)
      /\ \A it : ~Owing(u, it)
  BY <1>1, <1>4, TakingFacts
<1>6. /\ lapses \subseteq lapses'
      /\ \A whys, x : Lapsed(whys, x)' <=>
            Lapsed(whys, x) \/ ("delivered" \in whys /\ x \in Range(mail))
  BY <1>2, LapseFacts
<1>7. /\ Rest.item = {} /\ \A it : ~Owing(Rest, it)
      /\ Range(Rest.mail) = {}
  BY RestFacts, EmptyRange
<1>8. MovesOn(w)
  BY <1>2, <1>3, <1>4, <1>5, <1>6, <1>7 DEF MovesOn
<1>9. UNCHANGED <<inbox, draft, posted, reminder>> /\ thread' \in [Phones -> ThreadRows]
  BY DEF Webhook, ChatOK, ChatTypeOK
<1>10. \A v \in Vehicles : talk'[w].vehicle = v => talk[w].vehicle = v \/ VehicleOK(v)'
  BY <1>3, <1>4, <1>5, IntakeAssumption
<1> QED BY <1>3, <1>6, <1>8, <1>9, <1>10, QuietStep

LEMMA FindCustomerOK ==
    ASSUME NEW w \in Workers, ChatOK, FindCustomer(w)
    PROVE  ChatOK'
<1>1. talk[w].todo # <<>> /\ Head(talk[w].todo).call \in Answerings
  BY DEF FindCustomer, Turn, Answerings
<1> DEFINE n     == SenderOf[Message(w)]
           known == {c \in Customers : n \in {phone[c], wa[c]}}
<1>2. PICK c \in First(known) :
         Becomes(w, [talk[w] EXCEPT !.number = n, !.customer = c, !.todo =
                        IF c = None THEN <<Call("create")>> ELSE <<Call("thread")>>])
  BY DEF FindCustomer
<1>3. c \in Customers \union {None}
  BY <1>2 DEF First
<1> HIDE DEF n, known
<1>4. PICK name \in Answerings : name = IF c = None THEN "create" ELSE "thread"
  BY DEF Answerings
<1>5. PICK todo \in Seq(Calls) : todo = <<Call(name)>>
  BY SingleCall DEF CallNames
<1>6. Becomes(w, [talk[w] EXCEPT !.number = n, !.customer = c, !.todo = todo])
  BY <1>2, <1>4, <1>5
<1>7. PICK t : t = talk[w] /\ TalkType(t)
  BY DEF ChatOK, WorkerOK, Shape
<1>8. PICK u : u = [t EXCEPT !.number = n, !.customer = c, !.todo = todo]
  OBVIOUS
<1>9. /\ TalkType(u) /\ u.todo = todo /\ u.mail = t.mail /\ u.item = t.item
      /\ u.vehicle = t.vehicle
  BY <1>3, <1>7, <1>8 DEF TalkType
<1>10. talk'[w] = u /\ Only(w)
  BY <1>6, <1>7, <1>8, BecomesFacts DEF ChatOK
<1>11. UNCHANGED <<inbox, draft, posted, reminder, lapses>> /\ thread' \in [Phones -> ThreadRows]
  BY DEF FindCustomer, ChatOK, ChatTypeOK
<1>12. /\ TalkType(talk'[w]) /\ talk'[w].todo = <<Call(name)>> /\ talk'[w].mail = talk[w].mail
       /\ talk'[w].item = talk[w].item /\ talk'[w].vehicle = talk[w].vehicle
  BY <1>5, <1>7, <1>9, <1>10
<1>13. MovesOn(w) /\ talk'[w].vehicle = None
  BY <1>1, <1>11, <1>12, PreparingMoves
<1> QED BY <1>10, <1>11, <1>13, QuietStep, IntakeAssumption

LEMMA CreateCustomerOK ==
    ASSUME NEW w \in Workers, ChatOK, CreateCustomer(w)
    PROVE  ChatOK'
<1>1. talk[w].todo # <<>> /\ Head(talk[w].todo).call \in Answerings
  BY DEF CreateCustomer, Turn, Answerings
<1>2. UNCHANGED <<inbox, draft, posted, reminder>> /\ thread' \in [Phones -> ThreadRows]
  BY DEF CreateCustomer, ChatOK, ChatTypeOK
<1>3. CASE Abandon(w, "raced")
  <2>1. PICK why \in Drops : why = "raced"
    BY DEF Drops
  <2>2. talk[w].item = {}
    BY <1>1, AtMessage
  <2>3. MovesOn(w) /\ talk'[w].vehicle = None /\ Only(w) /\ lapses \subseteq lapses'
    BY <1>3, <2>1, <2>2, AbandonMoves
  <2> QED BY <1>2, <2>3, QuietStep, IntakeAssumption
<1>4. CASE ~Abandon(w, "raced")
  <2>1. PICK c \in Customers :
           Becomes(w, [talk[w] EXCEPT !.customer = c, !.todo = <<Call("thread")>>])
    BY <1>4 DEF CreateCustomer
  <2>2. lapses' = lapses
    BY <1>4 DEF CreateCustomer
  <2>3. PICK name \in Answerings : name = "thread"
    BY DEF Answerings
  <2>4. PICK todo \in Seq(Calls) : todo = <<Call(name)>>
    BY SingleCall DEF CallNames
  <2>5. PICK t : t = talk[w] /\ TalkType(t)
    BY DEF ChatOK, WorkerOK, Shape
  <2>6. PICK u : u = [t EXCEPT !.customer = c, !.todo = todo]
    OBVIOUS
  <2>7. /\ TalkType(u) /\ u.todo = todo /\ u.mail = t.mail /\ u.item = t.item
        /\ u.vehicle = t.vehicle
    BY <2>5, <2>6 DEF TalkType
  <2>8. talk'[w] = u /\ Only(w)
    BY <2>1, <2>3, <2>4, <2>5, <2>6, BecomesFacts DEF ChatOK
  <2>9. /\ TalkType(talk'[w]) /\ talk'[w].todo = <<Call(name)>> /\ talk'[w].mail = talk[w].mail
        /\ talk'[w].item = talk[w].item /\ talk'[w].vehicle = talk[w].vehicle
    BY <2>4, <2>5, <2>7, <2>8
  <2>10. MovesOn(w) /\ talk'[w].vehicle = None
    BY <1>1, <2>2, <2>9, PreparingMoves
  <2> QED BY <1>2, <2>2, <2>8, <2>10, QuietStep, IntakeAssumption
<1> QED BY <1>3, <1>4

LEMMA OpenThreadOK ==
    ASSUME NEW w \in Workers, ChatOK, OpenThread(w)
    PROVE  ChatOK'
<1>1. talk[w].todo # <<>> /\ Head(talk[w].todo).call \in Answerings
  BY DEF OpenThread, Turn, Answerings
<1>2. PICK n : n = SenderOf[Message(w)] /\ n \in Phones
  BY <1>1, AtMessage
<1>3. thread[n].mode \in Modes
  BY <1>2 DEF ChatOK, ChatTypeOK, ThreadRows
<1>4. PICK t : t = talk[w] /\ TalkType(t)
  BY DEF ChatOK, WorkerOK, Shape
<1>5. PICK name \in Answerings : name = "seen"
  BY DEF Answerings
<1>6. PICK todo \in Seq(Calls) : todo = <<Call(name)>>
  BY SingleCall DEF CallNames
<1>7. PICK u, mode : u = [t EXCEPT !.mode = mode, !.todo = todo] /\ mode = thread[n].mode
  OBVIOUS
<1>8. /\ TalkType(u) /\ u.todo = todo /\ u.mail = t.mail /\ u.item = t.item
      /\ u.vehicle = t.vehicle
  BY <1>3, <1>4, <1>7 DEF TalkType
<1>9. Becomes(w, u)
  BY <1>2, <1>4, <1>5, <1>6, <1>7 DEF OpenThread
<1>10. talk'[w] = u /\ Only(w)
  BY <1>9, BecomesFacts DEF ChatOK
<1>11. /\ TalkType(talk'[w]) /\ talk'[w].todo = <<Call(name)>> /\ talk'[w].mail = talk[w].mail
       /\ talk'[w].item = talk[w].item /\ talk'[w].vehicle = talk[w].vehicle
  BY <1>4, <1>6, <1>8, <1>10
<1>12. UNCHANGED <<inbox, draft, posted, reminder, lapses>>
  BY DEF OpenThread
<1>13. thread' \in [Phones -> ThreadRows]
  BY <1>2, <1>4, ReachFacts, TalkFields DEF OpenThread, ChatOK
<1>14. MovesOn(w) /\ talk'[w].vehicle = None
  BY <1>1, <1>11, <1>12, PreparingMoves
<1> QED BY <1>10, <1>12, <1>13, <1>14, QuietStep, IntakeAssumption

\* A message seen before is passed over.
LEMMA SeenOK ==
    ASSUME NEW w \in Workers, ChatOK, Seen(w)
    PROVE  ChatOK'
<1>1. talk[w].todo # <<>> /\ Head(talk[w].todo).call \in Answerings
  BY DEF Seen, Turn, Answerings
<1>2. /\ UNCHANGED <<inbox, draft, posted, reminder, lapses>>
      /\ thread' \in [Phones -> ThreadRows]
  BY DEF Seen, ChatOK, ChatTypeOK
<1>3. PICK t : t = talk[w] /\ TalkType(t)
  BY DEF ChatOK, WorkerOK, Shape
<1>4. CASE inbox[Message(w)] # None /\ NextMail(w)
  <2>1. talk'[w] = Further(t) /\ Only(w)
    BY <1>3, <1>4, NextMailFacts DEF ChatOK
  <2>2. PICK u : u = Further(t)
    OBVIOUS
  <2>3. /\ Shape(u) /\ u.item = {} /\ u.vehicle = None /\ \A it : ~Owing(u, it)
        /\ u.mail # <<>> => Preparing(u.todo)
        /\ \A m \in Range(t.mail) : m \in Range(u.mail) \/ m = Head(t.mail)
    BY <1>3, <2>2, FurtherFacts
  <2>4. /\ talk[w].item = {} /\ \A it : ~Owing(talk[w], it)
        /\ inbox[Head(t.mail)] # None
    BY <1>1, <1>3, <1>4, AtMessage DEF Message
  <2>5. \A m : Lapsed({"delivered"}, m)' => Lapsed({"delivered"}, m)
    BY <1>2 DEF Lapsed
  <2>6. MovesOn(w) /\ talk'[w].vehicle = None
    BY <1>3, <2>1, <2>2, <2>3, <2>4, <2>5 DEF MovesOn
  <2> QED BY <1>2, <2>1, <2>6, QuietStep, IntakeAssumption
<1>5. CASE Becomes(w, [talk[w] EXCEPT !.todo = <<Call("record")>>])
  <2>1. PICK name \in Answerings : name = "record"
    BY DEF Answerings
  <2>2. PICK todo \in Seq(Calls) : todo = <<Call(name)>>
    BY SingleCall DEF CallNames
  <2>3. talk'[w] = Making(t, todo) /\ Only(w)
    BY <1>3, <1>5, <2>1, <2>2, BecomesFacts DEF ChatOK, Making
  <2>4. /\ TalkType(talk'[w]) /\ talk'[w].todo = <<Call(name)>> /\ talk'[w].mail = talk[w].mail
        /\ talk'[w].item = talk[w].item /\ talk'[w].vehicle = talk[w].vehicle
    <3>1. PICK u : u = Making(t, todo)
      OBVIOUS
    <3>2. /\ TalkType(u) /\ u.todo = todo /\ u.mail = t.mail /\ u.item = t.item
          /\ u.vehicle = t.vehicle
      BY <1>3, <3>1, MakingFacts
    <3> QED BY <1>3, <2>2, <2>3, <3>1, <3>2
  <2>5. MovesOn(w) /\ talk'[w].vehicle = None
    BY <1>1, <1>2, <2>4, PreparingMoves
  <2> QED BY <1>2, <2>3, <2>5, QuietStep, IntakeAssumption
<1> QED BY <1>4, <1>5 DEF Seen

\* What a webhook is that has its message on record: it goes on, or has its plan.
LEMMA RecordFacts ==
    ASSUME NEW w \in Workers, ChatOK, Record(w), inbox[Message(w)] = None
    PROVE  /\ Only(w) /\ Shape(talk'[w]) /\ talk'[w].item = {} /\ talk'[w].vehicle = None
           /\ \A it : Owing(talk'[w], it) => it[1] = Message(w) /\ talk[w].mode # "HUMAN"
           /\ \A k \in Range(talk[w].mail) : k \in Range(talk'[w].mail) \/ k = Message(w)
           /\ talk'[w].mail # <<>> => Preparing(talk'[w].todo) \/ Head(talk'[w].mail) = Message(w)
           /\ talk[w].mode # "HUMAN" => \E text \in Texts : Owing(talk'[w], <<Message(w), text>>)
<1>1. talk[w].todo # <<>> /\ Head(talk[w].todo).call \in Answerings
  BY DEF Record, Turn, Answerings
<1>2. PICK t, m : t = talk[w] /\ m = Message(w)
  OBVIOUS
<1>3. /\ m \in Messages /\ t.mail # <<>> /\ t.item = {} /\ t.vehicle = None /\ TalkType(t)
      /\ Head(t.mail) = m
  BY <1>1, <1>2, AtMessage DEF ChatOK, WorkerOK, Shape, Message
<1>4. CASE t.mode = "HUMAN"
  <2>1. talk'[w] = Further(t) /\ Only(w)
    BY <1>2, <1>4, NextMailFacts DEF Record, ChatOK
  <2>2. PICK u : u = Further(t)
    OBVIOUS
  <2>3. /\ Shape(u) /\ u.item = {} /\ u.vehicle = None /\ \A it : ~Owing(u, it)
        /\ u.mail # <<>> => Preparing(u.todo)
        /\ \A k \in Range(t.mail) : k \in Range(u.mail) \/ k = Head(t.mail)
    BY <1>3, <2>2, FurtherFacts
  <2> QED BY <1>2, <1>3, <1>4, <2>1, <2>2, <2>3
<1>5. CASE t.mode # "HUMAN"
  <2>1. PICK todo : todo = Plan(m)
    OBVIOUS
  <2>2. todo \in Seq(Calls) /\ Tidy(todo) /\ \E text \in Texts : text \in Owed(todo)
    BY <1>3, <2>1, PlanFacts
  <2>3. talk'[w] = Making(t, todo) /\ Only(w)
    BY <1>2, <1>5, <2>1, BecomesFacts DEF Record, ChatOK, Making
  <2>4. PICK u : u = Making(t, todo)
    OBVIOUS
  <2>5. /\ TalkType(u) /\ u.todo = todo /\ u.mail = t.mail /\ u.item = t.item
        /\ u.vehicle = t.vehicle
    BY <1>3, <2>2, <2>4, MakingFacts
  <2>6. Receiving(u)
    BY <1>3, <2>2, <2>5 DEF Receiving
  <2>7. Shape(u)
    BY <2>5, <2>6 DEF Shape, Kinds
  <2>8. \A it : Owing(u, it) => it[1] = m
    BY <1>3, <2>5 DEF Owing
  <2>9. \E text \in Texts : Owing(u, <<m, text>>)
    BY <1>3, <2>2, <2>5 DEF Owing
  <2> QED BY <1>2, <1>3, <1>5, <2>3, <2>4, <2>5, <2>7, <2>8, <2>9
<1> QED BY <1>4, <1>5

LEMMA RecordOK ==
    ASSUME NEW w \in Workers, ChatOK, Record(w)
    PROVE  ChatOK'
<1>1. talk[w].todo # <<>> /\ Head(talk[w].todo).call \in Answerings
  BY DEF Record, Turn, Answerings
<1>2. /\ UNCHANGED <<draft, posted, reminder>> /\ thread' \in [Phones -> ThreadRows]
  BY DEF Record, ChatOK, ChatTypeOK
<1>3. CASE inbox[Message(w)] # None
  <2>1. Abandon(w, "raced") /\ UNCHANGED inbox
    BY <1>3 DEF Record
  <2>2. PICK why \in Drops : why = "raced"
    BY DEF Drops
  <2>3. talk[w].item = {}
    BY <1>1, AtMessage
  <2>4. MovesOn(w) /\ talk'[w].vehicle = None /\ Only(w) /\ lapses \subseteq lapses'
    BY <2>1, <2>2, <2>3, AbandonMoves
  <2> QED BY <1>2, <2>1, <2>4, QuietStep, IntakeAssumption
<1>4. CASE inbox[Message(w)] = None
  <2>0. PICK m, now, u : /\ m = Message(w) /\ now = thread[SenderOf[m]].mode
                         /\ u = talk'[w]
    OBVIOUS
  <2>1. /\ Only(w) /\ Shape(u) /\ u.item = {} /\ u.vehicle = None
        /\ \A it : Owing(u, it) => it[1] = m /\ talk[w].mode # "HUMAN"
        /\ \A k \in Range(talk[w].mail) : k \in Range(u.mail) \/ k = m
        /\ u.mail # <<>> => Preparing(u.todo) \/ Head(u.mail) = m
        /\ talk[w].mode # "HUMAN" => \E text \in Texts : Owing(u, <<m, text>>)
    BY <1>4, <2>0, RecordFacts
  <2>2. /\ m \in Messages /\ SenderOf[m] \in Phones
        /\ talk[w].item = {} /\ \A it : ~Owing(talk[w], it)
    BY <1>1, <2>0, AtMessage
  <2>3. now \in Modes /\ talk[w].mode \in Modes /\ now # None
    <3>1. thread \in [Phones -> ThreadRows]
      BY DEF ChatOK, ChatTypeOK
    <3>2. now \in Modes
      BY <2>0, <2>2, <3>1 DEF ThreadRows
    <3>3. talk[w].mode \in Modes
      BY TalkFields DEF ChatOK, WorkerOK, Shape
    <3> QED BY <3>2, <3>3, ChatAssumption DEF Modes
  <2>4. inbox \in [Messages -> Modes \union {None}] /\ inbox' = [inbox EXCEPT ![m] = now]
    BY <1>4, <2>0 DEF Record, ChatOK, ChatTypeOK
  <2>5. /\ inbox' \in [Messages -> Modes \union {None}] /\ inbox'[m] = now
        /\ \A k \in Messages : k # m => inbox'[k] = inbox[k]
    BY <2>2, <2>3, <2>4
  <2>6. /\ lapses \subseteq lapses'
        /\ \A whys, x : Lapsed(whys, x)' <=>
              Lapsed(whys, x) \/ ("turned" \in whys /\ x = m /\ now # talk[w].mode)
    <3>1. Lapse("turned", {m} \ {x \in {m} : now = talk[w].mode})
      BY <1>4, <2>0 DEF Record
    <3>2. /\ lapses \subseteq lapses'
          /\ \A whys, x : Lapsed(whys, x)' <=> \/ Lapsed(whys, x)
                \/ ("turned" \in whys /\ x \in {m} \ {y \in {m} : now = talk[w].mode})
      BY <3>1, LapseFacts
    <3> QED BY <3>2
  <2>7. \A k : Lapsed({"delivered"}, k)' => Lapsed({"delivered"}, k)
    BY <2>6
  <2>8. ChatTypeOK'
    BY <1>2, <2>0, <2>1, <2>5 DEF ChatOK, ChatTypeOK, Only
  <2>9. \A q \in Workers : WorkerOK(q)'
    <3>1. u.mail # <<>> => Preparing(u.todo) \/ inbox'[Head(u.mail)] # None
      BY <2>1, <2>3, <2>5
    <3>2. WorkerOK(w)'
      BY <2>0, <2>1, <3>1 DEF WorkerOK, Message, Shape, TalkType, Kinds, Scheduling, Handling,
                     Receiving, Writing, Preparing
    <3>3. \A k \in Messages : inbox[k] # None => inbox'[k] # None
      BY <2>3, <2>5
    <3> QED BY <2>1, <3>2, <3>3, WorkersKept DEF ChatOK, Only
  <2>10. ASSUME NEW k \in Messages PROVE MessageOK(k)'
    <3>1. CASE k # m
      <4>1. Answered(k) => Answered(k)'
        BY <1>2, <2>6, LapsedGrows DEF Answered
      <4>2. MessageSame(w, k)
        BY <2>0, <2>1, <2>2, <2>5, <2>7, <3>1, <4>1 DEF MessageSame
      <4> QED BY <2>1, <2>6, <4>2, MessageKept DEF ChatOK, Only
    <3>2. CASE k = m
      <4>1. now = "BOT" /\ ~Lapsed({"turned"}, m)' =>
               \E text \in Texts : Owing(talk'[w], <<m, text>>)
        BY <2>0, <2>1, <2>6
      <4>2. inbox'[m] = "BOT" /\ ~Lapsed({"turned"}, m)' =>
               \E q \in Workers, text \in Texts : Owes(q, <<m, text>>)'
        BY <2>5, <4>1, NextOperators
      <4> QED BY <2>3, <2>5, <3>2, <4>2 DEF MessageOK
    <3> QED BY <3>1, <3>2
  <2>11. ASSUME NEW it \in Messages \X Texts PROVE TextOK(it)'
    <3>1. it[1] \in Messages
      OBVIOUS
    <3>2. CASE it[1] # m
      <4>1. TextSame(w, it)
        BY <1>2, <2>0, <2>1, <2>2, <2>5, <3>1, <3>2 DEF TextSame
      <4> QED BY <2>1, <2>6, <4>1, TextKept DEF ChatOK, Only
    <3>3. CASE it[1] = m
      <4>1. TextOK(it) /\ posted[it] \in Nat /\ inbox[it[1]] = None
        BY <1>4, <2>0, <3>3 DEF ChatOK, ChatTypeOK, Items
      <4>2. /\ \A q \in Workers : ~Owes(q, it)
            /\ posted[it] = 0 /\ it \notin draft /\ About(it) = {}
        BY <4>1 DEF TextOK
      <4>3. /\ \A q \in Workers : Owes(q, it)' => q = w /\ talk[w].mode # "HUMAN"
            /\ posted'[it] = 0 /\ it \notin draft' /\ About(it)' = {}
        BY <1>2, <2>0, <2>1, <4>2, NextOperators DEF Only, Others, Owes
      <4>4. now = "HUMAN" /\ talk[w].mode # "HUMAN" => Lapsed({"turned"}, m)'
        BY <2>6
      <4> QED BY <2>3, <2>5, <3>3, <4>3, <4>4 DEF TextOK
    <3> QED BY <3>2, <3>3
  <2>12. ASSUME NEW r \in Reminders PROVE ReminderOK(r)'
    <3>1. ReminderSame(w, r)
      BY <1>2, <2>0, <2>1, <2>2 DEF ReminderSame
    <3> QED BY <2>1, <2>6, <3>1, ReminderKept DEF ChatOK, Only
  <2>13. ASSUME NEW v \in Vehicles PROVE VehicleOK(v)'
    <3>1. VehicleSame(w, v)
      BY <1>2, <2>0, <2>1, IntakeAssumption DEF VehicleSame, DueFor
    <3> QED BY <2>1, <2>6, <3>1, VehicleKept DEF ChatOK, Only
  <2> QED BY <2>8, <2>9, <2>10, <2>11, <2>12, <2>13 DEF ChatOK
<1> QED BY <1>3, <1>4

-----------------------------------------------------------------------------
(* Sends, drafts and the writes of threadStatus.                           *)

LEMMA OpenKind ==
    ASSUME NEW t, Shape(t), t.todo # <<>>, Head(t.todo).call \in {"open", "flag"}
    PROVE  Head(t.todo).what = "none" /\ t.item = {}
<1>1. TalkType(t) /\ t.todo \in Seq(Calls) /\ t # Rest
  BY TalkFields, RestFacts DEF Shape
<1>2. ~Scheduling(t) /\ ~Handling(t)
  BY SchedulingFacts, HandlingFacts
<1>3. CASE Receiving(t)
  <2>1. Tidy(t.todo)
    BY <1>3, PreparingFacts DEF Receiving, Answerings
  <2> QED BY <1>1, <1>3, <2>1, TidyFacts DEF Receiving
<1>4. CASE Writing(t)
  BY <1>4, WritingFacts DEF Writing
<1> QED BY <1>1, <1>2, <1>3, <1>4 DEF Shape, Kinds

LEMMA DraftKind ==
    ASSUME NEW t, Shape(t), t.todo # <<>>, Head(t.todo).call = "draft"
    PROVE  Head(t.todo).what # "none"
<1>1. TalkType(t) /\ t.todo \in Seq(Calls) /\ t # Rest
  BY TalkFields, RestFacts DEF Shape
<1>2. ~Scheduling(t) /\ ~Handling(t) /\ ~Writing(t)
  BY SchedulingFacts, HandlingFacts, WritingFacts
<1>3. Tidy(t.todo)
  BY <1>1, <1>2, PreparingFacts DEF Shape, Kinds, Receiving, Answerings
<1> QED BY <1>1, <1>3, TidyFacts

LEMMA PostKind ==
    ASSUME NEW t, Shape(t), t.todo # <<>>, Head(t.todo).call = "post", Head(t.todo).what = "none"
    PROVE  \A it : ~Owing(t, it)
<1>1. TalkType(t) /\ t.todo \in Seq(Calls) /\ t # Rest
  BY TalkFields, RestFacts DEF Shape
<1>2. ~Receiving(t)
  BY <1>1, PreparingFacts, TidyFacts DEF Receiving, Answerings
<1> QED BY <1>1, <1>2, SchedulingFacts DEF Shape, Kinds, Handling, Writing, Owing

\* A webhook that makes its calls has its message on record.
LEMMA PlannedOnRecord ==
    ASSUME NEW w \in Workers, WorkerOK(w), talk[w].todo # <<>>,
           Head(talk[w].todo).call \notin Answerings, talk[w].mail # <<>>
    PROVE  inbox[Head(talk[w].mail)] # None
BY PreparingFacts DEF WorkerOK, Message

LEMMA SetStatusOK ==
    ASSUME NEW w \in Workers, ChatOK, NEW call \in {"open", "flag"},
           NEW status \in {"OPEN", "NEEDS_HUMAN"}, SetStatus(w, call, status)
    PROVE  ChatOK'
<1>1. /\ talk[w].todo # <<>> /\ Head(talk[w].todo).call = call /\ call \notin Answerings
      /\ Done(w) /\ UNCHANGED <<inbox, draft, posted, reminder, lapses>>
  BY DEF SetStatus, Turn, Answerings
<1>2. thread' \in [Phones -> ThreadRows]
  <2>1. thread \in [Phones -> ThreadRows]
    BY DEF ChatOK, ChatTypeOK
  <2>2. \A row \in ThreadRows : [row EXCEPT !.status = status] \in ThreadRows
    BY DEF ThreadRows
  <2>3. thread' = [k \in Phones |-> IF k = talk[w].number THEN [thread[k] EXCEPT !.status = status]
                                    ELSE thread[k]]
    BY <2>1 DEF SetStatus
  <2> QED BY <2>1, <2>2, <2>3
<1>3. Only(w) /\ Leaves(talk[w], talk'[w]) /\ WorkerOK(w) /\ Shape(talk[w])
  BY <1>1, DoneFacts DEF ChatOK, WorkerOK
<1>4. PICK t, u : t = talk[w] /\ u = talk'[w]
  OBVIOUS
<1>5. Head(t.todo).what = "none" /\ t.item = {}
  BY <1>1, <1>3, <1>4, OpenKind
<1>6. \A it : Owing(t, it) => it[2] # "none"
  BY DEF Owing, Owed
<1>7. t.mail # <<>> => inbox[Head(t.mail)] # None
  BY <1>1, <1>3, <1>4, PlannedOnRecord
<1>8. /\ Shape(u) /\ u.vehicle = None
      /\ \A it : Owing(u, it) <=> Owing(t, it)
      /\ \A m \in Range(t.mail) : m \in Range(u.mail) \/ m = Head(t.mail)
      /\ u.mail # <<>> => Preparing(u.todo) \/ (t.mail # <<>> /\ Head(u.mail) = Head(t.mail))
      /\ u.item = {}
  BY <1>3, <1>4, <1>5, <1>6 DEF Leaves, Sending
<1>9. \A m \in Range(t.mail) : t.mail # <<>>
  BY EmptyRange
<1>10. \A m : Lapsed({"delivered"}, m)' => Lapsed({"delivered"}, m)
  BY <1>1 DEF Lapsed
<1>11. MovesOn(w)
  BY <1>4, <1>5, <1>7, <1>8, <1>9, <1>10 DEF MovesOn
<1> QED BY <1>1, <1>2, <1>3, <1>4, <1>8, <1>11, QuietStep, IntakeAssumption

LEMMA KillChatOK ==
    ASSUME NEW w \in Workers, ChatOK, KillChat(w)
    PROVE  ChatOK'
<1>1. PICK why \in Drops : why = "killed" /\ why \in Faults
  BY DEF Drops, Faults
<1>2. MovesOn(w) /\ talk'[w].vehicle = None /\ Only(w) /\ lapses \subseteq lapses'
  BY <1>1, AbandonMoves DEF KillChat
<1>3. UNCHANGED <<inbox, draft, posted, reminder>> /\ thread' \in [Phones -> ThreadRows]
  BY DEF KillChat, ChatOK, ChatTypeOK
<1> QED BY <1>2, <1>3, QuietStep, IntakeAssumption

\* A step of a request at rest that takes up calls and no item.
LEMMA ManualOK ==
    ASSUME NEW w \in Workers, ChatOK, NEW n \in Phones, Manual(w, n)
    PROVE  ChatOK'
<1>1. /\ thread \in [Phones -> ThreadRows]
      /\ UNCHANGED <<inbox, draft, posted, reminder, lapses, thread>>
  BY DEF Manual, ChatOK, ChatTypeOK
<1>2. thread[n].customer \in Customers \union {None}
  BY <1>1 DEF ThreadRows
<1>3. PICK c : c = thread[n].customer
  OBVIOUS
<1>4. PICK one \in CallNames, two \in CallNames : one = "post" /\ two = "open"
  BY DEF CallNames, Planned
<1>5. PICK todo \in Seq(Calls) : todo = <<Call(one), Call(two)>> /\ Owed(todo) = {}
  BY TwoCalls
<1>6. PICK u : u = [Rest EXCEPT !.number = n, !.customer = c, !.todo = todo]
  OBVIOUS
<1>7. talk'[w] = u /\ Only(w) /\ talk[w] = Rest
  BY <1>3, <1>4, <1>5, <1>6, BecomesFacts DEF Manual, Resting, ChatOK
<1>8. /\ u.todo = todo /\ u.mail = <<>> /\ u.item = {} /\ u.vehicle = None
  BY <1>6 DEF Rest
<1>9. TalkType(u)
  <2>1. <<>> \in Seq(Messages)
    BY EmptySeq
  <2> QED BY <1>2, <1>3, <1>6, <2>1 DEF TalkType, Rest, Modes
<1>10. Shape(u) /\ \A it : ~Owing(u, it)
  BY <1>4, <1>5, <1>8, <1>9 DEF Shape, Kinds, Writing, Owing
<1>11. /\ Rest.item = {} /\ \A it : ~Owing(Rest, it)
       /\ Range(Rest.mail) = {}
  BY RestFacts, EmptyRange
<1>12. \A m : Lapsed({"delivered"}, m)' => Lapsed({"delivered"}, m)
  BY <1>1 DEF Lapsed
<1>13. MovesOn(w)
  BY <1>7, <1>8, <1>10, <1>11, <1>12 DEF MovesOn
<1> QED BY <1>1, <1>7, <1>8, <1>13, QuietStep, IntakeAssumption

\* Changes of modes and at the reception leave the requests alone.
LEMMA AsideStep ==
    ASSUME ChatOK, UNCHANGED <<inbox, draft, posted, reminder, talk, lapses>>,
           thread' \in [Phones -> ThreadRows]
    PROVE  ChatOK'
<1>1. PICK w : Others(w)
  BY DEF Others
<1>2. lapses \subseteq lapses' /\ \A whys, x : Lapsed(whys, x)' <=> Lapsed(whys, x)
  BY DEF Lapsed
<1>3. ChatTypeOK'
  BY DEF ChatOK, ChatTypeOK
<1>4. \A q \in Workers : WorkerOK(q)'
  BY DEF ChatOK, WorkerOK, Message, Shape, TalkType, Kinds, Scheduling, Handling, Receiving,
         Writing, Preparing
<1>5. ASSUME NEW m \in Messages PROVE MessageOK(m)'
  <2>1. Answered(m) => Answered(m)'
    BY <1>2 DEF Answered
  <2>2. MessageSame(w, m)
    BY <1>2, <2>1 DEF MessageSame
  <2> QED BY <1>1, <1>2, <2>2, MessageKept DEF ChatOK
<1>6. ASSUME NEW it \in Messages \X Texts PROVE TextOK(it)'
  <2>1. TextSame(w, it)
    BY DEF TextSame
  <2> QED BY <1>1, <1>2, <2>1, TextKept DEF ChatOK
<1>7. ASSUME NEW r \in Reminders PROVE ReminderOK(r)'
  <2>1. ReminderSame(w, r)
    BY DEF ReminderSame
  <2> QED BY <1>1, <1>2, <2>1, ReminderKept DEF ChatOK
<1>8. ASSUME NEW v \in Vehicles PROVE VehicleOK(v)'
  <2>1. VehicleSame(w, v)
    BY DEF VehicleSame, DueFor
  <2> QED BY <1>1, <1>2, <2>1, VehicleKept DEF ChatOK
<1> QED BY <1>3, <1>4, <1>5, <1>6, <1>7, <1>8 DEF ChatOK

LEMMA SetModeOK ==
    ASSUME ChatOK, NEW n \in Phones, NEW mode \in Modes, SetMode(n, mode)
    PROVE  ChatOK'
<1>1. thread \in [Phones -> ThreadRows]
  BY DEF ChatOK, ChatTypeOK
<1>2. \A row \in ThreadRows, status \in {"OPEN", "NEEDS_HUMAN"} :
         [row EXCEPT !.mode = mode, !.status = status] \in ThreadRows
  BY DEF ThreadRows
<1>3. thread[n] \in ThreadRows /\ thread[n].status \in {"OPEN", "NEEDS_HUMAN"}
  BY <1>1 DEF ThreadRows
<1>4. PICK status \in {"OPEN", "NEEDS_HUMAN"} :
         status = IF mode = "HUMAN" THEN "OPEN" ELSE thread[n].status
  BY <1>3
<1>5. thread' = [thread EXCEPT ![n] = [thread[n] EXCEPT !.mode = mode, !.status = status]]
  BY <1>1, <1>3, <1>4 DEF SetMode, ThreadRows
<1>6. thread' \in [Phones -> ThreadRows]
  BY <1>1, <1>2, <1>3, <1>5
<1> QED BY <1>6, AsideStep DEF SetMode

\* What a call that is made leaves of a request, as its step shows it.
LEMMA DoneMoves ==
    ASSUME NEW w \in Workers, ChatOK, Done(w), talk[w].todo # <<>>,
           Head(talk[w].todo).call \notin Answerings
    PROVE  /\ Only(w) /\ Shape(talk[w]) /\ Shape(talk'[w]) /\ talk'[w].vehicle = None
           /\ WorkerOK(w)
           /\ talk'[w].mail # <<>> => Preparing(talk'[w].todo) \/ inbox[Head(talk'[w].mail)] # None
           /\ \A it : Owing(talk'[w], it) => Owing(talk[w], it) /\ it[2] # What(w)
           /\ \A it : Owing(talk[w], it) => Owing(talk'[w], it) \/ it[2] = What(w)
           /\ \A m \in Range(talk[w].mail) : m \in Range(talk'[w].mail) \/ inbox[m] # None
           /\ \A x \in talk'[w].item : /\ ~Sending(talk'[w], x)
                                       /\ Sending(talk[w], x) /\ x \in talk[w].item
           /\ \A x \in talk[w].item : Sending(talk[w], x) => x \in talk'[w].item
<1>1. Only(w) /\ Leaves(talk[w], talk'[w]) /\ WorkerOK(w) /\ Shape(talk[w])
  BY DoneFacts DEF ChatOK, WorkerOK
<1>2. talk[w].mail # <<>> => inbox[Head(talk[w].mail)] # None
  BY <1>1, PlannedOnRecord
<1>3. \A m \in Range(talk[w].mail) : talk[w].mail # <<>>
  BY EmptyRange
<1> QED BY <1>1, <1>2, <1>3 DEF Leaves, What, Sending

\* WorkerOK after a step that leaves inbox alone.
LEMMA WorkersAfter ==
    ASSUME NEW w \in Workers, ChatOK, Only(w), UNCHANGED inbox, Shape(talk'[w]),
           talk'[w].mail # <<>> => Preparing(talk'[w].todo) \/ inbox[Head(talk'[w].mail)] # None
    PROVE  \A q \in Workers : WorkerOK(q)'
<1>1. WorkerOK(w)'
  BY DEF WorkerOK, Message, Shape, TalkType, Kinds, Scheduling, Handling,
         Receiving, Writing, Preparing
<1> QED BY <1>1, WorkersKept DEF ChatOK, Only

\* The draft of a text owed: queueDraft's first call.
LEMMA QueueDraftOK ==
    ASSUME NEW w \in Workers, ChatOK, QueueDraft(w)
    PROVE  ChatOK'
<1>1. /\ talk[w].todo # <<>> /\ Head(talk[w].todo).call = "draft"
      /\ Head(talk[w].todo).call \notin Answerings /\ Done(w)
      /\ UNCHANGED <<thread, inbox, posted, reminder, lapses>>
  BY DEF QueueDraft, Turn, Answerings
<1>2. PICK t, u, what : t = talk[w] /\ u = talk'[w] /\ what = What(w)
  OBVIOUS
<1>3. /\ Only(w) /\ Shape(t) /\ Shape(u) /\ u.vehicle = None
      /\ u.mail # <<>> => Preparing(u.todo) \/ inbox[Head(u.mail)] # None
      /\ \A it : Owing(u, it) => Owing(t, it) /\ it[2] # what
      /\ \A it : Owing(t, it) => Owing(u, it) \/ it[2] = what
      /\ \A m \in Range(t.mail) : m \in Range(u.mail) \/ inbox[m] # None
      /\ \A x \in u.item : x \in t.item
  BY <1>1, <1>2, DoneMoves
<1>4. what # "none" /\ what = Head(t.todo).what
  BY <1>1, <1>2, <1>3, DraftKind DEF What
<1>5. PICK at : at = <<Head(t.mail), what>> /\ at \in Messages \X Texts /\ Owing(t, at)
  BY <1>1, <1>2, <1>3, <1>4, PlannedKind
<1>6. draft' = draft \union {at} /\ t.item = {}
  <2>1. Topic(w) = {at}
    BY <1>2, <1>4, <1>5 DEF Topic, Message
  <2> QED BY <1>1, <1>2, <1>3, <1>4, <2>1, PlannedKind DEF QueueDraft, Receiving
<1>7. lapses \subseteq lapses' /\ \A whys, x : Lapsed(whys, x)' <=> Lapsed(whys, x)
  BY <1>1 DEF Lapsed
<1>8. ChatTypeOK'
  BY <1>1, <1>3, <1>5, <1>6 DEF ChatOK, ChatTypeOK, Only
<1>9. \A q \in Workers : WorkerOK(q)'
  BY <1>1, <1>2, <1>3, WorkersAfter
<1>10. ASSUME NEW m \in Messages PROVE MessageOK(m)'
  <2>1. Answered(m) => Answered(m)'
    BY <1>1, <1>6, <1>7 DEF Answered
  <2>2. ASSUME NEW text \in Texts, Owing(t, <<m, text>>)
        PROVE  Owing(u, <<m, text>>) \/ Answered(m)'
    <3>1. CASE text = what
      <4>1. <<m, text>> = at
        BY <1>5, <2>2, <3>1 DEF Owing
      <4>2. <<m, text>> \in draft'
        BY <1>6, <4>1
      <4> QED BY <4>2 DEF Answered
    <3>2. CASE text # what
      BY <1>3, <2>2, <3>2
    <3> QED BY <3>1, <3>2
  <2>3. MessageSame(w, m)
    BY <1>1, <1>2, <1>3, <1>7, <2>1, <2>2 DEF MessageSame
  <2> QED BY <1>3, <1>7, <2>3, MessageKept DEF ChatOK, Only
<1>11. ASSUME NEW it \in Messages \X Texts PROVE TextOK(it)'
  <2>1. CASE it # at
    <3>1. TextSame(w, it)
      BY <1>1, <1>2, <1>3, <1>6, <2>1 DEF TextSame
    <3> QED BY <1>3, <1>7, <3>1, TextKept DEF ChatOK, Only
  <2>2. CASE it = at
    <3>1. TextOK(it) /\ Owes(w, it) /\ posted[it] \in Nat
      BY <1>2, <1>5, <2>2 DEF ChatOK, ChatTypeOK, Items, Owes
    <3>2. /\ posted[it] = 0 /\ it \notin draft /\ About(it) = {}
          /\ inbox[it[1]] # None /\ (inbox[it[1]] = "HUMAN" => Lapsed({"turned"}, it[1]))
          /\ \A q \in Workers : Owes(q, it) => q = w
      BY <3>1 DEF TextOK
    <3>3. \A q \in Workers : ~Owes(q, it)'
      <4>1. ~Owing(u, it)
        BY <1>3, <1>5, <2>2
      <4> QED BY <1>2, <1>3, <3>2, <4>1, NextOperators DEF Only, Others, Owes
    <3>4. About(it)' = {}
      BY <1>2, <1>3, <1>6, <3>2, NextOperators DEF Only, Others
    <3> QED BY <1>1, <1>7, <3>2, <3>3, <3>4 DEF TextOK
  <2> QED BY <2>1, <2>2
<1>12. ASSUME NEW r \in Reminders PROVE ReminderOK(r)'
  <2>1. ReminderSame(w, r)
    BY <1>1, <1>2, <1>3, <1>6 DEF ReminderSame
  <2> QED BY <1>3, <1>7, <2>1, ReminderKept DEF ChatOK, Only
<1>13. ASSUME NEW v \in Vehicles PROVE VehicleOK(v)'
  <2>1. VehicleSame(w, v)
    BY <1>1, <1>2, <1>3, IntakeAssumption DEF VehicleSame, DueFor
  <2> QED BY <1>3, <1>7, <2>1, VehicleKept DEF ChatOK, Only
<1> QED BY <1>8, <1>9, <1>10, <1>11, <1>12, <1>13 DEF ChatOK

\* What a send is about: a text owed, or the draft or reminder the request handles.
LEMMA TopicFacts ==
    ASSUME NEW w \in Workers, ChatOK, Turn(w, "post")
    PROVE  \/ /\ talk[w].item = {} /\ What(w) # "none"
              /\ \E at \in Messages \X Texts : /\ Topic(w) = {at} /\ Owing(talk[w], at)
                                               /\ at = <<Message(w), What(w)>>
           \/ /\ Topic(w) = talk[w].item /\ \A it : ~Owing(talk[w], it)
              /\ \A x \in talk[w].item : Sending(talk[w], x)
<1>1. talk[w].todo # <<>> /\ Head(talk[w].todo).call = "post" /\ Shape(talk[w])
  BY DEF Turn, ChatOK, WorkerOK
<1>2. CASE What(w) = "none"
  <2>1. \A it : ~Owing(talk[w], it)
    BY <1>1, <1>2, PostKind DEF What
  <2> QED BY <1>1, <1>2, <2>1 DEF Topic, Sending
<1>3. CASE What(w) # "none"
  <2>1. /\ Receiving(talk[w]) /\ What(w) \in Texts /\ Message(w) \in Messages
        /\ Owing(talk[w], <<Message(w), What(w)>>)
    BY <1>1, <1>3, PlannedKind DEF What, Message
  <2>2. Topic(w) = {<<Message(w), What(w)>>}
    BY <1>3 DEF Topic
  <2> QED BY <1>3, <2>1, <2>2 DEF Receiving
<1> QED BY <1>2, <1>3

LEMMA PostOK ==
    ASSUME NEW w \in Workers, ChatOK, Post(w)
    PROVE  ChatOK'
<1>1. /\ Turn(w, "post") /\ talk[w].todo # <<>> /\ Head(talk[w].todo).call \notin Answerings
      /\ Done(w) /\ UNCHANGED <<inbox, draft, reminder, lapses>>
      /\ Reach(talk[w].number, talk[w].customer)
  BY DEF Post, Turn, Answerings
<1>2. PICK t, u, what, topic :
         t = talk[w] /\ u = talk'[w] /\ what = What(w) /\ topic = Topic(w)
  OBVIOUS
<1>3. /\ Only(w) /\ Shape(t) /\ Shape(u) /\ u.vehicle = None
      /\ u.mail # <<>> => Preparing(u.todo) \/ inbox[Head(u.mail)] # None
      /\ \A it : Owing(u, it) => Owing(t, it) /\ it[2] # what
      /\ \A it : Owing(t, it) => Owing(u, it) \/ it[2] = what
      /\ \A m \in Range(t.mail) : m \in Range(u.mail) \/ inbox[m] # None
      /\ \A x \in u.item : ~Sending(u, x) /\ x \in t.item
      /\ \A x \in t.item : Sending(t, x) => x \in u.item
  BY <1>1, <1>2, DoneMoves
<1>4. \/ /\ t.item = {} /\ what # "none"
         /\ \E at \in Messages \X Texts : /\ topic = {at} /\ Owing(t, at) /\ at[2] = what
      \/ /\ topic = t.item /\ \A it : ~Owing(t, it)
         /\ \A x \in t.item : Sending(t, x)
  BY <1>1, <1>2, TopicFacts
<1>5. /\ posted \in [Items -> Nat] /\ posted' \in [Items -> Nat]
      /\ \A x \in Items : posted'[x] = IF x \in topic THEN posted[x] + 1 ELSE posted[x]
  BY <1>2 DEF Post, ChatOK, ChatTypeOK
<1>6. lapses \subseteq lapses' /\ \A whys, x : Lapsed(whys, x)' <=> Lapsed(whys, x)
  BY <1>1 DEF Lapsed
<1>7. ChatTypeOK'
  <2>1. thread' \in [Phones -> ThreadRows]
    BY <1>1, <1>2, <1>3, TalkFields, ReachFacts DEF ChatOK, Shape
  <2> QED BY <1>1, <1>3, <1>5, <2>1 DEF ChatOK, ChatTypeOK, Only
<1>8. \A q \in Workers : WorkerOK(q)'
  BY <1>1, <1>2, <1>3, WorkersAfter
<1>9. ASSUME NEW m \in Messages PROVE MessageOK(m)'
  <2>1. \A text \in Texts : <<m, text>> \in Items
    BY DEF Items
  <2>2. Answered(m) => Answered(m)'
    <3>1. ASSUME NEW text \in Texts, posted[<<m, text>>] > 0 PROVE posted'[<<m, text>>] > 0
      BY <1>5, <2>1, <3>1
    <3> QED BY <1>1, <1>6, <3>1 DEF Answered
  <2>3. ASSUME NEW text \in Texts, Owing(t, <<m, text>>)
        PROVE  Owing(u, <<m, text>>) \/ Answered(m)'
    <3>1. CASE text = what
      <4>1. PICK at \in Messages \X Texts : topic = {at} /\ Owing(t, at) /\ at[2] = what
        BY <1>4, <2>3
      <4>2. at = <<m, text>>
        BY <2>3, <3>1, <4>1 DEF Owing
      <4>3. posted'[<<m, text>>] > 0
        BY <1>5, <2>1, <4>1, <4>2
      <4> QED BY <4>3 DEF Answered
    <3>2. CASE text # what
      BY <1>3, <2>3, <3>2
    <3> QED BY <3>1, <3>2
  <2>4. MessageSame(w, m)
    BY <1>1, <1>2, <1>3, <1>6, <2>2, <2>3 DEF MessageSame
  <2> QED BY <1>3, <1>6, <2>4, MessageKept DEF ChatOK, Only
<1>10. \A x \in t.item : x \in topic
  BY <1>4
<1>11. ASSUME NEW it \in Messages \X Texts PROVE TextOK(it)'
  <2>0. it \in Items /\ TextOK(it)
    BY DEF Items, ChatOK
  <2>1. CASE it \notin topic
    <3>1. TextSame(w, it)
      BY <1>1, <1>2, <1>3, <1>5, <1>10, <2>0, <2>1 DEF TextSame
    <3> QED BY <1>3, <1>6, <2>0, <3>1, TextKept DEF Only
  <2>2. CASE it \in topic /\ Owing(t, it)
    <3>1. t.item = {} /\ u.item = {} /\ it[2] = what
      BY <1>3, <1>4, <2>2
    <3>2. Owes(w, it)
      BY <1>2, <2>2 DEF Owes
    <3>3. /\ posted[it] = 0 /\ it \notin draft /\ About(it) = {}
          /\ inbox[it[1]] # None /\ (inbox[it[1]] = "HUMAN" => Lapsed({"turned"}, it[1]))
          /\ \A q \in Workers : Owes(q, it) => q = w
      BY <2>0, <3>2 DEF TextOK
    <3>4. \A q \in Workers : ~Owes(q, it)'
      <4>1. ~Owing(u, it)
        BY <1>3, <3>1
      <4> QED BY <1>2, <1>3, <3>3, <4>1, NextOperators DEF Only, Others, Owes
    <3>5. About(it)' = {}
      BY <1>2, <1>3, <3>1, <3>3, NextOperators DEF Only, Others
    <3>6. posted'[it] = 1
      BY <1>5, <2>0, <2>2, <3>3
    <3> QED BY <1>1, <1>6, <3>3, <3>4, <3>5, <3>6 DEF TextOK
  <2>3. CASE it \in topic /\ ~Owing(t, it)
    <3>1. topic = t.item /\ it \in t.item /\ Sending(t, it) /\ it \in u.item /\ ~Sending(u, it)
      BY <1>3, <1>4, <2>3
    <3>2. w \in About(it) /\ Posts(w, it)
      BY <1>2, <3>1, NextOperators DEF Posts
    <3>3. /\ \A q \in Workers : ~Owes(q, it)
          /\ inbox[it[1]] # None /\ (inbox[it[1]] = "HUMAN" => Lapsed({"turned"}, it[1]))
      BY <2>0, <3>2 DEF TextOK
    <3>4. \A q \in Workers : ~Owes(q, it)'
      BY <1>2, <1>3, <2>3, <3>3, NextOperators DEF Only, Others, Owes
    <3>5. /\ \A q : q \in About(it)' <=> q \in About(it)
          /\ \A q \in About(it)' : q = w => ~Posts(q, it)'
      BY <1>2, <1>3, <3>1, NextOperators DEF Only, Others
    <3>6. posted'[it] = posted[it] + 1 /\ posted[it] \in Nat
      BY <1>5, <2>0, <2>3
    <3>7. ~Lapsed(Faults, it) => posted[it] = 0 /\ \A q \in About(it) : q = w
      BY <2>0, <3>2 DEF TextOK
    <3>8. posted'[it] > 0 /\ (~Lapsed(Faults, it)' => posted'[it] <= 1)
      BY <1>6, <3>6, <3>7
    <3>9. \A q \in About(it)', s \in About(it)' : ~Lapsed(Faults, it)' => q = s
      BY <1>6, <3>5, <3>7
    <3> QED BY <1>1, <1>6, <3>2, <3>3, <3>4, <3>5, <3>7, <3>8, <3>9 DEF TextOK
  <2> QED BY <2>1, <2>2, <2>3
<1>12. ASSUME NEW r \in Reminders PROVE ReminderOK(r)'
  <2>0. r \in Items /\ ReminderOK(r) /\ r \notin Messages \X Texts
    BY ChatAssumption DEF Items, ChatOK
  <2>1. CASE r \notin topic
    <3>1. ReminderSame(w, r)
      BY <1>1, <1>2, <1>3, <1>5, <1>10, <2>0, <2>1 DEF ReminderSame
    <3> QED BY <1>3, <1>6, <2>0, <3>1, ReminderKept DEF Only
  <2>2. CASE r \in topic
    <3>1. topic = t.item /\ r \in t.item /\ Sending(t, r) /\ r \in u.item /\ ~Sending(u, r)
      BY <1>3, <1>4, <2>0, <2>2
    <3>2. w \in About(r) /\ Posts(w, r)
      BY <1>2, <3>1, NextOperators DEF Posts
    <3>3. /\ \A q : q \in About(r)' <=> q \in About(r)
          /\ \A q \in About(r)' : q = w => ~Posts(q, r)'
      BY <1>2, <1>3, <3>1, NextOperators DEF Only, Others
    <3>4. posted'[r] = posted[r] + 1 /\ posted[r] \in Nat
      BY <1>5, <2>0, <2>2
    <3>5. ~Lapsed(Faults, r) =>
             posted[r] = 0 /\ \A q \in About(r) : q = w /\ reminder[r].status = "SCHEDULED"
      BY <2>0, <3>2 DEF ReminderOK
    <3>6. posted'[r] > 0 /\ (~Lapsed(Faults, r)' => posted'[r] <= 1)
      BY <1>6, <3>4, <3>5
    <3> QED BY <1>1, <1>6, <3>2, <3>3, <3>5, <3>6 DEF ReminderOK
  <2> QED BY <2>1, <2>2
<1>13. ASSUME NEW v \in Vehicles PROVE VehicleOK(v)'
  <2>1. VehicleSame(w, v)
    BY <1>1, <1>2, <1>3, IntakeAssumption DEF VehicleSame, DueFor
  <2> QED BY <1>3, <1>6, <2>1, VehicleKept DEF ChatOK, Only
<1> QED BY <1>7, <1>8, <1>9, <1>11, <1>12, <1>13 DEF ChatOK

\* A send that fails, after or before the text has gone, excuses what it was about.
LEMMA PostFailsOK ==
    ASSUME NEW w \in Workers, ChatOK, PostFails(w)
    PROVE  ChatOK'
<1>1. /\ Turn(w, "post") /\ Abandon(w, "failed") /\ UNCHANGED <<inbox, draft, reminder>>
      /\ Reach(talk[w].number, talk[w].customer) /\ Shape(talk[w])
  BY DEF PostFails, ChatOK, WorkerOK
<1>2. PICK t, u, topic : t = talk[w] /\ u = talk'[w] /\ topic = Topic(w)
  OBVIOUS
<1>3. PICK why \in Drops : why = "failed" /\ why \in Faults
  BY DEF Drops, Faults
<1>4. /\ u = Rest /\ Only(w) /\ lapses \subseteq lapses'
      /\ \A whys, x : Lapsed(whys, x)' <=>
            Lapsed(whys, x) \/ (why \in whys /\ (x \in Range(t.mail) \/ x \in topic))
      /\ \A it : Owing(t, it) => it[1] \in Range(t.mail)
      /\ \A x \in t.item : x \in topic
  BY <1>1, <1>2, <1>3, AbandonFacts DEF Mail
<1>5. /\ u.mail = <<>> /\ u.item = {} /\ u.vehicle = None /\ Shape(u) /\ \A it : ~Owing(u, it)
  BY <1>4, RestFacts
<1>6. \A q \in Workers : q # w => talk'[q] = talk[q]
  BY <1>4 DEF Only, Others
<1>7. \/ \E at \in Messages \X Texts : topic = {at} /\ Owing(t, at)
      \/ topic = t.item
  BY <1>1, <1>2, TopicFacts
<1>8. PICK n \in {0, 1} :
         posted' = [x \in Items |-> IF x \in topic THEN posted[x] + n ELSE posted[x]]
  BY <1>2 DEF PostFails
<1>9. /\ posted \in [Items -> Nat] /\ posted' \in [Items -> Nat]
      /\ \A x \in Items : posted'[x] >= posted[x] /\ (x \notin topic => posted'[x] = posted[x])
  BY <1>8 DEF ChatOK, ChatTypeOK
<1>10. ChatTypeOK'
  <2>1. thread' \in [Phones -> ThreadRows]
    BY <1>1, TalkFields, ReachFacts DEF ChatOK, Shape
  <2> QED BY <1>1, <1>4, <1>9, <2>1 DEF ChatOK, ChatTypeOK, Only
<1>11. \A q \in Workers : WorkerOK(q)'
  BY <1>1, <1>2, <1>4, <1>5, WorkersAfter
<1>12. \A whys, x : Lapsed(whys, x)' /\ why \notin whys => Lapsed(whys, x)
  BY <1>4
<1>13. \A m \in Range(t.mail) : Lapsed(Drops, m)'
  BY <1>3, <1>4
<1>14. ASSUME NEW m \in Messages PROVE MessageOK(m)'
  <2>1. Answered(m) => Answered(m)'
    <3>1. ASSUME NEW text \in Texts, posted[<<m, text>>] > 0 PROVE posted'[<<m, text>>] > 0
      <4>1. <<m, text>> \in Items
        BY DEF Items
      <4> QED BY <1>9, <3>1, <4>1
    <3> QED BY <1>1, <1>4, <3>1, LapsedGrows DEF Answered
  <2>2. \A text \in Texts : Owing(t, <<m, text>>) => Lapsed(Drops, m)'
    BY <1>4, <1>13
  <2>3. Lapsed({"delivered"}, m)' => Lapsed({"delivered"}, m)
    BY <1>3, <1>12
  <2>4. MessageSame(w, m)
    BY <1>1, <1>2, <1>13, <2>1, <2>2, <2>3 DEF MessageSame
  <2> QED BY <1>4, <2>4, MessageKept DEF ChatOK, Only
<1>15. ASSUME NEW it \in Messages \X Texts PROVE TextOK(it)'
  <2>0. it \in Items /\ TextOK(it)
    BY DEF Items, ChatOK
  <2>1. CASE it \notin topic
    <3>1. TextSame(w, it)
      BY <1>1, <1>2, <1>4, <1>5, <1>9, <2>0, <2>1 DEF TextSame
    <3> QED BY <1>4, <2>0, <3>1, TextKept DEF Only
  <2>2. CASE it \in topic
    <3>1. Owes(w, it) \/ w \in About(it)
      BY <1>2, <1>7, <2>2, NextOperators DEF Owes
    <3>2. /\ inbox[it[1]] # None /\ (inbox[it[1]] = "HUMAN" => Lapsed({"turned"}, it[1]))
          /\ \A q \in Workers : Owes(q, it) => q = w
      BY <2>0, <3>1 DEF TextOK
    <3>3. \A q \in Workers : ~Owes(q, it)'
      BY <1>2, <1>5, <1>6, <3>2, NextOperators DEF Owes
    <3>4. \A q \in About(it)' : q \in About(it) /\ (Posts(q, it)' <=> Posts(q, it))
      BY <1>2, <1>5, <1>6, NextOperators DEF Posts
    <3>5. \A q \in About(it)' : Posts(q, it)' \/ posted'[it] > 0
      <4>1. \A q \in About(it) : Posts(q, it) \/ posted[it] > 0
        BY <2>0 DEF TextOK
      <4> QED BY <1>9, <2>0, <3>4, <4>1
    <3>6. Lapsed(Faults, it)' /\ (Lapsed({"turned"}, it[1]) => Lapsed({"turned"}, it[1])')
      BY <1>3, <1>4, <2>2
    <3> QED BY <1>1, <3>2, <3>3, <3>5, <3>6 DEF TextOK
  <2> QED BY <2>1, <2>2
<1>16. ASSUME NEW r \in Reminders PROVE ReminderOK(r)'
  <2>0. r \in Items /\ ReminderOK(r)
    BY DEF Items, ChatOK
  <2>1. CASE r \notin topic
    <3>1. ReminderSame(w, r)
      BY <1>1, <1>2, <1>4, <1>5, <1>9, <2>0, <2>1 DEF ReminderSame
    <3> QED BY <1>4, <2>0, <3>1, ReminderKept DEF Only
  <2>2. CASE r \in topic
    <3>1. \A q \in About(r)' : q \in About(r) /\ (Posts(q, r)' <=> Posts(q, r))
      BY <1>2, <1>5, <1>6, NextOperators DEF Posts
    <3>2. /\ \A q \in About(r) : Posts(q, r) \/ posted[r] > 0
          /\ reminder[r].status = "SENT" => posted[r] > 0
      BY <2>0 DEF ReminderOK
    <3>3. posted[r] > 0 => posted'[r] > 0
      BY <1>9, <2>0
    <3>4. Lapsed(Faults, r)'
      BY <1>3, <1>4, <2>2
    <3> QED BY <1>1, <3>1, <3>2, <3>3, <3>4 DEF ReminderOK
  <2> QED BY <2>1, <2>2
<1>17. ASSUME NEW v \in Vehicles PROVE VehicleOK(v)'
  <2>1. VehicleSame(w, v)
    BY <1>1, <1>2, <1>5, IntakeAssumption DEF VehicleSame, DueFor
  <2> QED BY <1>4, <2>1, VehicleKept DEF ChatOK, Only
<1> QED BY <1>10, <1>11, <1>14, <1>15, <1>16, <1>17 DEF ChatOK

-----------------------------------------------------------------------------
(* Approvals and reminders.                                                *)

\* A request about a draft or a reminder that has been sent.
LEMMA AfterFacts ==
    ASSUME NEW w \in Workers, ChatOK, talk[w].todo # <<>>,
           Head(talk[w].todo).call \in {"delete", "mark"}, Done(w)
    PROVE  /\ Only(w) /\ Shape(talk'[w]) /\ talk'[w].vehicle = None /\ talk'[w].item = {}
           /\ talk'[w].mail # <<>> => Preparing(talk'[w].todo) \/ inbox[Head(talk'[w].mail)] # None
           /\ \A it : ~Owing(talk'[w], it) /\ ~Owing(talk[w], it)
           /\ \A m \in Range(talk[w].mail) : m \in Range(talk'[w].mail) \/ inbox[m] # None
           /\ \A x \in talk[w].item : ~Posts(w, x)
           /\ \E x \in Items : talk[w].item = {x} /\ Head(talk[w].todo).call = After(x)
<1>1. Head(talk[w].todo).call \notin Answerings /\ Head(talk[w].todo).call # "post"
  BY DEF Answerings
<1>2. /\ Only(w) /\ Shape(talk[w]) /\ Shape(talk'[w]) /\ talk'[w].vehicle = None
      /\ talk'[w].mail # <<>> => Preparing(talk'[w].todo) \/ inbox[Head(talk'[w].mail)] # None
      /\ \A it : Owing(talk'[w], it) => Owing(talk[w], it)
      /\ \A m \in Range(talk[w].mail) : m \in Range(talk'[w].mail) \/ inbox[m] # None
      /\ \A x \in talk'[w].item : Sending(talk[w], x)
  BY <1>1, DoneMoves
<1>3. \E x \in Items : talk[w].item = {x} /\ Head(talk[w].todo).call = After(x)
  BY <1>2, AfterKind
<1>4. \A it : ~Owing(talk[w], it)
  BY <1>2, <1>3, ItemKind
<1>5. \A x : ~Sending(talk[w], x)
  BY <1>1 DEF Sending
<1> QED BY <1>2, <1>3, <1>4, <1>5 DEF Posts

LEMMA DeleteDraftOK ==
    ASSUME NEW w \in Workers, ChatOK, DeleteDraft(w)
    PROVE  ChatOK'
<1>1. /\ talk[w].todo # <<>> /\ Head(talk[w].todo).call = "delete" /\ Done(w)
      /\ UNCHANGED <<thread, inbox, posted, reminder, lapses>>
  BY DEF DeleteDraft, Turn
<1>2. PICK t, u : t = talk[w] /\ u = talk'[w]
  OBVIOUS
<1>3. /\ Only(w) /\ Shape(u) /\ u.vehicle = None /\ u.item = {}
      /\ u.mail # <<>> => Preparing(u.todo) \/ inbox[Head(u.mail)] # None
      /\ \A it : ~Owing(u, it) /\ ~Owing(t, it)
      /\ \A m \in Range(t.mail) : m \in Range(u.mail) \/ inbox[m] # None
      /\ \A x \in t.item : ~Posts(w, x)
      /\ \E x \in Items : t.item = {x} /\ After(x) = "delete"
  BY <1>1, <1>2, AfterFacts
<1>4. PICK at \in Messages \X Texts : t.item = {at}
  BY <1>3 DEF After, Items
<1>5. draft' = draft \ {at}
  BY <1>2, <1>4 DEF DeleteDraft
<1>6. posted[at] > 0
  BY <1>2, <1>3, <1>4, NextOperators DEF ChatOK, TextOK
<1>7. lapses \subseteq lapses' /\ \A whys, x : Lapsed(whys, x)' <=> Lapsed(whys, x)
  BY <1>1 DEF Lapsed
<1>8. ChatTypeOK'
  BY <1>1, <1>3, <1>5 DEF ChatOK, ChatTypeOK, Only
<1>9. \A q \in Workers : WorkerOK(q)'
  BY <1>1, <1>2, <1>3, WorkersAfter
<1>10. ASSUME NEW m \in Messages PROVE MessageOK(m)'
  <2>1. Answered(m) => Answered(m)'
    BY <1>1, <1>5, <1>6, <1>7 DEF Answered
  <2>2. MessageSame(w, m)
    BY <1>1, <1>2, <1>3, <1>7, <2>1 DEF MessageSame
  <2> QED BY <1>3, <1>7, <2>2, MessageKept DEF ChatOK, Only
<1>11. ASSUME NEW it \in Messages \X Texts PROVE TextOK(it)'
  <2>1. TextSame(w, it)
    BY <1>1, <1>2, <1>3, <1>4, <1>5 DEF TextSame
  <2> QED BY <1>3, <1>7, <2>1, TextKept DEF ChatOK, Only
<1>12. ASSUME NEW r \in Reminders PROVE ReminderOK(r)'
  <2>1. r \notin t.item
    BY <1>4, ChatAssumption
  <2>2. ReminderSame(w, r)
    BY <1>1, <1>2, <1>3, <2>1 DEF ReminderSame
  <2> QED BY <1>3, <1>7, <2>2, ReminderKept DEF ChatOK, Only
<1>13. ASSUME NEW v \in Vehicles PROVE VehicleOK(v)'
  <2>1. VehicleSame(w, v)
    BY <1>1, <1>2, <1>3, IntakeAssumption DEF VehicleSame, DueFor
  <2> QED BY <1>3, <1>7, <2>1, VehicleKept DEF ChatOK, Only
<1> QED BY <1>8, <1>9, <1>10, <1>11, <1>12, <1>13 DEF ChatOK

LEMMA MarkSentOK ==
    ASSUME NEW w \in Workers, ChatOK, MarkSent(w)
    PROVE  ChatOK'
<1>1. /\ talk[w].todo # <<>> /\ Head(talk[w].todo).call = "mark" /\ Done(w)
      /\ UNCHANGED <<thread, inbox, posted, draft, lapses>>
  BY DEF MarkSent, Turn
<1>2. PICK t, u : t = talk[w] /\ u = talk'[w]
  OBVIOUS
<1>3. /\ Only(w) /\ Shape(u) /\ u.vehicle = None /\ u.item = {}
      /\ u.mail # <<>> => Preparing(u.todo) \/ inbox[Head(u.mail)] # None
      /\ \A it : ~Owing(u, it) /\ ~Owing(t, it)
      /\ \A m \in Range(t.mail) : m \in Range(u.mail) \/ inbox[m] # None
      /\ \A x \in t.item : ~Posts(w, x)
      /\ \E x \in Items : t.item = {x} /\ After(x) = "mark"
  BY <1>1, <1>2, AfterFacts
<1>4. PICK at \in Reminders : t.item = {at}
  BY <1>3 DEF After, Items
<1>5. /\ reminder \in [Reminders -> ReminderRows] /\ reminder' \in [Reminders -> ReminderRows]
      /\ \A r \in Reminders : r # at => reminder'[r] = reminder[r]
      /\ reminder'[at].status = "SENT"
  <2>1. reminder' = [r \in Reminders |-> IF r = at THEN [reminder[r] EXCEPT !.status = "SENT"]
                                         ELSE reminder[r]]
    BY <1>2, <1>4 DEF MarkSent
  <2>2. reminder \in [Reminders -> ReminderRows]
    BY DEF ChatOK, ChatTypeOK
  <2>3. \A row \in ReminderRows : /\ [row EXCEPT !.status = "SENT"] \in ReminderRows
                                  /\ [row EXCEPT !.status = "SENT"].status = "SENT"
    BY DEF ReminderRows
  <2> QED BY <2>1, <2>2, <2>3
<1>6. lapses \subseteq lapses' /\ \A whys, x : Lapsed(whys, x)' <=> Lapsed(whys, x)
  BY <1>1 DEF Lapsed
<1>7. ChatTypeOK'
  <2>1. \A r \in Reminders : reminder'[r].status = "SCHEDULED" => reminder'[r].vehicle # None
    BY <1>5 DEF ChatOK, ChatTypeOK
  <2> QED BY <1>1, <1>3, <1>5, <2>1 DEF ChatOK, ChatTypeOK, Only
<1>8. \A q \in Workers : WorkerOK(q)'
  BY <1>1, <1>2, <1>3, WorkersAfter
<1>9. ASSUME NEW m \in Messages PROVE MessageOK(m)'
  <2>1. Answered(m) => Answered(m)'
    BY <1>1, <1>6 DEF Answered
  <2>2. MessageSame(w, m)
    BY <1>1, <1>2, <1>3, <1>6, <2>1 DEF MessageSame
  <2> QED BY <1>3, <1>6, <2>2, MessageKept DEF ChatOK, Only
<1>10. ASSUME NEW it \in Messages \X Texts PROVE TextOK(it)'
  <2>1. it \notin t.item
    BY <1>4, ChatAssumption
  <2>2. TextSame(w, it)
    BY <1>1, <1>2, <1>3, <2>1 DEF TextSame
  <2> QED BY <1>3, <1>6, <2>2, TextKept DEF ChatOK, Only
<1>11. ASSUME NEW r \in Reminders PROVE ReminderOK(r)'
  <2>1. CASE r # at
    <3>1. ReminderSame(w, r)
      BY <1>1, <1>2, <1>3, <1>4, <1>5, <2>1 DEF ReminderSame
    <3> QED BY <1>3, <1>6, <3>1, ReminderKept DEF ChatOK, Only
  <2>2. CASE r = at
    <3>1. ReminderOK(r) /\ w \in About(r) /\ ~Posts(w, r)
      BY <1>2, <1>3, <1>4, <2>2, NextOperators DEF ChatOK
    <3>2. posted[r] > 0
      BY <3>1 DEF ReminderOK
    <3>3. w \notin About(r)' /\ \A q \in About(r)' : q \in About(r)
      BY <1>2, <1>3, NextOperators DEF Only, Others
    <3>4. ~Lapsed(Faults, r)' => posted'[r] <= 1 /\ About(r)' = {}
      BY <1>1, <1>6, <3>1, <3>3 DEF ReminderOK
    <3>5. \A q \in About(r)' : Posts(q, r)' \/ posted'[r] > 0
      BY <1>1, <3>2
    <3> QED BY <1>1, <1>5, <2>2, <3>2, <3>4, <3>5 DEF ReminderOK
  <2> QED BY <2>1, <2>2
<1>12. ASSUME NEW v \in Vehicles PROVE VehicleOK(v)'
  <2>1. DueFor(v)' \subseteq DueFor(v)
    BY <1>5 DEF DueFor
  <2>2. VehicleSame(w, v)
    BY <1>2, <1>3, <2>1, IntakeAssumption DEF VehicleSame
  <2> QED BY <1>3, <1>6, <2>2, VehicleKept DEF ChatOK, Only
<1> QED BY <1>7, <1>8, <1>9, <1>10, <1>11, <1>12 DEF ChatOK

\* A request about x: first it sends, ...
Handles(x, n, c) == [Rest EXCEPT !.item = {x}, !.number = n, !.customer = c,
                                 !.todo = <<Call("post"), Call(After(x))>>]

LEMMA HandlesFacts ==
    ASSUME NEW x \in Items, NEW n, NEW c \in Customers \union {None}
    PROVE  /\ Shape(Handles(x, n, c)) /\ Handles(x, n, c).item = {x}
           /\ Handles(x, n, c).mail = <<>> /\ Handles(x, n, c).vehicle = None
           /\ Sending(Handles(x, n, c), x) /\ \A it : ~Owing(Handles(x, n, c), it)
<1>1. PICK one \in CallNames, after \in CallNames : one = "post" /\ after = After(x)
  BY DEF After, CallNames, Planned
<1>2. PICK todo \in Seq(Calls) : /\ todo = <<Call(one), Call(after)>>
                                 /\ Head(todo).call = one
  BY TwoCalls
<1>3. PICK u : u = [Rest EXCEPT !.item = {x}, !.number = n, !.customer = c, !.todo = todo]
  OBVIOUS
<1>4. /\ u.todo = todo /\ u.mail = <<>> /\ u.item = {x} /\ u.vehicle = None
  BY <1>3 DEF Rest
<1>5. TalkType(u)
  <2>1. <<>> \in Seq(Messages)
    BY EmptySeq
  <2> QED BY <1>3, <2>1 DEF TalkType, Rest, Modes
<1>6. Handling(u) /\ Sending(u, x) /\ \A it : ~Owing(u, it)
  BY <1>1, <1>2, <1>4 DEF Handling, Sending, Owing
<1>7. Shape(u)
  BY <1>5, <1>6 DEF Shape, Kinds
<1>8. Handles(x, n, c) = u
  BY <1>1, <1>2, <1>3 DEF Handles
<1> QED BY <1>4, <1>6, <1>7, <1>8

\* ... and unless one met it, it is the only one about x, which is not sent yet.
LEMMA HandlesOK ==
    ASSUME NEW w \in Workers, ChatOK, NEW x \in Items, NEW n, NEW c \in Customers \union {None},
           talk[w] = Rest, Becomes(w, Handles(x, n, c)), Lapse("met", {y \in {x} : About(y) # {}}),
           UNCHANGED <<thread, inbox, draft, posted, reminder>>,
           x \in draft \/ (x \in Reminders /\ reminder[x].status = "SCHEDULED")
    PROVE  ChatOK'
<1>1. PICK u : u = Handles(x, n, c)
  OBVIOUS
<1>2. /\ Shape(u) /\ u.item = {x} /\ u.mail = <<>> /\ u.vehicle = None /\ Sending(u, x)
      /\ \A it : ~Owing(u, it)
  BY <1>1, HandlesFacts
<1>3. talk'[w] = u /\ Only(w)
  BY <1>1, BecomesFacts DEF ChatOK
<1>4. /\ Rest.item = {} /\ Rest.vehicle = None /\ Range(Rest.mail) = {}
      /\ \A it : ~Owing(Rest, it)
  BY RestFacts, EmptyRange
<1>5. /\ lapses \subseteq lapses'
      /\ \A whys, y : Lapsed(whys, y)' <=>
            Lapsed(whys, y) \/ ("met" \in whys /\ y = x /\ About(x) # {})
  <2>1. /\ lapses \subseteq lapses'
        /\ \A whys, y : Lapsed(whys, y)' <=>
              Lapsed(whys, y) \/ ("met" \in whys /\ y \in {z \in {x} : About(z) # {}})
    BY LapseFacts
  <2> QED BY <2>1
<1>6. ChatTypeOK'
  BY <1>3 DEF ChatOK, ChatTypeOK, Only
<1>7. \A q \in Workers : WorkerOK(q)'
  BY <1>2, <1>3, WorkersAfter
<1>8. ASSUME NEW m \in Messages PROVE MessageOK(m)'
  <2>1. Answered(m) => Answered(m)'
    BY <1>5, LapsedGrows DEF Answered
  <2>2. Lapsed({"delivered"}, m)' => Lapsed({"delivered"}, m)
    BY <1>5
  <2>3. MessageSame(w, m)
    BY <1>4, <2>1, <2>2 DEF MessageSame
  <2> QED BY <1>3, <1>5, <2>3, MessageKept DEF ChatOK, Only
<1>9. \A q \in Workers : q # w => talk'[q] = talk[q]
  BY <1>3 DEF Only, Others
<1>10. /\ \A q : q \in About(x)' <=> q \in About(x) \/ q = w
       /\ \A q \in About(x) : (Posts(q, x)' <=> Posts(q, x))
       /\ Posts(w, x)' /\ w \notin About(x)
  BY <1>2, <1>3, <1>4, <1>9, NextOperators DEF Posts
<1>11. ~Lapsed(Faults, x)' => ~Lapsed(Faults, x) /\ About(x) = {}
  BY <1>5 DEF Faults
<1>12. ASSUME NEW it \in Messages \X Texts PROVE TextOK(it)'
  <2>0. TextOK(it) /\ posted[it] \in Nat
    BY DEF ChatOK, ChatTypeOK, Items
  <2>1. CASE it # x
    <3>1. TextSame(w, it)
      BY <1>2, <1>3, <1>4, <2>1 DEF TextSame
    <3> QED BY <1>3, <1>5, <2>0, <3>1, TextKept DEF Only
  <2>2. CASE it = x
    <3>1. it \in draft
      BY <2>2, ChatAssumption
    <3>2. /\ inbox[it[1]] # None /\ (inbox[it[1]] = "HUMAN" => Lapsed({"turned"}, it[1]))
          /\ \A q \in Workers : ~Owes(q, it)
      BY <2>0, <3>1 DEF TextOK
    <3>3. \A q \in Workers : ~Owes(q, it)'
      BY <1>2, <1>3, <1>9, <3>2, NextOperators DEF Owes
    <3>4. \A q \in About(it)' : Posts(q, it)' \/ posted'[it] > 0
      BY <1>10, <2>0, <2>2 DEF TextOK
    <3>5. ~Lapsed(Faults, it) /\ About(it) = {} => posted[it] = 0
      BY <2>0, <3>1 DEF TextOK
    <3>6. ASSUME ~Lapsed(Faults, it)'
          PROVE  /\ posted'[it] = 0 /\ \A q, s \in About(it)' : q = s
      BY <1>10, <1>11, <2>2, <3>5, <3>6
    <3>7. Lapsed({"turned"}, it[1]) => Lapsed({"turned"}, it[1])'
      BY <1>5
    <3> QED BY <3>2, <3>3, <3>4, <3>6, <3>7 DEF TextOK
  <2> QED BY <2>1, <2>2
<1>13. ASSUME NEW r \in Reminders PROVE ReminderOK(r)'
  <2>0. ReminderOK(r) /\ posted[r] \in Nat
    BY DEF ChatOK, ChatTypeOK, Items
  <2>1. CASE r # x
    <3>1. ReminderSame(w, r)
      BY <1>2, <1>3, <1>4, <2>1 DEF ReminderSame
    <3> QED BY <1>3, <1>5, <2>0, <3>1, ReminderKept DEF Only
  <2>2. CASE r = x
    <3>1. reminder[r].status = "SCHEDULED"
      BY <2>2, ChatAssumption DEF ChatOK, ChatTypeOK
    <3>2. \A q \in About(r)' : Posts(q, r)' \/ posted'[r] > 0
      BY <1>10, <2>0, <2>2 DEF ReminderOK
    <3>3. ~Lapsed(Faults, r) /\ About(r) = {} => posted[r] = 0
      BY <2>0, <3>1 DEF ReminderOK
    <3>4. ASSUME ~Lapsed(Faults, r)'
          PROVE  /\ posted'[r] = 0 /\ \A q, s \in About(r)' : q = s
      BY <1>10, <1>11, <2>2, <3>3, <3>4
    <3> QED BY <3>1, <3>2, <3>4 DEF ReminderOK
  <2> QED BY <2>1, <2>2
<1>14. ASSUME NEW v \in Vehicles PROVE VehicleOK(v)'
  <2>1. VehicleSame(w, v)
    BY <1>2, <1>3, IntakeAssumption DEF VehicleSame, DueFor
  <2> QED BY <1>3, <1>5, <2>1, VehicleKept DEF ChatOK, Only
<1> QED BY <1>6, <1>7, <1>8, <1>12, <1>13, <1>14 DEF ChatOK

LEMMA ApproveOK ==
    ASSUME NEW w \in Workers, ChatOK, NEW d \in draft, Approve(w, d)
    PROVE  ChatOK'
<1>1. d \in Messages \X Texts /\ d \in Items /\ d \notin Reminders
  BY ChatAssumption DEF ChatOK, ChatTypeOK, Items
<1>2. PICK n, c : n = SenderOf[d[1]] /\ c = thread[n].customer
  OBVIOUS
<1>3. c \in Customers \union {None}
  <2>1. n \in Phones /\ thread \in [Phones -> ThreadRows]
    BY <1>1, <1>2, ChatAssumption DEF ChatOK, ChatTypeOK
  <2> QED BY <1>2, <2>1 DEF ThreadRows
<1>4. After(d) = "delete"
  BY <1>1 DEF After
<1>5. Becomes(w, Handles(d, n, c)) /\ talk[w] = Rest
  BY <1>2, <1>4 DEF Approve, Handles, Resting
<1>6. /\ Lapse("met", {y \in {d} : About(y) # {}})
      /\ UNCHANGED <<thread, inbox, draft, posted, reminder>>
  BY DEF Approve
<1> QED BY <1>1, <1>3, <1>5, <1>6, HandlesOK

LEMMA SendReminderOK ==
    ASSUME NEW w \in Workers, ChatOK, IInv, NEW r \in Reminders, SendReminder(w, r)
    PROVE  ChatOK'
<1>1. PICK n, c : /\ c = vehicle[reminder[r].vehicle].owner
                  /\ n = IF wa[c] # None THEN wa[c] ELSE phone[c]
  OBVIOUS
<1>2. c \in Customers \union {None}
  <2>1. reminder \in [Reminders -> ReminderRows] /\ reminder[r].vehicle # None
    BY DEF ChatOK, ChatTypeOK, SendReminder
  <2>2. reminder[r].vehicle \in Vehicles
    BY <2>1 DEF ReminderRows
  <2>3. vehicle \in [Vehicles -> VehicleRows]
    BY DEF IInv, TypeOK
  <2> QED BY <1>1, <2>2, <2>3 DEF VehicleRows
<1>3. r \in Items /\ After(r) = "mark"
  BY DEF Items, After
<1>4. Becomes(w, Handles(r, n, c)) /\ talk[w] = Rest
  BY <1>1, <1>3 DEF SendReminder, Handles, Resting
<1>5. /\ Lapse("met", {y \in {r} : About(y) # {}}) /\ reminder[r].status = "SCHEDULED"
      /\ UNCHANGED <<thread, inbox, draft, posted, reminder>>
  BY DEF SendReminder
<1> QED BY <1>2, <1>3, <1>4, <1>5, HandlesOK

\* scheduleRemindersAction: unless two requests met, no reminder is due when one is made.
LEMMA ScheduleReadOK ==
    ASSUME NEW w \in Workers, ChatOK, NEW v \in Vehicles, ScheduleRead(w, v)
    PROVE  ChatOK'
<1>1. /\ talk[w] = Rest /\ DueFor(v) = {}
      /\ UNCHANGED <<thread, inbox, draft, posted, reminder>>
      /\ Lapse("met", {x \in {v} : \E q \in Workers : talk[q].vehicle = x})
  BY DEF ScheduleRead, Resting
<1>2. PICK name \in CallNames : name = "schedule"
  BY DEF CallNames
<1>3. PICK todo \in Seq(Calls) : todo = <<Call(name)>> /\ Owed(todo) = {}
  BY SingleCall
<1>4. PICK u : u = [Rest EXCEPT !.vehicle = v, !.todo = todo]
  OBVIOUS
<1>5. talk'[w] = u /\ Only(w)
  BY <1>2, <1>3, <1>4, BecomesFacts DEF ScheduleRead, ChatOK
<1>6. u.todo = todo /\ u.mail = <<>> /\ u.item = {} /\ u.vehicle = v
  BY <1>4 DEF Rest
<1>7. TalkType(u)
  <2>1. <<>> \in Seq(Messages)
    BY EmptySeq
  <2> QED BY <1>4, <2>1 DEF TalkType, Rest, Modes
<1>8. v # None
  BY IntakeAssumption
<1>9. Shape(u) /\ \A it : ~Owing(u, it)
  BY <1>2, <1>3, <1>6, <1>7, <1>8 DEF Shape, Kinds, Scheduling, Owing
<1>10. /\ lapses \subseteq lapses'
       /\ \A whys, x : Lapsed(whys, x)' <=>
             \/ Lapsed(whys, x)
             \/ ("met" \in whys /\ x = v /\ \E q \in Workers : talk[q].vehicle = v)
  <2>1. /\ lapses \subseteq lapses'
        /\ \A whys, x : Lapsed(whys, x)' <=> \/ Lapsed(whys, x)
              \/ ("met" \in whys /\ x \in {y \in {v} : \E q \in Workers : talk[q].vehicle = y})
    BY <1>1, LapseFacts
  <2> QED BY <2>1
<1>11. /\ Rest.item = {} /\ \A it : ~Owing(Rest, it)
       /\ Range(Rest.mail) = {}
  BY RestFacts, EmptyRange
<1>12. \A m : Lapsed({"delivered"}, m)' => Lapsed({"delivered"}, m)
  BY <1>10
<1>13. MovesOn(w)
  BY <1>1, <1>5, <1>6, <1>9, <1>11, <1>12 DEF MovesOn
<1>14. VehicleOK(v)'
  <2> SUFFICES ASSUME ~Lapsed({"met"}, v)' PROVE VehicleOK(v)'
    BY DEF VehicleOK
  <2>1. \A q \in Workers : talk[q].vehicle # v
    BY <1>10
  <2>2. \A q \in Workers : talk'[q].vehicle = v => q = w
    BY <1>5, <2>1 DEF Only, Others
  <2>3. DueFor(v)' = {}
    BY <1>1 DEF DueFor
  <2> QED BY <2>2, <2>3 DEF VehicleOK
<1>15. \A k \in Vehicles : talk'[w].vehicle = k => talk[w].vehicle = k \/ VehicleOK(k)'
  BY <1>5, <1>6, <1>14
<1>16. thread' \in [Phones -> ThreadRows]
  BY <1>1 DEF ChatOK, ChatTypeOK
<1> QED BY <1>1, <1>5, <1>10, <1>13, <1>15, <1>16, QuietStep

LEMMA ScheduleOK ==
    ASSUME NEW w \in Workers, ChatOK, Schedule(w)
    PROVE  ChatOK'
<1>1. /\ talk[w].todo # <<>> /\ Head(talk[w].todo).call = "schedule"
      /\ Head(talk[w].todo).call \notin Answerings /\ Done(w)
      /\ UNCHANGED <<thread, inbox, draft, posted, lapses>>
  BY DEF Schedule, Turn, Answerings
<1>2. PICK t, u, v : t = talk[w] /\ u = talk'[w] /\ v = talk[w].vehicle
  OBVIOUS
<1>3. /\ Only(w) /\ Shape(t) /\ Shape(u) /\ u.vehicle = None
      /\ u.mail # <<>> => Preparing(u.todo) \/ inbox[Head(u.mail)] # None
      /\ \A it : Owing(u, it) => Owing(t, it)
      /\ \A m \in Range(t.mail) : m \in Range(u.mail) \/ inbox[m] # None
      /\ \A x \in u.item : x \in t.item
  BY <1>1, <1>2, DoneMoves
<1>4. /\ v \in Vehicles /\ t.item = {} /\ u.item = {} /\ \A it : ~Owing(t, it) /\ ~Owing(u, it)
  <2>1. Scheduling(t)
    BY <1>1, <1>2, <1>3, ScheduleKind
  <2>2. v # None /\ t.item = {} /\ \A it : ~Owing(t, it)
    BY <1>2, <2>1 DEF Scheduling, Owing
  <2>3. v \in Vehicles \union {None}
    BY <1>2, <1>3, TalkFields DEF Shape
  <2> QED BY <1>3, <2>2, <2>3
<1>5. PICK at \in Reminders :
         /\ reminder[at] = NoReminder
         /\ reminder' = [reminder EXCEPT ![at] = [status |-> "SCHEDULED", vehicle |-> v]]
  BY <1>2 DEF Schedule
<1>6. /\ reminder' \in [Reminders -> ReminderRows]
      /\ \A r \in Reminders : r # at => reminder'[r] = reminder[r]
      /\ reminder'[at] = [status |-> "SCHEDULED", vehicle |-> v]
  <2>1. reminder \in [Reminders -> ReminderRows]
    BY DEF ChatOK, ChatTypeOK
  <2>2. [status |-> "SCHEDULED", vehicle |-> v] \in ReminderRows
    BY <1>4 DEF ReminderRows
  <2> QED BY <1>5, <2>1, <2>2
<1>7. lapses \subseteq lapses' /\ \A whys, x : Lapsed(whys, x)' <=> Lapsed(whys, x)
  BY <1>1 DEF Lapsed
<1>8. v # None
  BY <1>4, IntakeAssumption
<1>9. ChatTypeOK'
  <2>1. ASSUME NEW r \in Reminders, reminder'[r].status = "SCHEDULED"
        PROVE  reminder'[r].vehicle # None
    BY <1>6, <1>8, <2>1 DEF ChatOK, ChatTypeOK
  <2> QED BY <1>1, <1>3, <1>6, <2>1 DEF ChatOK, ChatTypeOK, Only
<1>10. \A q \in Workers : WorkerOK(q)'
  BY <1>1, <1>2, <1>3, WorkersAfter
<1>11. ASSUME NEW m \in Messages PROVE MessageOK(m)'
  <2>1. Answered(m) => Answered(m)'
    BY <1>1, <1>7 DEF Answered
  <2>2. MessageSame(w, m)
    BY <1>1, <1>2, <1>3, <1>4, <1>7, <2>1 DEF MessageSame
  <2> QED BY <1>3, <1>7, <2>2, MessageKept DEF ChatOK, Only
<1>12. ASSUME NEW it \in Messages \X Texts PROVE TextOK(it)'
  <2>1. TextSame(w, it)
    BY <1>1, <1>2, <1>3, <1>4 DEF TextSame
  <2> QED BY <1>3, <1>7, <2>1, TextKept DEF ChatOK, Only
<1>13. ASSUME NEW r \in Reminders PROVE ReminderOK(r)'
  <2>1. CASE r # at
    <3>1. ReminderSame(w, r)
      BY <1>1, <1>2, <1>4, <1>6, <2>1 DEF ReminderSame
    <3> QED BY <1>3, <1>7, <3>1, ReminderKept DEF ChatOK, Only
  <2>2. CASE r = at
    <3>1. /\ ReminderOK(r) /\ reminder[r].status = "NONE" /\ reminder'[r].status = "SCHEDULED"
          /\ posted'[r] = posted[r]
      BY <1>1, <1>5, <1>6, <2>2 DEF ChatOK, NoReminder
    <3>2. \A q \in Workers : q # w => talk'[q] = talk[q]
      BY <1>3 DEF Only, Others
    <3>3. /\ \A q : q \in About(r)' <=> q \in About(r)
          /\ \A q \in About(r) : (Posts(q, r)' <=> Posts(q, r))
      BY <1>2, <1>4, <3>2, NextOperators DEF Posts
    <3>4. ~Lapsed(Faults, r) => About(r) = {} /\ posted[r] # 1
      BY <3>1 DEF ReminderOK
    <3> QED BY <1>7, <3>1, <3>3, <3>4 DEF ReminderOK
  <2> QED BY <2>1, <2>2
<1>14. ASSUME NEW k \in Vehicles PROVE VehicleOK(k)'
  <2>1. CASE k # v
    <3>1. DueFor(k)' \subseteq DueFor(k)
      BY <1>6, <2>1 DEF DueFor
    <3>2. VehicleSame(w, k)
      BY <1>2, <1>3, <3>1, IntakeAssumption DEF VehicleSame
    <3> QED BY <1>3, <1>7, <3>2, VehicleKept DEF ChatOK, Only
  <2>2. CASE k = v
    <3> SUFFICES ASSUME ~Lapsed({"met"}, v)' PROVE VehicleOK(v)'
      BY <2>2 DEF VehicleOK
    <3>1. /\ \A q \in Workers : talk[q].vehicle = v => q = w
          /\ DueFor(v) = {}
      BY <1>2, <1>4, <1>7 DEF ChatOK, VehicleOK
    <3>2. \A q \in Workers : talk'[q].vehicle # v
      BY <1>2, <1>3, <1>8, <3>1 DEF Only, Others
    <3>3. \A r \in DueFor(v)' : r = at
      BY <1>6, <3>1 DEF DueFor
    <3> QED BY <3>2, <3>3 DEF VehicleOK
  <2> QED BY <2>1, <2>2
<1> QED BY <1>9, <1>10, <1>11, <1>12, <1>13, <1>14 DEF ChatOK

LEMMA DiscardOK ==
    ASSUME ChatOK, NEW d \in draft, Discard(d)
    PROVE  ChatOK'
<1>1. /\ draft' = draft \ {d} /\ Lapse("discarded", {d})
      /\ UNCHANGED <<thread, inbox, posted, reminder, talk>>
  BY DEF Discard
<1>2. PICK w : Others(w)
  BY <1>1 DEF Others
<1>3. /\ lapses \subseteq lapses'
      /\ \A whys, x : Lapsed(whys, x)' <=> Lapsed(whys, x) \/ ("discarded" \in whys /\ x = d)
  <2>1. /\ lapses \subseteq lapses'
        /\ \A whys, x : Lapsed(whys, x)' <=> Lapsed(whys, x) \/ ("discarded" \in whys /\ x \in {d})
    BY <1>1, LapseFacts
  <2> QED BY <2>1
<1>4. ChatTypeOK'
  BY <1>1 DEF ChatOK, ChatTypeOK
<1>5. \A q \in Workers : WorkerOK(q)'
  BY <1>1 DEF ChatOK, WorkerOK, Message, Shape, TalkType, Kinds, Scheduling, Handling, Receiving,
              Writing, Preparing
<1>6. ASSUME NEW m \in Messages PROVE MessageOK(m)'
  <2>1. Answered(m) => Answered(m)'
    BY <1>1, <1>3 DEF Answered
  <2>2. Lapsed({"delivered"}, m)' => Lapsed({"delivered"}, m)
    BY <1>3
  <2>3. MessageSame(w, m)
    BY <1>1, <2>1, <2>2 DEF MessageSame
  <2> QED BY <1>2, <1>3, <2>3, MessageKept DEF ChatOK
<1>7. ASSUME NEW it \in Messages \X Texts PROVE TextOK(it)'
  <2>1. TextSame(w, it)
    BY <1>1 DEF TextSame
  <2> QED BY <1>2, <1>3, <2>1, TextKept DEF ChatOK
<1>8. ASSUME NEW r \in Reminders PROVE ReminderOK(r)'
  <2>1. ReminderSame(w, r)
    BY <1>1 DEF ReminderSame
  <2> QED BY <1>2, <1>3, <2>1, ReminderKept DEF ChatOK
<1>9. ASSUME NEW v \in Vehicles PROVE VehicleOK(v)'
  <2>1. VehicleSame(w, v)
    BY <1>1 DEF VehicleSame, DueFor
  <2> QED BY <1>2, <1>3, <2>1, VehicleKept DEF ChatOK
<1> QED BY <1>4, <1>5, <1>6, <1>7, <1>8, <1>9 DEF ChatOK

LEMMA CancelReminderOK ==
    ASSUME ChatOK, NEW at \in Reminders, CancelReminder(at)
    PROVE  ChatOK'
<1>1. /\ reminder' = [reminder EXCEPT ![at].status = "CANCELLED"]
      /\ reminder[at].status = "SCHEDULED" /\ Lapse("met", {x \in {at} : About(x) # {}})
      /\ UNCHANGED <<thread, inbox, posted, draft, talk>>
  BY DEF CancelReminder
<1>2. PICK w : Others(w)
  BY <1>1 DEF Others
<1>3. /\ lapses \subseteq lapses'
      /\ \A whys, x : Lapsed(whys, x)' <=>
            Lapsed(whys, x) \/ ("met" \in whys /\ x = at /\ About(at) # {})
  <2>1. /\ lapses \subseteq lapses'
        /\ \A whys, x : Lapsed(whys, x)' <=>
              Lapsed(whys, x) \/ ("met" \in whys /\ x \in {y \in {at} : About(y) # {}})
    BY <1>1, LapseFacts
  <2> QED BY <2>1
<1>4. /\ reminder' \in [Reminders -> ReminderRows]
      /\ \A r \in Reminders : r # at => reminder'[r] = reminder[r]
      /\ reminder'[at].status = "CANCELLED"
  <2>1. reminder \in [Reminders -> ReminderRows]
    BY DEF ChatOK, ChatTypeOK
  <2>2. \A row \in ReminderRows :
           /\ [row EXCEPT !.status = "CANCELLED"] \in ReminderRows
           /\ [row EXCEPT !.status = "CANCELLED"].status = "CANCELLED"
    BY DEF ReminderRows
  <2>3. reminder' = [reminder EXCEPT ![at] = [reminder[at] EXCEPT !.status = "CANCELLED"]]
    BY <1>1
  <2> QED BY <2>1, <2>2, <2>3
<1>5. ChatTypeOK'
  <2>1. \A r \in Reminders : reminder'[r].status = "SCHEDULED" => reminder'[r].vehicle # None
    BY <1>4 DEF ChatOK, ChatTypeOK
  <2> QED BY <1>1, <1>4, <2>1 DEF ChatOK, ChatTypeOK
<1>6. \A q \in Workers : WorkerOK(q)'
  BY <1>1 DEF ChatOK, WorkerOK, Message, Shape, TalkType, Kinds, Scheduling, Handling, Receiving,
              Writing, Preparing
<1>7. ASSUME NEW m \in Messages PROVE MessageOK(m)'
  <2>1. Answered(m) => Answered(m)'
    BY <1>1, <1>3 DEF Answered
  <2>2. Lapsed({"delivered"}, m)' => Lapsed({"delivered"}, m)
    BY <1>3
  <2>3. MessageSame(w, m)
    BY <1>1, <2>1, <2>2 DEF MessageSame
  <2> QED BY <1>2, <1>3, <2>3, MessageKept DEF ChatOK
<1>8. ASSUME NEW it \in Messages \X Texts PROVE TextOK(it)'
  <2>1. TextSame(w, it)
    BY <1>1 DEF TextSame
  <2> QED BY <1>2, <1>3, <2>1, TextKept DEF ChatOK
<1>9. ASSUME NEW r \in Reminders PROVE ReminderOK(r)'
  <2>1. CASE r # at
    <3>1. ReminderSame(w, r)
      BY <1>1, <1>4, <2>1 DEF ReminderSame
    <3> QED BY <1>2, <1>3, <3>1, ReminderKept DEF ChatOK
  <2>2. CASE r = at
    <3>1. ReminderOK(r) /\ reminder[r].status = "SCHEDULED" /\ posted'[r] = posted[r]
      BY <1>1, <2>2 DEF ChatOK
    <3>2. /\ \A q : q \in About(r)' <=> q \in About(r)
          /\ \A q \in About(r) : (Posts(q, r)' <=> Posts(q, r))
      BY <1>1, NextOperators DEF Posts
    <3>3. ~Lapsed(Faults, r)' => ~Lapsed(Faults, r) /\ About(r) = {}
      BY <1>3, <2>2 DEF Faults
    <3>4. ~Lapsed(Faults, r)' => posted[r] <= 1 /\ posted[r] # 1
      BY <3>1, <3>3 DEF ReminderOK
    <3> QED BY <1>4, <2>2, <3>1, <3>2, <3>3, <3>4 DEF ReminderOK
  <2> QED BY <2>1, <2>2
<1>10. ASSUME NEW v \in Vehicles PROVE VehicleOK(v)'
  <2>1. DueFor(v)' \subseteq DueFor(v)
    BY <1>4 DEF DueFor
  <2>2. VehicleSame(w, v)
    BY <1>1, <2>1 DEF VehicleSame
  <2> QED BY <1>2, <1>3, <2>2, VehicleKept DEF ChatOK
<1> QED BY <1>5, <1>6, <1>7, <1>8, <1>9, <1>10 DEF ChatOK

-----------------------------------------------------------------------------
(* The chat as a whole.                                                    *)

LEMMA ChatInitOK == FrontInit => ChatOK
<1> SUFFICES ASSUME FrontInit PROVE ChatOK
  OBVIOUS
<1>1. /\ thread = [n \in Phones |-> NoThread] /\ inbox = [m \in Messages |-> None] /\ draft = {}
      /\ posted = [x \in Items |-> 0] /\ reminder = [r \in Reminders |-> NoReminder]
      /\ talk = [w \in Workers |-> Rest] /\ lapses = {}
  BY DEF FrontInit, ChatInit
<1>2. \A w \in Workers : talk[w] = Rest
  BY <1>1
<1>3. /\ Rest.mail = <<>> /\ Rest.item = {} /\ Rest.vehicle = None
      /\ Shape(Rest) /\ \A it : ~Owing(Rest, it)
  BY RestFacts
<1>4. ChatTypeOK
  <2>1. NoThread \in ThreadRows /\ NoReminder \in ReminderRows /\ NoReminder.status = "NONE"
    BY DEF NoThread, NoReminder, ThreadRows, ReminderRows, Modes
  <2>2. talk = [w \in Workers |-> talk[w]]
    BY <1>1
  <2> QED BY <1>1, <2>1, <2>2 DEF ChatTypeOK
<1>5. \A whys, x : ~Lapsed(whys, x)
  BY <1>1 DEF Lapsed
<1>6. \A x : About(x) = {}
  BY <1>2, <1>3 DEF About
<1>7. \A w \in Workers : \A it : ~Owes(w, it)
  BY <1>2, <1>3 DEF Owes
<1>8. \A w \in Workers : WorkerOK(w)
  BY <1>2, <1>3 DEF WorkerOK
<1>9. \A m \in Messages : MessageOK(m)
  <2>1. \A m \in Messages : inbox[m] # "BOT"
    BY <1>1, ChatAssumption
  <2> QED BY <1>5, <2>1 DEF MessageOK
<1>10. \A it \in Messages \X Texts : TextOK(it)
  <2>1. \A it \in Messages \X Texts : posted[it] = 0
    BY <1>1 DEF Items
  <2> QED BY <1>1, <1>6, <1>7, <2>1 DEF TextOK
<1>11. \A r \in Reminders : ReminderOK(r)
  <2>1. \A r \in Reminders : posted[r] = 0 /\ reminder[r].status = "NONE"
    BY <1>1 DEF Items, NoReminder
  <2> QED BY <1>6, <2>1 DEF ReminderOK
<1>12. \A v \in Vehicles : VehicleOK(v)
  <2>1. \A v \in Vehicles : DueFor(v) = {}
    BY <1>1 DEF DueFor, NoReminder
  <2>2. \A w \in Workers : talk[w].vehicle = None
    BY <1>2, <1>3
  <2> QED BY <2>1, <2>2, IntakeAssumption DEF VehicleOK
<1> QED BY <1>4, <1>8, <1>9, <1>10, <1>11, <1>12 DEF ChatOK

LEMMA ChatStepOK == IInv /\ ChatOK /\ [FrontNext]_frontVars => ChatOK'
<1> SUFFICES ASSUME IInv, ChatOK, [FrontNext]_frontVars PROVE ChatOK'
  OBVIOUS
<1>0. thread \in [Phones -> ThreadRows]
  BY DEF ChatOK, ChatTypeOK
<1>1. CASE Reception \/ UNCHANGED frontVars
  BY <1>0, <1>1, AsideStep DEF Reception, frontVars, chatVars
<1>2. ASSUME NEW w \in Workers, WebhookStep(w) PROVE ChatOK'
  <2>1. ASSUME NEW mail \in Payloads, Webhook(w, mail) PROVE ChatOK'
    BY <2>1, WebhookStepOK
  <2>2. CASE FindCustomer(w) \/ CreateCustomer(w) \/ OpenThread(w) \/ Seen(w) \/ Record(w)
    BY <2>2, FindCustomerOK, CreateCustomerOK, OpenThreadOK, SeenOK, RecordOK
  <2>3. CASE SetStatus(w, "open", "OPEN") \/ SetStatus(w, "flag", "NEEDS_HUMAN")
    <3>1. PICK call \in {"open", "flag"}, status \in {"OPEN", "NEEDS_HUMAN"} :
             SetStatus(w, call, status)
      BY <2>3
    <3> QED BY <3>1, SetStatusOK
  <2>4. CASE QueueDraft(w) \/ Post(w) \/ PostFails(w) \/ KillChat(w)
    BY <2>4, QueueDraftOK, PostOK, PostFailsOK, KillChatOK
  <2> QED BY <1>2, <2>1, <2>2, <2>3, <2>4 DEF WebhookStep
<1>3. ASSUME NEW w \in Workers, AdvisorStep(w) PROVE ChatOK'
  <2>1. ASSUME NEW d \in draft, Approve(w, d) PROVE ChatOK'
    BY <2>1, ApproveOK
  <2>2. ASSUME NEW n \in Phones, Manual(w, n) PROVE ChatOK'
    BY <2>2, ManualOK
  <2>3. ASSUME NEW v \in Vehicles, ScheduleRead(w, v) PROVE ChatOK'
    BY <2>3, ScheduleReadOK
  <2>4. ASSUME NEW r \in Reminders, SendReminder(w, r) PROVE ChatOK'
    BY <2>4, SendReminderOK
  <2>5. CASE DeleteDraft(w) \/ Schedule(w) \/ MarkSent(w)
    BY <2>5, DeleteDraftOK, ScheduleOK, MarkSentOK
  <2> QED BY <1>3, <2>1, <2>2, <2>3, <2>4, <2>5 DEF AdvisorStep
<1>4. ASSUME NEW n \in Phones, SetMode(n, "HUMAN") \/ SetMode(n, "BOT") PROVE ChatOK'
  <2>1. PICK mode \in Modes : SetMode(n, mode)
    BY <1>4 DEF Modes
  <2> QED BY <2>1, SetModeOK
<1>5. ASSUME NEW d \in draft, Discard(d) PROVE ChatOK'
  BY <1>5, DiscardOK
<1>6. ASSUME NEW r \in Reminders, CancelReminder(r) PROVE ChatOK'
  BY <1>6, CancelReminderOK
<1> QED BY <1>1, <1>2, <1>3, <1>4, <1>5, <1>6 DEF FrontNext

\* The invariant of the chat, and of the reception it shares customers and vehicles
\* with, holds for any number of messages, numbers, reminders and requests, whatever
\* payloads Meta delivers again and whichever calls fail or are killed.
THEOREM ChatHolds == FrontSpec => [](IInv /\ ChatOK)
<1>1. FrontInit => IInv /\ ChatOK
  BY InitInv, ChatInitOK DEF FrontInit
<1>2. IInv /\ ChatOK /\ [FrontNext]_frontVars => (IInv /\ ChatOK)'
  BY FrontStepInv, ChatStepOK
<1> QED BY <1>1, <1>2, PTL DEF FrontSpec

\* What comes in is answered and what is to go out once goes out once, however the
\* payloads, calls, kills and failures, the advisors and the reception interleave,
\* unless one of the named excuses is on record.
THEOREM NothingIsLostOrTwice == FrontSpec => []NothingLostOrTwice
BY ChatHolds, ChatOKSuffices, PTL
=============================================================================
