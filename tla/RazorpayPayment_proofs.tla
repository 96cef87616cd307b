----------------------- MODULE RazorpayPayment_proofs -----------------------
(***************************************************************************)
(* What RazorpayPayment guarantees for any number of codes and of          *)
(* requests, webhooks and driver's apps side by side: it implements        *)
(* Settlement, and the code on the customer's screen is the trip's.        *)
(***************************************************************************)
EXTENDS RazorpayPayment, FiniteSetTheorems, TLAPS

AppOps   == {"find", "check", "live", "create", "save", "confirm", "cash", "word"}
EventOps == {"credited", "confirmEvent"}

\* What a request remembers at each of its steps, and what it may rely on.
RequestOK(r) ==
  \/ r = Rest
  \/ /\ r = [op |-> r.op, code |-> r.code]
     /\ r.op \in AppOps
     /\ r.code \in Codes \union {NoCode}
     /\ r.op \in {"find", "check", "live", "confirm"} => r.code # NoCode
  \/ /\ r = [op |-> r.op, code |-> r.code, amount |-> r.amount]
     /\ r.op \in EventOps
     /\ r.code \in Codes
     /\ r.amount \in Amounts

TypeInv ==
  /\ gateway \in {"razorpay", "upi_static"}
  /\ serial \in BOOLEAN
  /\ stage \in [Codes -> Stages]
  /\ credits \in [Codes -> SUBSET Amounts]
  /\ shown \subseteq Codes
  /\ trip \in [code: Codes \union {NoCode}, provider: {"none", "razorpay", "upi_static", "cash"},
               reference: Codes \union {Open, Cash, Word}]
  /\ debited \in BOOLEAN
  /\ req = [w \in Workers |-> req[w]]
  /\ \A w \in Workers : RequestOK(req[w])

\* A request that is about to book a payment knows of one.
Sound(r) ==
  /\ r.op = "confirm" => "fare" \in credits[r.code]
  /\ r.op = "word" => ~Verifies
  /\ r.op \in EventOps => r.amount \in credits[r.code]
  /\ r.op = "confirmEvent" => r.amount = "fare"

AllSound == \A w \in Workers : Sound(req[w])

BookInv == TypeInv /\ AllSound

\* Codes are numbered in the order in which the provider issued them.
Numbered == \E k \in 0 .. MaxCodes : {c \in Codes : stage[c] # "none"} = 1 .. k

\* Whatever names a code names one the provider has issued.
NamesIssued ==
  /\ \A c \in shown : stage[c] # "none"
  /\ trip.code \in Codes => stage[trip.code] # "none"
  /\ \A w \in Workers : req[w].op \in AppOps /\ req[w].code \in Codes => stage[req[w].code] # "none"

\* Without a provider that knows there are no codes, and the trip's code is one of the
\* provider's until cash is booked.
CodeIsLive ==
  /\ ~Verifies => /\ shown = {} /\ trip.code = NoCode
                  /\ \A w \in Workers : req[w].op \in AppOps => req[w].code = NoCode
  /\ trip.reference = Open => trip.code = NoCode \/ trip.provider = gateway

OneApp ==
  \A v, w \in Workers : req[v].op \in AppOps /\ req[w].op \in AppOps => v = w

\* The app's one request works on the code of the trip; when it has decided to replace it,
\* nobody can pay with what the customer has seen.
OnTripCode ==
  \A w \in Workers :
    /\ req[w].op \in {"find", "check", "live", "confirm"} => req[w].code = trip.code
    /\ req[w].op \in {"create", "save"} => \A c \in shown : stage[c] # "young"

ScanInv ==
  /\ Numbered /\ NamesIssued /\ CodeIsLive
  /\ serial => OneApp /\ OnTripCode
  /\ ScanLeadsToTrip

\* A step replaces one record of the table of requests.
LEMMA SetRequest ==
  ASSUME TypeInv, NEW w \in Workers, NEW r, RequestOK(r), req' = [req EXCEPT ![w] = r]
  PROVE  /\ req' = [v \in Workers |-> req'[v]]
         /\ \A v \in Workers : RequestOK(req'[v])
         /\ req'[w] = r
         /\ \A v \in Workers \ {w} : req'[v] = req[v]
<1>1. req = [v \in Workers |-> req[v]] /\ \A v \in Workers : RequestOK(req[v])
  BY DEF TypeInv
<1>2. /\ req' = [v \in Workers |-> req'[v]]
      /\ req'[w] = r
      /\ \A v \in Workers \ {w} : req'[v] = req[v]
  BY <1>1
<1>3. \A v \in Workers : RequestOK(req'[v])
  <2> SUFFICES ASSUME NEW v \in Workers PROVE RequestOK(req'[v])
    OBVIOUS
  <2> QED BY <1>1, <1>2
<1> QED BY <1>2, <1>3

\* The shape of a request follows from its step.
LEMMA Shapes ==
  ASSUME TypeInv, NEW w \in Workers
  PROVE  /\ req[w].op \in AppOps =>
              /\ req[w] = [op |-> req[w].op, code |-> req[w].code]
              /\ req[w].code \in Codes \union {NoCode}
              /\ req[w].op \in {"find", "check", "live", "confirm"} => req[w].code \in Codes
         /\ req[w].op \in EventOps =>
              /\ req[w] = [op |-> req[w].op, code |-> req[w].code, amount |-> req[w].amount]
              /\ req[w].code \in Codes /\ req[w].amount \in Amounts
<1>1. RequestOK(req[w])
  BY DEF TypeInv
<1> QED BY <1>1 DEF RequestOK, AppOps, EventOps, Rest

\* Moving on keeps what a request remembers.
LEMMA ThenApp ==
  ASSUME TypeInv, NEW w \in Workers, NEW op, Then(w, op), req[w].op \in AppOps
  PROVE  req' = [req EXCEPT ![w] = [op |-> op, code |-> req[w].code]]
<1> DEFINE c == req[w].code
           o == req[w].op
<1>1. req[w] = [op |-> o, code |-> c]
  BY Shapes
<1> HIDE DEF c, o
<1>2. [req[w] EXCEPT !.op = op] = [op |-> op, code |-> c]
  BY <1>1
<1> QED BY <1>2 DEF Then, c

\* What a webhook's request is after its next step.
LEMMA ThenEvent ==
  ASSUME TypeInv, NEW w \in Workers, NEW op, Then(w, op), req[w].op \in EventOps
  PROVE  req' = [req EXCEPT ![w] = [op |-> op, code |-> req[w].code, amount |-> req[w].amount]]
<1> DEFINE c == req[w].code
           o == req[w].op
           a == req[w].amount
<1>1. req[w] = [op |-> o, code |-> c, amount |-> a]
  BY Shapes
<1> HIDE DEF c, o, a
<1>2. [req[w] EXCEPT !.op = op] = [op |-> op, code |-> c, amount |-> a]
  BY <1>1
<1> QED BY <1>2 DEF Then, c, a

----------------------------------------------------------------------------
(* Every booking is of money the provider holds or of cash.                *)

\* A step of one request, with credits that only grow.
LEMMA StepBookInv ==
  ASSUME BookInv, NEW w \in Workers, NEW r, RequestOK(r), req' = [req EXCEPT ![w] = r],
         gateway' = gateway, serial' = serial, credits' = credits,
         stage' \in [Codes -> Stages], shown' \subseteq Codes, debited' \in BOOLEAN,
         trip' \in [code: Codes \union {NoCode}, provider: {"none", "razorpay", "upi_static", "cash"},
                    reference: Codes \union {Open, Cash, Word}],
         Sound(r)
  PROVE  BookInv'
<1>1. /\ req' = [v \in Workers |-> req'[v]]
      /\ \A v \in Workers : RequestOK(req'[v])
      /\ req'[w] = r
      /\ \A v \in Workers \ {w} : req'[v] = req[v]
  BY SetRequest DEF BookInv
<1>2. TypeInv'
  BY <1>1 DEF BookInv, TypeInv, RequestOK, AppOps, EventOps, Codes, NoCode, Amounts, Rest, Stages
<1>3. AllSound'
  <2> SUFFICES ASSUME NEW v \in Workers PROVE Sound(req[v])'
    BY DEF AllSound
  <2>1. CASE v = w
    BY <1>1, <2>1 DEF Sound, Verifies
  <2>2. CASE v # w
    BY <1>1, <2>2 DEF BookInv, AllSound, Sound, Verifies
  <2> QED BY <2>1, <2>2
<1> QED BY <1>2, <1>3 DEF BookInv

\* The request alone moves.
LEMMA QuietBookInv ==
  ASSUME BookInv, NEW w \in Workers, NEW r, RequestOK(r), req' = [req EXCEPT ![w] = r],
         UNCHANGED <<trip, debited, world, fixed>>, Sound(r)
  PROVE  BookInv'
<1>1. UNCHANGED <<gateway, serial, credits, stage, shown, debited, trip>>
  BY DEF world, fixed
<1> QED BY <1>1, StepBookInv DEF BookInv, TypeInv

\* A request that ends.
LEMMA RestOK == RequestOK(Rest) /\ Sound(Rest)
BY DEF RequestOK, Rest, Sound, EventOps

\* The driver's three requests, at their first read.
LEMMA AppFetchStep ==
  ASSUME BookInv, NEW w \in Workers, ShowFetch(w) \/ CheckFetch(w) \/ CashFetch(w)
  PROVE  BookInv'
<1>1. PICK op \in {"find", "create", "check", "word", "cash"} :
        /\ DriverAsks(w, op)
        /\ op \in {"find", "check"} => trip.code # NoCode
        /\ op = "word" => ~Verifies
  BY DEF ShowFetch, CheckFetch, CashFetch, HasCode
<1> DEFINE r == [op |-> op, code |-> trip.code]
<1>2. trip.code \in Codes \union {NoCode}
  BY DEF BookInv, TypeInv
<1>3. RequestOK(r)
  BY <1>1, <1>2 DEF RequestOK, AppOps
<1>4. Sound(r)
  BY <1>1 DEF Sound, EventOps
<1>5. req' = [req EXCEPT ![w] = r] /\ UNCHANGED <<trip, debited, world, fixed>>
  BY <1>1 DEF DriverAsks, Accept
<1> HIDE DEF r
<1> QED BY <1>3, <1>4, <1>5, QuietBookInv

\* The provider is asked what was paid, and the code on the screen may be shown again.
LEMMA AppLookStep ==
  ASSUME BookInv, NEW w \in Workers, Find(w) \/ ShowLive(w)
  PROVE  BookInv'
<1> DEFINE c == req[w].code
           r(op) == [op |-> op, code |-> c]
<1>0. TypeInv /\ req[w].op \in AppOps
  BY DEF BookInv, Find, ShowLive, AppOps
<1>1. c \in Codes
  BY <1>0, Shapes DEF Find, ShowLive
<1>2. c # NoCode
  BY <1>1 DEF Codes, NoCode
<1>3. \A op \in {"live", "create", "confirm"} : RequestOK(r(op))
  BY <1>1, <1>2 DEF RequestOK, AppOps
<1>4. CASE Find(w)
  <2>1. CASE Covered(PaidOn(c))
    <3>1. Sound(r("confirm"))
      BY <2>1 DEF Covered, PaidOn, Sound, EventOps
    <3>2. req' = [req EXCEPT ![w] = r("confirm")]
      BY <1>0, <1>4, <2>1, ThenApp DEF Find
    <3> QED BY <1>3, <1>4, <3>1, <3>2, QuietBookInv DEF Find
  <2>2. CASE ~Covered(PaidOn(c)) /\ req[w].op = "find"
    <3>1. Sound(r("live"))
      BY DEF Sound, EventOps
    <3>2. req' = [req EXCEPT ![w] = r("live")]
      BY <1>0, <1>4, <2>2, ThenApp DEF Find
    <3> QED BY <1>3, <1>4, <3>1, <3>2, QuietBookInv DEF Find
  <2>3. CASE ~Covered(PaidOn(c)) /\ req[w].op # "find"
    BY <1>4, <2>3, RestOK, QuietBookInv DEF Find, Return
  <2> QED BY <2>1, <2>2, <2>3
<1>5. CASE ShowLive(w)
  <2>0. UNCHANGED <<trip, debited, stage, credits, due, fixed>>
    BY <1>5 DEF ShowLive
  <2>1. CASE EnoughTime(c)
    <3>1. req' = [req EXCEPT ![w] = Rest] /\ shown' = shown \union {c}
      BY <1>5, <2>1 DEF ShowLive, Return
    <3> QED BY <1>0, <1>1, <2>0, <3>1, RestOK, StepBookInv DEF TypeInv, fixed
  <2>2. CASE ~EnoughTime(c)
    <3>1. Sound(r("create"))
      BY DEF Sound, EventOps
    <3>2. req' = [req EXCEPT ![w] = r("create")] /\ UNCHANGED shown
      BY <1>0, <1>5, <2>2, ThenApp DEF ShowLive
    <3> QED BY <1>3, <2>0, <3>1, <3>2, QuietBookInv DEF world
  <2> QED BY <2>1, <2>2
<1> QED BY <1>4, <1>5

\* A new code is issued and saved with the trip.
LEMMA AppCreateStep ==
  ASSUME BookInv, NEW w \in Workers, NEW c \in Codes \union {NoCode}, Create(w, c)
  PROVE  BookInv'
<1> DEFINE r == [op |-> "save", code |-> c]
<1>1. RequestOK(r) /\ Sound(r)
  BY DEF RequestOK, AppOps, Sound, EventOps
<1>2. req' = [req EXCEPT ![w] = r] /\ UNCHANGED <<trip, debited, credits, shown, due, fixed>>
  BY DEF Create
<1>3. stage' \in [Codes -> Stages]
  BY DEF Create, Issued, BookInv, TypeInv, Stages
<1> HIDE DEF r
<1> QED BY <1>1, <1>2, <1>3, StepBookInv DEF BookInv, TypeInv, fixed

\* show_qr's save of the screen it made.
LEMMA AppSaveStep ==
  ASSUME BookInv, NEW w \in Workers, ShowSave(w)
  PROVE  BookInv'
<1>0. TypeInv /\ req[w].op \in AppOps
  BY DEF BookInv, ShowSave, AppOps
<1>1. req[w].code \in Codes \union {NoCode}
  BY <1>0, Shapes
<1>2. trip' \in [code: Codes \union {NoCode}, provider: {"none", "razorpay", "upi_static", "cash"},
                 reference: Codes \union {Open, Cash, Word}]
  BY <1>0, <1>1 DEF ShowSave, TypeInv
<1>3. shown' \subseteq Codes
  BY <1>0, <1>1 DEF ShowSave, TypeInv
<1> QED BY <1>0, <1>2, <1>3, RestOK, StepBookInv DEF ShowSave, Return, TypeInv, fixed

\* Every booking goes through Book, with the row's lock.
LEMMA BookType ==
  ASSUME TypeInv, NEW w \in Workers, req[w].op \in {"confirm", "cash", "word", "confirmEvent"}, Book(req[w])
  PROVE  /\ debited' \in BOOLEAN
         /\ trip' \in [code: Codes \union {NoCode}, provider: {"none", "razorpay", "upi_static", "cash"},
                       reference: Codes \union {Open, Cash, Word}]
<1>1. Reference(req[w]) \in Codes \union {Open, Cash, Word}
  BY Shapes DEF Reference, AppOps, EventOps
<1> QED BY <1>1 DEF Book, TypeInv

\* Confirming a payment, from the app or from a webhook.
LEMMA ConfirmStep ==
  ASSUME BookInv, NEW w \in Workers, Confirm(w) \/ WebhookConfirm(w)
  PROVE  BookInv'
<1>1. /\ Book(req[w]) /\ req[w].op \in {"confirm", "cash", "word", "confirmEvent"}
      /\ req' = [req EXCEPT ![w] = Rest]
      /\ UNCHANGED <<stage, credits, shown, gateway, serial>>
  BY DEF Confirm, WebhookConfirm, Return, world, fixed
<1>2. /\ debited' \in BOOLEAN
      /\ trip' \in [code: Codes \union {NoCode}, provider: {"none", "razorpay", "upi_static", "cash"},
                    reference: Codes \union {Open, Cash, Word}]
  BY <1>1, BookType DEF BookInv
<1> QED BY <1>1, <1>2, RestOK, StepBookInv DEF BookInv, TypeInv

\* A webhook that comes in, and the row it looks for.
LEMMA WebhookStep ==
  ASSUME BookInv, NEW w \in Workers,
         (\E c \in Codes, a \in Amounts : Deliver(w, c, a)) \/ WebhookLook(w)
  PROVE  BookInv'
<1>1. CASE \E c \in Codes, a \in Amounts : Deliver(w, c, a)
  <2>1. PICK c \in Codes, a \in Amounts : Deliver(w, c, a)
    BY <1>1
  <2> DEFINE r == [op |-> "credited", code |-> c, amount |-> a]
  <2>2. RequestOK(r) /\ Sound(r)
    BY <2>1 DEF RequestOK, EventOps, Deliver, Sound
  <2>3. req' = [req EXCEPT ![w] = r] /\ UNCHANGED <<trip, debited, world, fixed>>
    BY <2>1 DEF Deliver, Accept
  <2> HIDE DEF r
  <2> QED BY <2>2, <2>3, QuietBookInv
<1>2. CASE WebhookLook(w)
  <2> DEFINE r == [op |-> "confirmEvent", code |-> req[w].code, amount |-> req[w].amount]
  <2>0. /\ TypeInv /\ Sound(req[w]) /\ req[w].op = "credited" /\ req[w].op \in EventOps
        /\ UNCHANGED <<trip, debited, stage, credits, shown, fixed>>
    BY <1>2 DEF BookInv, AllSound, WebhookLook, EventOps
  <2>1. CASE ToConfirm(req[w])
    <3>1. RequestOK(r) /\ Sound(r)
      BY <2>0, <2>1, Shapes DEF RequestOK, EventOps, ToConfirm, Sound
    <3>2. req' = [req EXCEPT ![w] = r]
      BY <1>2, <2>0, <2>1, ThenEvent DEF WebhookLook
    <3> HIDE DEF r
    <3> QED BY <2>0, <3>1, <3>2, StepBookInv DEF TypeInv, fixed
  <2>2. CASE ~ToConfirm(req[w])
    BY <1>2, <2>0, <2>2, RestOK, StepBookInv DEF WebhookLook, Return, TypeInv, fixed
  <2> QED BY <2>1, <2>2
<1> QED BY <1>1, <1>2

\* The customer pays, and time passes.
LEMMA WorldStep ==
  ASSUME BookInv, NEW c \in Codes, TimePasses(c) \/ \E a \in Amounts : Pay(c, a)
  PROVE  BookInv'
<1>1. UNCHANGED <<shown, server, fixed>>
  BY DEF TimePasses, Pay
<1>2. stage' \in [Codes -> Stages] /\ credits' \in [Codes -> SUBSET Amounts]
  BY DEF TimePasses, Pay, BookInv, TypeInv, Stages
<1>3. \A d \in Codes : credits[d] \subseteq credits'[d]
  BY DEF TimePasses, Pay, BookInv, TypeInv
<1>4. TypeInv'
  BY <1>1, <1>2 DEF BookInv, TypeInv, server, fixed
<1>5. AllSound'
  <2> SUFFICES ASSUME NEW w \in Workers PROVE Sound(req[w])'
    BY DEF AllSound
  <2>1. req'[w] = req[w] /\ Sound(req[w]) /\ gateway' = gateway
    BY <1>1 DEF BookInv, AllSound, server, fixed
  <2>2. req[w].op \in {"confirm"} \union EventOps => req[w].code \in Codes
    BY Shapes DEF BookInv, AppOps
  <2> QED BY <1>3, <2>1, <2>2 DEF Sound, Verifies
<1> QED BY <1>4, <1>5 DEF BookInv

\* Before the first request nothing is booked.
LEMMA BookInvInit == Init => BookInv
<1> SUFFICES ASSUME Init PROVE BookInv
  OBVIOUS
<1>1. req = [w \in Workers |-> req[w]] /\ \A w \in Workers : RequestOK(req[w]) /\ Sound(req[w])
  BY RestOK DEF Init
<1>2. TypeInv
  BY <1>1 DEF Init, TypeInv, Stages
<1> QED BY <1>1, <1>2 DEF BookInv, AllSound

\* No step books what is not known.
LEMMA BookInvStep == BookInv /\ [Next]_vars => BookInv'
<1> SUFFICES ASSUME BookInv, [Next]_vars PROVE BookInv'
  OBVIOUS
<1>1. ASSUME NEW w \in Workers, Fail(w) PROVE BookInv'
  BY <1>1, RestOK, QuietBookInv DEF Fail, Return
<1>2. ASSUME NEW w \in Workers, Worker(w) PROVE BookInv'
  BY <1>1, <1>2, AppFetchStep, AppLookStep, AppCreateStep, AppSaveStep, ConfirmStep, WebhookStep DEF Worker
<1>3. ASSUME NEW c \in Codes, TimePasses(c) \/ \E a \in Amounts : Pay(c, a) PROVE BookInv'
  BY <1>3, WorldStep
<1>4. CASE UNCHANGED vars
  BY <1>4 DEF vars, BookInv, TypeInv, AllSound, Sound, Verifies
<1> QED BY <1>2, <1>3, <1>4 DEF Next

\* However the app's requests and the provider's webhooks interleave, and wherever one of
\* them dies, a request that is about to book a payment knows of one: find_payment or a
\* webhook saw the fare, or nobody could check.
THEOREM BookingsAreKnown == Spec => []BookInv
BY BookInvInit, BookInvStep, PTL DEF Spec

----------------------------------------------------------------------------
(* RazorpayPayment implements Settlement.                                  *)

Received == {c \in Codes : "fare" \in credits[c]}

\* Book is Settlement's Book, or finds the trip already booked.
LEMMA BookImplements ==
  ASSUME BookInv, NEW w \in Workers, Confirm(w) \/ WebhookConfirm(w)
  PROVE  [Settling!Next]_Settling!vars
<1> DEFINE r == req[w]
<1>0. /\ r.op \in {"confirm", "cash", "word", "confirmEvent"} /\ Book(r)
      /\ UNCHANGED <<gateway, credits>>
      /\ TypeInv /\ Sound(r)
  BY DEF Confirm, WebhookConfirm, BookInv, AllSound, world, fixed
<1>1. UNCHANGED Received /\ UNCHANGED (gateway = "upi_static")
  BY <1>0 DEF Received
<1>2. CASE trip.reference # Open
  BY <1>0, <1>1, <1>2 DEF Book, Settling!vars, Received
<1>3. CASE trip.reference = Open
  <2>1. /\ trip' = [trip EXCEPT !.reference = Reference(r), !.provider = IF r.op = "cash" THEN "cash" ELSE @]
        /\ debited' = (r.op = "cash")
    BY <1>0, <1>3 DEF Book
  <2>2. trip'.reference = Reference(r)
    BY <1>0, <2>1 DEF TypeInv
  <2>3. CASE r.op = "cash"
    <3>1. Reference(r) = Cash
      BY <2>3 DEF Reference
    <3> QED BY <1>1, <1>3, <2>1, <2>2, <2>3, <3>1 DEF Settling!Next, Settling!Book, Received
  <2>4. CASE r.op = "word"
    <3>1. Reference(r) = Word /\ gateway = "upi_static"
      BY <1>0, <2>4 DEF Reference, Sound, Verifies, TypeInv
    <3> QED BY <1>1, <1>3, <2>1, <2>2, <2>4, <3>1, ReferenceAssumption DEF Settling!Next, Settling!Book, Received
  <2>5. CASE r.op \in {"confirm", "confirmEvent"}
    <3>1. Reference(r) = r.code
      BY <2>5 DEF Reference
    <3>2. r.code \in Codes
      BY <1>0, <2>5, Shapes DEF AppOps, EventOps
    <3>3. r.code \in Received
      BY <1>0, <2>5, <3>2 DEF Sound, EventOps, Received
    <3>4. r.code # Cash
      BY <3>2, ReferenceAssumption, MaxCodesAssumption DEF Codes
    <3> QED BY <1>1, <1>3, <2>1, <2>2, <2>5, <3>1, <3>2, <3>3, <3>4 DEF Settling!Next, Settling!Book, Received
  <2> QED BY <1>0, <2>3, <2>4, <2>5
<1> QED BY <1>2, <1>3

\* A payment in full is what Settlement receives; everything else it does not see.
LEMMA StepImplements ==
  ASSUME BookInv, [Next]_vars
  PROVE  [Settling!Next]_Settling!vars
<1>1. ASSUME NEW w \in Workers, Worker(w), ~Confirm(w), ~WebhookConfirm(w)
      PROVE  UNCHANGED <<credits, gateway, trip.reference, debited>>
  <2>1. CASE ShowSave(w)
    <3>1. trip' = [trip EXCEPT !.code = req[w].code, !.provider = gateway]
      BY <2>1 DEF ShowSave
    <3>2. trip'.reference = trip.reference
      BY <3>1 DEF BookInv, TypeInv
    <3> QED BY <2>1, <3>2 DEF ShowSave, fixed
  <2>2. CASE ~ShowSave(w)
    BY <1>1, <2>2 DEF Worker, ShowFetch, CheckFetch, CashFetch, DriverAsks, Find, ShowLive, Create,
         Deliver, WebhookLook, Fail, world, fixed
  <2> QED BY <2>1, <2>2
<1>2. ASSUME NEW w \in Workers, Worker(w) PROVE [Settling!Next]_Settling!vars
  BY <1>1, <1>2, BookImplements DEF Settling!vars
<1>3. ASSUME NEW c \in Codes, NEW a \in Amounts, Pay(c, a) PROVE [Settling!Next]_Settling!vars
  <2>0. UNCHANGED <<gateway, trip, debited>> /\ credits \in [Codes -> SUBSET Amounts]
        /\ credits' = [credits EXCEPT ![c] = @ \union {a}]
    BY <1>3 DEF Pay, server, fixed, BookInv, TypeInv
  <2>1. CASE a = "fare"
    <3>1. Received' = Received \union {c}
      BY <2>0, <2>1 DEF Received
    <3> QED BY <2>0, <3>1 DEF Received, Settling!Next, Settling!Receive
  <2>2. CASE a # "fare"
    <3>1. Received' = Received
      BY <2>0, <2>2 DEF Received
    <3> QED BY <2>0, <3>1 DEF Received, Settling!vars
  <2> QED BY <2>1, <2>2
<1>4. ASSUME NEW c \in Codes, TimePasses(c) PROVE [Settling!Next]_Settling!vars
  BY <1>4 DEF TimePasses, server, fixed, Settling!vars
<1>5. CASE UNCHANGED vars
  BY <1>5 DEF vars, Settling!vars
<1> QED BY <1>2, <1>3, <1>4, <1>5 DEF Next

\* confirm_payment, collect_cod_payment and apply_razorpay_event implement Settlement, with
\* any number of codes and requests: one booking, of a payment the provider holds or of
\* cash that is debited with it, whichever of them comes first.
THEOREM ImplementsSettlement == Spec => Settles
<1>1. Init => Settling!Init
  BY DEF Init, Settling!Init
<1>2. BookInv /\ [Next]_vars => [Settling!Next]_Settling!vars
  BY StepImplements
<1>3. Spec => Settling!Spec
  BY <1>1, <1>2, BookingsAreKnown, PTL DEF Spec, Settling!Spec
<1> QED BY <1>3 DEF Settles

----------------------------------------------------------------------------
(* The code on the customer's screen.                                      *)

PInv == BookInv /\ ScanInv

\* Steps that move one request and leave codes, trip and screen alone, or only let time pass.
\* What is new about the request is that it may have begun to work on the code of the trip.
LEMMA ScanKept ==
  ASSUME PInv, BookInv', NEW w \in Workers, NEW r, RequestOK(r), req' = [req EXCEPT ![w] = r],
         UNCHANGED <<stage, shown, gateway, serial>>, trip'.code = trip.code,
         trip'.reference = Open => trip' = trip,
         r.op \in AppOps => /\ r.code = trip.code \/ (req[w].op \in AppOps /\ r.code = req[w].code)
                            /\ serial => \A v \in Workers \ {w} : req[v].op \notin AppOps,
         serial /\ r.op \in {"find", "check", "live", "confirm"} => r.code = trip.code,
         serial /\ r.op \in {"create", "save"} => \A c \in shown : stage[c] # "young"
  PROVE  ScanInv'
<1>1. /\ req'[w] = r
      /\ \A v \in Workers \ {w} : req'[v] = req[v]
  BY SetRequest DEF PInv, BookInv
<1>2. Numbered' /\ ScanLeadsToTrip'
  BY DEF PInv, ScanInv, Numbered, ScanLeadsToTrip, NoCode, Codes
<1>3. NamesIssued'
  <2>1. \A v \in Workers : req'[v].op \in AppOps /\ req'[v].code \in Codes => stage[req'[v].code] # "none"
    BY <1>1 DEF PInv, ScanInv, NamesIssued
  <2> QED BY <2>1 DEF PInv, ScanInv, NamesIssued, Codes
<1>4. CodeIsLive'
  <2>1. ~Verifies => \A v \in Workers : req'[v].op \in AppOps => req'[v].code = NoCode
    BY <1>1 DEF PInv, ScanInv, CodeIsLive
  <2> QED BY <2>1 DEF PInv, ScanInv, CodeIsLive, Verifies, NoCode
<1>5. serial => OneApp' /\ OnTripCode'
  <2> SUFFICES ASSUME serial PROVE OneApp' /\ OnTripCode'
    OBVIOUS
  <2>1. OneApp'
    BY <1>1 DEF PInv, ScanInv, OneApp
  <2>2. OnTripCode'
    BY <1>1 DEF PInv, ScanInv, OnTripCode
  <2> QED BY <2>1, <2>2
<1> QED BY <1>2, <1>3, <1>4, <1>5 DEF ScanInv

\* The driver's three requests: with no code for this provider, nothing the customer has
\* seen can be paid with.
LEMMA AppFetchScan ==
  ASSUME PInv, BookInv', NEW w \in Workers, ShowFetch(w) \/ CheckFetch(w) \/ CashFetch(w)
  PROVE  ScanInv'
<1>1. PICK op \in {"find", "create", "check", "word", "cash"} :
        /\ DriverAsks(w, op)
        /\ op \in {"find", "check"} => trip.code # NoCode
        /\ op = "create" => ~(Verifies /\ HasCode)
  BY DEF ShowFetch, CheckFetch, CashFetch, HasCode
<1> DEFINE r == [op |-> op, code |-> trip.code]
<1>2. RequestOK(r)
  BY <1>1 DEF PInv, BookInv, TypeInv, RequestOK, AppOps
<1>3. req' = [req EXCEPT ![w] = r] /\ UNCHANGED <<trip, stage, shown, gateway, serial>>
  BY <1>1 DEF DriverAsks, Accept, world, fixed
<1>4. serial => \A v \in Workers : req[v].op \notin AppOps
  BY <1>1 DEF DriverAsks, AppOps
<1>5. serial /\ op = "create" => \A c \in shown : stage[c] # "young"
  <2> SUFFICES ASSUME serial, op = "create", NEW c \in shown, stage[c] = "young" PROVE FALSE
    OBVIOUS
  <2>1. trip.code = c /\ c \in Codes
    BY DEF PInv, ScanInv, ScanLeadsToTrip, BookInv, TypeInv
  <2>2. trip.code = NoCode
    BY <1>1 DEF PInv, ScanInv, CodeIsLive, HasCode, DriverAsks
  <2> QED BY <2>1, <2>2 DEF Codes, NoCode
<1>6. r.op = op /\ r.code = trip.code
  OBVIOUS
<1> HIDE DEF r
<1> QED BY <1>1, <1>2, <1>3, <1>4, <1>5, <1>6, ScanKept

\* A request that ends without having changed the trip or the screen.
LEMMA RestScan ==
  ASSUME PInv, BookInv', NEW w \in Workers, req' = [req EXCEPT ![w] = Rest],
         UNCHANGED <<stage, shown, gateway, serial>>, trip'.code = trip.code,
         trip'.reference = Open => trip' = trip
  PROVE  ScanInv'
<1>1. Rest.op = "idle"
  BY DEF Rest
<1> QED BY <1>1, RestOK, ScanKept DEF AppOps

\* Only one request of the app is under way while its answers are waited for.
LEMMA Alone ==
  ASSUME PInv, serial, NEW w \in Workers, req[w].op \in AppOps
  PROVE  \A v \in Workers \ {w} : req[v].op \notin AppOps
BY DEF PInv, ScanInv, OneApp

\* find_payment, and a code that may be shown again: it is the code of the trip.
LEMMA AppLookScan ==
  ASSUME PInv, BookInv', NEW w \in Workers, Find(w) \/ ShowLive(w)
  PROVE  ScanInv'
<1> DEFINE c == req[w].code
           r(op) == [op |-> op, code |-> c]
<1>0. BookInv /\ TypeInv /\ ScanInv /\ req[w].op \in AppOps /\ UNCHANGED <<trip, stage, gateway, serial>>
  BY DEF PInv, BookInv, Find, ShowLive, AppOps, world, fixed
<1>1. c \in Codes /\ c # NoCode
  <2>1. c \in Codes
    BY <1>0, Shapes DEF Find, ShowLive
  <2> QED BY <2>1 DEF Codes, NoCode
<1>2. serial => c = trip.code /\ \A v \in Workers \ {w} : req[v].op \notin AppOps
  BY <1>0, Alone DEF ScanInv, OnTripCode, Find, ShowLive
<1>3. \A op \in {"live", "create", "confirm"} : RequestOK(r(op)) /\ r(op).op = op /\ r(op).code = c
  BY <1>1 DEF RequestOK, AppOps
<1>4. CASE Find(w)
  <2>1. CASE req' = [req EXCEPT ![w] = Rest]
    BY <1>0, <1>4, <2>1, RestScan DEF Find, world
  <2>2. CASE Then(w, "confirm") \/ Then(w, "live")
    <3>1. PICK op \in {"confirm", "live"} : req' = [req EXCEPT ![w] = r(op)]
      BY <1>0, <2>2, ThenApp
    <3>2. UNCHANGED shown
      BY <1>4 DEF Find, world
    <3> HIDE DEF r
    <3> QED BY <1>0, <1>2, <1>3, <3>1, <3>2, ScanKept
  <2> QED BY <1>4, <2>1, <2>2 DEF Find, Return
<1>5. CASE ShowLive(w) /\ ~EnoughTime(c)
  <2>1. req' = [req EXCEPT ![w] = r("create")] /\ UNCHANGED shown
    BY <1>0, <1>5, ThenApp DEF ShowLive
  <2>2. serial => \A d \in shown : stage[d] # "young"
    BY <1>0, <1>2, <1>5 DEF EnoughTime, ScanInv, ScanLeadsToTrip
  <2> HIDE DEF r
  <2> QED BY <1>0, <1>2, <1>3, <2>1, <2>2, ScanKept
<1>6. CASE ShowLive(w) /\ EnoughTime(c)
  <2>1. req' = [req EXCEPT ![w] = Rest] /\ shown' = shown \union {c}
    BY <1>6 DEF ShowLive, Return
  <2>2. /\ req'[w] = Rest
        /\ \A v \in Workers \ {w} : req'[v] = req[v]
        /\ Rest.op \notin AppOps
    BY <1>0, <2>1, RestOK, SetRequest DEF Rest, AppOps
  <2>3. Numbered'
    BY <1>0 DEF ScanInv, Numbered
  <2>4. NamesIssued'
    BY <1>0, <1>1, <2>1, <2>2 DEF ScanInv, NamesIssued
  <2>5. CodeIsLive'
    BY <1>0, <1>1, <2>2 DEF ScanInv, CodeIsLive, Verifies
  <2>6. serial => OneApp' /\ OnTripCode'
    BY <1>0, <1>2, <2>2 DEF ScanInv, OneApp, OnTripCode, AppOps
  <2>7. ScanLeadsToTrip'
    BY <1>0, <1>2, <2>1 DEF ScanInv, ScanLeadsToTrip
  <2> QED BY <1>0, <2>3, <2>4, <2>5, <2>6, <2>7 DEF ScanInv
<1> QED BY <1>4, <1>5, <1>6

\* create_qr: the provider issues the next code.
LEMMA CreateScan ==
  ASSUME PInv, BookInv', NEW w \in Workers, NEW c \in Codes \union {NoCode}, Create(w, c)
  PROVE  ScanInv'
<1> DEFINE r == [op |-> "save", code |-> c]
<1>0. /\ BookInv /\ TypeInv /\ ScanInv /\ req[w].op = "create" /\ req[w].op \in AppOps
      /\ UNCHANGED <<trip, shown, gateway, serial>>
  BY DEF PInv, BookInv, Create, AppOps, fixed
<1>1. req' = [req EXCEPT ![w] = r] /\ RequestOK(r) /\ r.op = "save" /\ r.code = c
  BY DEF Create, RequestOK, AppOps
<1>2. serial => /\ \A d \in shown : stage[d] # "young"
                /\ \A v \in Workers \ {w} : req[v].op \notin AppOps
  BY <1>0, Alone DEF ScanInv, OnTripCode
<1> HIDE DEF r
<1>3. req'[w] = r /\ \A v \in Workers \ {w} : req'[v] = req[v]
  BY <1>0, <1>1, SetRequest
<1>4. PICK k \in 0 .. MaxCodes : {d \in Codes : stage[d] # "none"} = 1 .. k
  BY <1>0 DEF ScanInv, Numbered
<1>5. Verifies => /\ c = k + 1 /\ c \in Codes /\ stage[c] = "none"
                  /\ stage' = [stage EXCEPT ![c] = "young"]
  <2> SUFFICES ASSUME Verifies
               PROVE  c = k + 1 /\ c \in Codes /\ stage[c] = "none" /\ stage' = [stage EXCEPT ![c] = "young"]
    OBVIOUS
  <2>1. c = Cardinality(1 .. k) + 1 /\ stage' = [stage EXCEPT ![c] = "young"]
    BY <1>4 DEF Create, Issued
  <2>2. Cardinality(1 .. k) = k
    BY <1>4, FS_Interval
  <2>3. c \in Codes /\ c \notin 1 .. k
    BY <1>4, <2>1, <2>2, MaxCodesAssumption DEF Codes, NoCode
  <2> QED BY <1>4, <2>1, <2>2, <2>3
<1>6. ~Verifies => c = NoCode /\ UNCHANGED stage
  BY DEF Create
<1>7. \A d \in Codes : d # c => stage'[d] = stage[d]
  BY <1>0, <1>5, <1>6 DEF TypeInv
<1>8. c \in Codes => Verifies /\ stage'[c] = "young"
  <2>1. c \in Codes => Verifies
    BY <1>6 DEF Codes, NoCode
  <2> QED BY <1>0, <1>5, <2>1 DEF TypeInv
<1>9. Numbered'
  <2>1. CASE Verifies
    <3>1. {d \in Codes : stage'[d] # "none"} = {d \in Codes : stage[d] # "none"} \union {c}
      BY <1>5, <1>7, <1>8, <2>1
    <3>2. (1 .. k) \union {c} = 1 .. (k + 1) /\ k + 1 \in 0 .. MaxCodes
      BY <1>5, <2>1, MaxCodesAssumption DEF Codes
    <3> QED BY <1>4, <3>1, <3>2 DEF Numbered
  <2>2. CASE ~Verifies
    BY <1>0, <1>6, <2>2 DEF ScanInv, Numbered
  <2> QED BY <2>1, <2>2
<1>10. NamesIssued'
  <2>1. \A d \in Codes : stage[d] # "none" => stage'[d] # "none"
    BY <1>7, <1>8
  <2>2. \A v \in Workers : req'[v].op \in AppOps /\ req'[v].code \in Codes => stage'[req'[v].code] # "none"
    BY <1>0, <1>1, <1>3, <1>8, <2>1 DEF ScanInv, NamesIssued
  <2> QED BY <1>0, <2>1, <2>2 DEF ScanInv, NamesIssued, TypeInv
<1>11. CodeIsLive'
  BY <1>0, <1>1, <1>3, <1>6 DEF ScanInv, CodeIsLive, Verifies
<1>12. \A d \in shown : stage'[d] = stage[d]
  <2>1. c \in Codes => c \notin shown
    BY <1>0, <1>5, <1>8 DEF ScanInv, NamesIssued
  <2> QED BY <1>0, <1>7, <2>1 DEF TypeInv
<1>13. serial => OneApp' /\ OnTripCode'
  BY <1>0, <1>1, <1>2, <1>3, <1>12 DEF ScanInv, OneApp, OnTripCode, AppOps
<1>14. ScanLeadsToTrip'
  BY <1>0, <1>12 DEF ScanInv, ScanLeadsToTrip
<1> QED BY <1>0, <1>9, <1>10, <1>11, <1>13, <1>14 DEF ScanInv

\* The new code becomes the code of the trip and the customer sees it: whatever they saw
\* before can no longer be paid with in time.
LEMMA SaveScan ==
  ASSUME PInv, BookInv', NEW w \in Workers, ShowSave(w)
  PROVE  ScanInv'
<1> DEFINE c == req[w].code
<1>0. /\ BookInv /\ TypeInv /\ ScanInv /\ req[w].op = "save" /\ req[w].op \in AppOps
      /\ req' = [req EXCEPT ![w] = Rest]
      /\ shown' = shown \union ({c} \ {NoCode})
      /\ UNCHANGED <<stage, gateway, serial>>
  BY DEF PInv, BookInv, ShowSave, AppOps, Return, fixed
<1>1. c \in Codes \union {NoCode} /\ (c \in Codes => stage[c] # "none" /\ Verifies)
  <2>1. c \in Codes \union {NoCode}
    BY <1>0, Shapes
  <2>2. c \in Codes => c # NoCode
    BY DEF Codes, NoCode
  <2> QED BY <1>0, <2>1, <2>2 DEF ScanInv, NamesIssued, CodeIsLive
<1>2. trip'.code = c /\ trip'.provider = gateway /\ trip'.reference = trip.reference
  BY <1>0 DEF ShowSave, TypeInv
<1>3. /\ req'[w] = Rest
      /\ \A v \in Workers \ {w} : req'[v] = req[v]
      /\ Rest.op \notin AppOps
  BY <1>0, RestOK, SetRequest DEF Rest, AppOps
<1>4. serial => /\ \A d \in shown : stage[d] # "young"
                /\ \A v \in Workers : req'[v].op \notin AppOps
  BY <1>0, <1>3, Alone DEF ScanInv, OnTripCode
<1>5. Numbered'
  BY <1>0 DEF ScanInv, Numbered
<1>6. NamesIssued'
  BY <1>0, <1>1, <1>2, <1>3 DEF ScanInv, NamesIssued
<1>7. CodeIsLive'
  BY <1>0, <1>1, <1>2, <1>3 DEF ScanInv, CodeIsLive, Verifies, NoCode
<1>8. serial => OneApp' /\ OnTripCode'
  BY <1>0, <1>4 DEF OneApp, OnTripCode, AppOps
<1>9. ScanLeadsToTrip'
  BY <1>0, <1>1, <1>2, <1>4 DEF ScanLeadsToTrip, NoCode
<1> QED BY <1>0, <1>5, <1>6, <1>7, <1>8, <1>9 DEF ScanInv

\* Booking leaves the code where it is.
LEMMA ConfirmScan ==
  ASSUME PInv, BookInv', NEW w \in Workers, Confirm(w) \/ WebhookConfirm(w)
  PROVE  ScanInv'
<1>0. /\ BookInv /\ TypeInv /\ Book(req[w])
      /\ req[w].op \in {"confirm", "cash", "word", "confirmEvent"}
      /\ req' = [req EXCEPT ![w] = Rest]
      /\ UNCHANGED <<stage, shown, gateway, serial>>
  BY DEF PInv, BookInv, Confirm, WebhookConfirm, Return, world, fixed
<1>1. trip'.code = trip.code /\ (trip'.reference = Open => trip' = trip)
  <2>1. Reference(req[w]) # Open
    <3>1. req[w].op \in {"confirm", "confirmEvent"} => req[w].code \in Codes
      BY <1>0, Shapes DEF AppOps, EventOps
    <3>2. Open \notin Codes
      BY ReferenceAssumption, MaxCodesAssumption DEF Codes
    <3> QED BY <1>0, <3>1, <3>2, ReferenceAssumption DEF Reference
  <2> QED BY <1>0, <2>1 DEF Book, TypeInv
<1> QED BY <1>0, <1>1, RestScan

\* A webhook neither names the trip's code anew nor shows one.
LEMMA WebhookScan ==
  ASSUME PInv, BookInv', NEW w \in Workers,
         (\E c \in Codes, a \in Amounts : Deliver(w, c, a)) \/ WebhookLook(w)
  PROVE  ScanInv'
<1>0. UNCHANGED <<trip, stage, shown, gateway, serial>> /\ BookInv /\ TypeInv
  BY DEF PInv, BookInv, Deliver, WebhookLook, world, fixed
<1>1. CASE \E c \in Codes, a \in Amounts : Deliver(w, c, a)
  <2>1. PICK c \in Codes, a \in Amounts : Deliver(w, c, a)
    BY <1>1
  <2> DEFINE r == [op |-> "credited", code |-> c, amount |-> a]
  <2>2. RequestOK(r) /\ req' = [req EXCEPT ![w] = r] /\ r.op = "credited"
    BY <2>1 DEF RequestOK, EventOps, Deliver, Accept
  <2> HIDE DEF r
  <2> QED BY <1>0, <2>2, ScanKept DEF AppOps
<1>2. CASE WebhookLook(w) /\ ToConfirm(req[w])
  <2> DEFINE r == [op |-> "confirmEvent", code |-> req[w].code, amount |-> req[w].amount]
  <2>0. req[w].op \in EventOps
    BY <1>2 DEF WebhookLook, EventOps
  <2>1. RequestOK(r) /\ r.op = "confirmEvent"
    BY <1>0, <2>0, Shapes DEF RequestOK, EventOps
  <2>2. req' = [req EXCEPT ![w] = r]
    BY <1>0, <1>2, <2>0, ThenEvent DEF WebhookLook
  <2> HIDE DEF r
  <2> QED BY <1>0, <2>1, <2>2, ScanKept DEF AppOps
<1>3. CASE WebhookLook(w) /\ ~ToConfirm(req[w])
  BY <1>0, <1>3, RestScan DEF WebhookLook, Return
<1> QED BY <1>1, <1>2, <1>3

\* A code that is paid with or runs out is not young any more.
LEMMA WorldScan ==
  ASSUME PInv, BookInv', NEW c \in Codes, TimePasses(c) \/ \E a \in Amounts : Pay(c, a)
  PROVE  ScanInv'
<1>0. UNCHANGED <<shown, trip, req, gateway, serial>> /\ TypeInv /\ ScanInv
  BY DEF PInv, BookInv, TimePasses, Pay, server, fixed
<1>1. /\ \A d \in Codes : stage[d] = "none" <=> stage'[d] = "none"
      /\ \A d \in Codes : stage'[d] = "young" => stage[d] = "young"
  BY <1>0 DEF TimePasses, Pay, TypeInv
<1>2. Numbered'
  <2>1. {d \in Codes : stage'[d] # "none"} = {d \in Codes : stage[d] # "none"}
    BY <1>1
  <2> QED BY <1>0, <2>1 DEF ScanInv, Numbered
<1>3. NamesIssued'
  BY <1>0, <1>1 DEF ScanInv, NamesIssued, TypeInv
<1>4. CodeIsLive'
  BY <1>0 DEF ScanInv, CodeIsLive, Verifies
<1>5. (serial => OneApp' /\ OnTripCode') /\ ScanLeadsToTrip'
  BY <1>0, <1>1 DEF ScanInv, OneApp, OnTripCode, ScanLeadsToTrip, TypeInv
<1> QED BY <1>0, <1>2, <1>3, <1>4, <1>5 DEF ScanInv

\* Before the first request the screen shows nothing.
LEMMA PInvInit == Init => PInv
<1> SUFFICES ASSUME Init PROVE ScanInv
  BY BookInvInit DEF PInv
<1>1. Numbered
  <2>1. {c \in Codes : stage[c] # "none"} = 1 .. 0
    BY DEF Init
  <2> QED BY <2>1, MaxCodesAssumption DEF Numbered
<1>2. NamesIssued /\ CodeIsLive /\ OneApp /\ OnTripCode /\ ScanLeadsToTrip
  BY DEF Init, NamesIssued, CodeIsLive, OneApp, OnTripCode, ScanLeadsToTrip, Rest, AppOps, Codes, NoCode
<1> QED BY <1>1, <1>2 DEF ScanInv

\* Every step keeps what is true of the screen.
LEMMA PInvStep == PInv /\ [Next]_vars => PInv'
<1> SUFFICES ASSUME PInv, [Next]_vars PROVE PInv'
  OBVIOUS
<1>0. BookInv'
  BY BookInvStep DEF PInv
<1>1. ASSUME NEW w \in Workers, Fail(w) PROVE ScanInv'
  BY <1>0, <1>1, RestScan DEF Fail, Return, world, fixed
<1>2. ASSUME NEW w \in Workers, Worker(w) PROVE ScanInv'
  BY <1>0, <1>1, <1>2, AppFetchScan, AppLookScan, CreateScan, SaveScan, ConfirmScan, WebhookScan DEF Worker
<1>3. ASSUME NEW c \in Codes, TimePasses(c) \/ \E a \in Amounts : Pay(c, a) PROVE ScanInv'
  BY <1>0, <1>3, WorldScan
<1>4. ASSUME UNCHANGED vars PROVE ScanInv'
  <2>1. UNCHANGED <<stage, shown, trip, req, gateway, serial>> /\ ScanInv
    BY <1>4 DEF vars, PInv
  <2>2. Numbered' /\ NamesIssued' /\ CodeIsLive'
    BY <2>1 DEF ScanInv, Numbered, NamesIssued, CodeIsLive, Verifies
  <2>3. (serial => OneApp' /\ OnTripCode') /\ ScanLeadsToTrip'
    BY <2>1 DEF ScanInv, OneApp, OnTripCode, ScanLeadsToTrip
  <2> QED BY <2>1, <2>2, <2>3 DEF ScanInv
<1>5. ScanInv'
  BY <1>2, <1>3, <1>4 DEF Next
<1> QED BY <1>0, <1>5 DEF PInv

\* generate_payment_qr: as long as the driver's app waits for its answers, a code the
\* customer has seen and has time for is the trip's, through any number of replacements,
\* lost answers and webhooks in between.
THEOREM ScreenShowsTripCode == Spec => []ScanLeadsToTrip
<1>1. PInv => ScanLeadsToTrip
  BY DEF PInv, ScanInv
<1> QED BY <1>1, PInvInit, PInvStep, PTL DEF Spec
=============================================================================
