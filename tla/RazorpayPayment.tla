-------------------------- MODULE RazorpayPayment --------------------------
(***************************************************************************)
(* Collecting the fare of one cash-on-delivery trip at the drop: the code  *)
(* the customer scans, the provider that knows whether it was paid, its    *)
(* webhooks, the driver who asks or takes cash (trips/payments.py and the  *)
(* payment handlers of trips/services.py).  TripLifecycle models the trip  *)
(* around it and keeps one code; here codes are created, expire, are       *)
(* replaced, and are lost when an answer is.                               *)
(*                                                                         *)
(* The provider is external; scripts/dev_razorpay_stub.py, the stand-in    *)
(* kept with the server, is what it is modelled from.                      *)
(***************************************************************************)
EXTENDS Naturals, FiniteSets

CONSTANTS
  MaxCodes,    \* bound: the codes created for the trip
  Workers,     \* processes that serve requests
  Open, Cash, Word

ASSUME MaxCodesAssumption  == MaxCodes \in Nat \ {0}
ASSUME ReferenceAssumption == /\ {Open, Cash, Word} \cap (0..MaxCodes) = {}
                              /\ Open # Cash /\ Open # Word /\ Cash # Word

VARIABLES
  gateway,   \* settings.PAYMENT_PROVIDER
  serial,    \* the driver's app waits for an answer before it asks again
  \* the provider and the customer
  stage,     \* code -> how much of its time is left
  credits,   \* code -> what was paid on it: too little, the fare, or both
  shown,     \* the codes the customer has seen
  due,       \* the codes whose fare was paid in a webhook not answered yet
  \* the server
  trip,      \* the payment columns of the trip
  debited,   \* the wallet holds a cash debit for the trip
  req        \* worker -> the request it serves

vars == <<gateway, serial, stage, credits, shown, due, trip, debited, req>>

Codes  == 1..MaxCodes
NoCode == 0
Amounts == {"short", "fare"}
Stages == {"none", "young", "closing", "closed"}   \* closing: QR_MIN_REMAINING or less
Rest   == [op |-> "idle"]

Init ==
  /\ gateway \in {"razorpay", "upi_static"}
  /\ serial \in BOOLEAN
  /\ stage = [c \in Codes |-> "none"]
  /\ credits = [c \in Codes |-> {}]
  /\ shown = {}
  /\ due = {}
  /\ trip = [code |-> NoCode, provider |-> "none", reference |-> Open]
  /\ debited = FALSE
  /\ req = [w \in Workers |-> Rest]

Verifies == gateway = "razorpay"
HasCode  == trip.code # NoCode /\ trip.provider = gateway

----------------------------------------------------------------------------
(* The provider and the customer.                                          *)

world  == <<stage, credits, shown, due>>
server == <<trip, debited, req>>
fixed  == <<gateway, serial>>

\* A code that is paid in full is closed, and the webhook is on its way.
Pay(c, amount) ==
  /\ c \in shown
  /\ stage[c] \in {"young", "closing"}
  /\ amount \notin credits[c]
  /\ credits' = [credits EXCEPT ![c] = @ \union {amount}]
  /\ stage' = IF amount = "fare" THEN [stage EXCEPT ![c] = "closed"] ELSE stage
  /\ due' = IF amount = "fare" THEN due \union {c} ELSE due
  /\ UNCHANGED <<shown, server, fixed>>

TimePasses(c) ==
  /\ stage[c] \in {"young", "closing"}
  /\ stage' = [stage EXCEPT ![c] = IF @ = "young" THEN "closing" ELSE "closed"]
  /\ UNCHANGED <<credits, shown, due, server, fixed>>

\* do_POST of the stub: a new code, active.
Issued(c) == [stage EXCEPT ![c] = "young"]

\* do_GET: what was paid with a code.
PaidOn(c) == credits[c]

----------------------------------------------------------------------------
(* Requests.                                                               *)

Accept(w, r) == req[w] = Rest /\ req' = [req EXCEPT ![w] = r]
Then(w, op)  == req' = [req EXCEPT ![w].op = op]
Return(w)    == req' = [req EXCEPT ![w] = Rest]

\* _call: the provider does not answer, refuses, or answers what cannot be read; or
\* the process dies.  A webhook that gets no 200 stays due.
Fail(w) ==
  /\ req[w] # Rest
  /\ Return(w)
  /\ UNCHANGED <<trip, debited, world, fixed>>

\* The driver's three requests start from a copy of an unpaid trip.
DriverAsks(w, op) ==
  /\ serial => \A v \in Workers : req[v].op \in {"idle", "credited", "confirmEvent"}
  /\ trip.reference = Open
  /\ Accept(w, [op |-> op, code |-> trip.code])
  /\ UNCHANGED <<trip, debited, world, fixed>>

\* generate_payment_qr.
ShowFetch(w)  == DriverAsks(w, IF Verifies /\ HasCode THEN "find" ELSE "create")
\* collect_cod_payment with "qr": without a provider that knows, the driver's word counts.
CheckFetch(w) == (Verifies => HasCode) /\ DriverAsks(w, IF Verifies THEN "check" ELSE "word")
\* collect_cod_payment with "cash".
CashFetch(w)  == DriverAsks(w, "cash")

\* Slip: any captured payment will do.
CoveredByAny(amounts) == amounts # {}
\* find_payment: a captured payment that covers the fare.
Covered(amounts) == "fare" \in amounts

\* find_payment; found or not, show and check go on differently.
Find(w) ==
  /\ req[w].op \in {"find", "check"}
  /\ IF Covered(PaidOn(req[w].code)) THEN Then(w, "confirm")
     ELSE IF req[w].op = "find" THEN Then(w, "live") ELSE Return(w)
  /\ UNCHANGED <<trip, debited, world, fixed>>

\* Slip: the time left is not looked at.
EnoughTimeNever(c) == FALSE
EnoughTime(c) == stage[c] = "young"

ShowLive(w) ==
  /\ req[w].op = "live"
  /\ IF EnoughTime(req[w].code) THEN Return(w) /\ shown' = shown \union {req[w].code}
     ELSE Then(w, "create") /\ UNCHANGED shown
  /\ UNCHANGED <<trip, debited, stage, credits, due, fixed>>

\* create_qr: a new code at the provider, at least RAZORPAY_MIN_QR_MINUTES long; the
\* static link has no id.
Create(w, c) ==
  /\ req[w].op = "create"
  /\ IF Verifies
       THEN /\ c = Cardinality({d \in Codes : stage[d] # "none"}) + 1
            /\ stage' = Issued(c)
       ELSE c = NoCode /\ UNCHANGED stage
  /\ req' = [req EXCEPT ![w] = [op |-> "save", code |-> c]]
  /\ UNCHANGED <<trip, debited, credits, shown, due, fixed>>

\* The four payment columns of a copy; then the app shows the code.
ShowSave(w) ==
  /\ req[w].op = "save"
  /\ trip' = [trip EXCEPT !.code = req[w].code, !.provider = gateway]
  /\ shown' = shown \union ({req[w].code} \ {NoCode})
  /\ Return(w)
  /\ UNCHANGED <<debited, stage, credits, due, fixed>>

Reference(r) == CASE r.op = "cash" -> Cash [] r.op = "word" -> Word [] OTHER -> r.code

\* confirm_payment under the row's lock, and for cash the debit that commits with it.
Book(r) ==
  IF trip.reference # Open THEN UNCHANGED <<trip, debited>>
  ELSE /\ trip' = [trip EXCEPT !.reference = Reference(r), !.provider = IF r.op = "cash" THEN "cash" ELSE @]
       /\ debited' = (r.op = "cash")

Confirm(w) ==
  /\ req[w].op \in {"confirm", "cash", "word"}
  /\ Book(req[w])
  /\ Return(w)
  /\ UNCHANGED <<world, fixed>>

----------------------------------------------------------------------------
(* apply_razorpay_event, for an event whose signature is right.            *)

\* The provider sends what is due, and may send it again later.
Deliver(w, c, amount) ==
  /\ amount \in credits[c]
  /\ Accept(w, [op |-> "credited", code |-> c, amount |-> amount])
  /\ UNCHANGED <<trip, debited, world, fixed>>

IsForTrip(r) == trip.code = r.code /\ trip.provider = "razorpay"
ToConfirm(r) == IsForTrip(r) /\ trip.reference = Open /\ r.amount = "fare"

Answered(r) == IF r.amount = "fare" THEN due \ {r.code} ELSE due

\* Slip: the answer is sent before the payment is booked.
WebhookLookEager(w) ==
  /\ req[w].op = "credited"
  /\ due' = Answered(req[w])
  /\ IF ToConfirm(req[w]) THEN Then(w, "confirmEvent") ELSE Return(w)
  /\ UNCHANGED <<trip, debited, stage, credits, shown, fixed>>

\* Unknown, already paid and underpaid are answered with a 200 as well.
WebhookLook(w) ==
  /\ req[w].op = "credited"
  /\ IF ToConfirm(req[w]) THEN Then(w, "confirmEvent") /\ UNCHANGED due
     ELSE Return(w) /\ due' = Answered(req[w])
  /\ UNCHANGED <<trip, debited, stage, credits, shown, fixed>>

WebhookConfirm(w) ==
  /\ req[w].op = "confirmEvent"
  /\ Book(req[w])
  /\ due' = Answered(req[w])
  /\ Return(w)
  /\ UNCHANGED <<stage, credits, shown, fixed>>

----------------------------------------------------------------------------
Worker(w) ==
  \/ ShowFetch(w) \/ CheckFetch(w) \/ CashFetch(w)
  \/ Find(w) \/ ShowLive(w) \/ ShowSave(w) \/ Confirm(w) \/ Fail(w)
  \/ \E c \in Codes \union {NoCode} : Create(w, c)
  \/ \E c \in Codes, a \in Amounts : Deliver(w, c, a)
  \/ WebhookLook(w) \/ WebhookConfirm(w)

Next ==
  \/ \E w \in Workers : Worker(w)
  \/ \E c \in Codes : TimePasses(c) \/ \E a \in Amounts : Pay(c, a)

\* Every request ends (RAZORPAY_TIMEOUT_SECONDS); the provider repeats a webhook until it
\* is answered, and not every attempt fails halfway.
Progress(w) ==
  \/ Find(w) \/ ShowLive(w) \/ ShowSave(w) \/ Confirm(w) \/ Fail(w)
  \/ \E c \in Codes \union {NoCode} : Create(w, c)
For(w, c) == req[w].op \in {"credited", "confirmEvent"} /\ req[w].code = c /\ req[w].amount = "fare"
Insist(c) == c \in due /\ \E w \in Workers : Deliver(w, c, "fare")
Fairness ==
  /\ \A w \in Workers : WF_vars(Progress(w))
  /\ \A c \in Codes :
       /\ SF_vars(Insist(c))
       /\ SF_vars(\E w \in Workers : For(w, c) /\ WebhookLook(w))
       /\ SF_vars(\E w \in Workers : For(w, c) /\ WebhookConfirm(w))

Spec     == Init /\ [][Next]_vars
FairSpec == Spec /\ Fairness

----------------------------------------------------------------------------
(* Properties.                                                             *)

\* confirm_payment, collect_cod_payment and apply_razorpay_event implement Settlement: one
\* booking, of a payment the provider holds or of cash that is debited with it.
Settling == INSTANCE Settlement WITH
  Payments <- Codes,
  received <- {c \in Codes : "fare" \in credits[c]},
  booked   <- trip.reference,
  trusting <- gateway = "upi_static"

Settles == Settling!Spec

\* generate_payment_qr, "one per trip": while the driver's app waits for its answers, a
\* code the customer has seen and still has time for is the code the trip carries, so
\* that paying it is noticed.
ScanLeadsToTrip == \A c \in shown : serial /\ stage[c] = "young" => trip.code = c

\* apply_razorpay_event: a fare paid on the code of the trip gets booked, however often
\* processes die under the webhook, unless the trip gets another code first.
CreditArrives ==
  \A c \in Codes :
    ("fare" \in credits[c] /\ trip.code = c /\ trip.reference = Open)
      ~> (trip.reference # Open \/ trip.code # c)
=============================================================================
