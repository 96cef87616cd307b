------------------------ MODULE TripLifecycle_proofs ------------------------
(***************************************************************************)
(* What TripLifecycle guarantees for any number of trips, drivers, items,   *)
(* stops and concurrent requests.                                           *)
(***************************************************************************)
EXTENDS TripLifecycle, TLAPS

Db == <<tripRow, money, goods, stop>>

DbTypeOK ==
  /\ book      \in [Trips -> Bookings]
  /\ status    \in [Trips -> TripStatus]
  /\ driver    \in [Trips -> Drivers \union {None}]
  /\ payment   \in [Trips -> {"pending", "paid"}]
  /\ reference \in [Trips -> Drivers \union {None, "online"}]
  /\ provider  \in [Trips -> {"none", "qr", "cash"}]
  /\ item      \in [Trips -> [Items -> {"pending", "answered"}]]
  /\ photo     \in [Trips -> SUBSET Photos]
  /\ stop      \in [Trips -> [StopPositions -> {"pending", "arrived", "done"}]]
  /\ cache     \in [Trips -> SUBSET {"otp", "throttle"}]
  /\ ledger    \in [Trips -> Seq(Entry)]

ReqTypeOK ==
  /\ req = [w \in Workers |-> req[w]]
  /\ \A w \in Workers : RequestOK(req[w])

\* What a request may rely on until it is served, whatever the others do.
Sound(r) ==
  /\ r.op \notin {"idle", "create"} => status[r.trip] # "absent"
  /\ r.op = "create" => status[r.trip] = "absent"
  /\ r.op \in {"collect", "collect_ok"} /\ r.arg = "cash" =>
       r.driver \in Drivers /\ driver[r.trip] # None
  /\ r.op \in {"complete", "consume", "finish"} =>
       r.driver \in Drivers /\ (book[r.trip].cod => payment[r.trip] = "paid")

AllSound == \A w \in Workers : Sound(req[w])

CreatesDiffer ==
  \A v, w \in Workers :
    req[v].op = "create" /\ req[w].op = "create" /\ req[v].trip = req[w].trip => v = w

\* A row that is not there yet has nothing attached to it.
AbsentIsBlank ==
  \A t \in Trips : status[t] = "absent" =>
    /\ driver[t] = None /\ payment[t] = "pending" /\ cache[t] = {} /\ ledger[t] = <<>>

PendingHasNoReference == \A t \in Trips : payment[t] = "pending" => reference[t] = None
PaidCodHasReference ==
  \A t \in Trips : book[t].cod /\ payment[t] = "paid" => reference[t] # None

DbInv ==
  /\ DbTypeOK
  /\ AbsentIsBlank /\ PendingHasNoReference /\ PaidCodHasReference
  /\ OneEntryPerKind /\ CashDebitedIffPaidInCash
  /\ FinishedOnlyAfterPayment /\ CompletedIsPaidOut

IInv == DbInv /\ ReqTypeOK /\ AllSound /\ CreatesDiffer

\* No step takes a row, its driver or its payment away; only the request that
\* creates a row makes it appear.
Frame(w) ==
  /\ book' = book
  /\ \A t \in Trips :
       /\ status[t] # "absent" => status'[t] # "absent"
       /\ status[t] = "absent" => status'[t] = "absent" \/ (req[w].op = "create" /\ req[w].trip = t)
       /\ driver[t] # None => driver'[t] # None
       /\ payment[t] = "paid" => payment'[t] = "paid"

\* A step replaces one record of the table of requests.
LEMMA SetType ==
  ASSUME ReqTypeOK, NEW w \in Workers, NEW r, RequestOK(r), req' = [req EXCEPT ![w] = r]
  PROVE  /\ ReqTypeOK'
         /\ req'[w] = r
         /\ \A v \in Workers \ {w} : req'[v] = req[v]
<1>1. req = [v \in Workers |-> req[v]] /\ \A v \in Workers : RequestOK(req[v])
  BY DEF ReqTypeOK
<1>2. /\ req' = [v \in Workers |-> req'[v]]
      /\ req'[w] = r
      /\ \A v \in Workers \ {w} : req'[v] = req[v]
  BY <1>1
<1>3. \A v \in Workers : RequestOK(req'[v])
  <2> SUFFICES ASSUME NEW v \in Workers PROVE RequestOK(req'[v])
    OBVIOUS
  <2> QED BY <1>1, <1>2
<1> QED BY <1>2, <1>3 DEF ReqTypeOK

\* The three ways a step does so.
LEMMA BeginType ==
  ASSUME ReqTypeOK, NEW w \in Workers, NEW op, NEW t, NEW d, NEW x,
         Begin(w, op, t, d, x),
         RequestOK([op |-> op, trip |-> t, driver |-> d, arg |-> x])
  PROVE  /\ ReqTypeOK'
         /\ req'[w] = [op |-> op, trip |-> t, driver |-> d, arg |-> x]
         /\ \A v \in Workers \ {w} : req'[v] = req[v]
<1> DEFINE r == [op |-> op, trip |-> t, driver |-> d, arg |-> x]
<1>1. req' = [req EXCEPT ![w] = r] /\ RequestOK(r)
  BY DEF Begin
<1> HIDE DEF r
<1>2. ReqTypeOK' /\ req'[w] = r /\ \A v \in Workers \ {w} : req'[v] = req[v]
  BY <1>1, SetType
<1> QED BY <1>2 DEF r

\* A request moves on to its next step: the table stays well formed.
LEMMA BecomeType ==
  ASSUME ReqTypeOK, NEW w \in Workers, NEW op, NEW d, NEW x,
         Become(w, op, d, x),
         RequestOK([op |-> op, trip |-> req[w].trip, driver |-> d, arg |-> x])
  PROVE  /\ ReqTypeOK'
         /\ req'[w] = [op |-> op, trip |-> req[w].trip, driver |-> d, arg |-> x]
         /\ \A v \in Workers \ {w} : req'[v] = req[v]
<1> DEFINE r == [op |-> op, trip |-> req[w].trip, driver |-> d, arg |-> x]
<1>1. req' = [req EXCEPT ![w] = r] /\ RequestOK(r)
  BY DEF Become
<1> HIDE DEF r
<1>2. ReqTypeOK' /\ req'[w] = r /\ \A v \in Workers \ {w} : req'[v] = req[v]
  BY <1>1, SetType
<1> QED BY <1>2 DEF r

\* A request is answered: the table stays well formed.
LEMMA ReturnType ==
  ASSUME ReqTypeOK, NEW w \in Workers, Return(w)
  PROVE  /\ ReqTypeOK'
         /\ req'[w] = Idle
         /\ \A v \in Workers \ {w} : req'[v] = req[v]
<1>1. RequestOK(Idle)
  BY DEF RequestOK, Idle, Ops, ArgOK
<1> QED BY <1>1, SetType DEF Return

\* Requests other than the one that moves stay sound.
LEMMA StepSound ==
  ASSUME IInv, NEW w \in Workers, Frame(w), DbInv', ReqTypeOK',
         \A v \in Workers \ {w} : req'[v] = req[v],
         Sound(req[w])',
         req'[w].op = "create" =>
           \A v \in Workers \ {w} : req[v].op = "create" => req[v].trip # req'[w].trip
  PROVE  IInv'
<1>1. AllSound'
  <2> SUFFICES ASSUME NEW v \in Workers, v # w PROVE Sound(req[v])'
    BY DEF AllSound
  <2>1. req'[v] = req[v] /\ Sound(req[v]) /\ RequestOK(req[v])
    BY DEF IInv, AllSound, ReqTypeOK
  <2>2. req[v].op = "idle" \/ req[v].trip \in Trips
    BY <2>1 DEF RequestOK
  <2>3. req[v].op = "create" => ~(req[w].op = "create" /\ req[w].trip = req[v].trip)
    BY DEF IInv, CreatesDiffer
  <2> QED BY <2>1, <2>2, <2>3 DEF Frame, Sound
<1>2. CreatesDiffer'
  BY DEF IInv, CreatesDiffer
<1> QED BY <1>1, <1>2 DEF IInv

\* A step that touches nothing but its own request.
LEMMA QuietStep ==
  ASSUME IInv, NEW w \in Workers, UNCHANGED Db, ReqTypeOK',
         \A v \in Workers \ {w} : req'[v] = req[v],
         Sound(req'[w]),
         req'[w].op = "create" =>
           \A v \in Workers \ {w} : req[v].op = "create" => req[v].trip # req'[w].trip
  PROVE  IInv'
<1>1. Frame(w)
  BY DEF Frame, Db, tripRow, money
<1>2. DbInv'
  BY DEF IInv, DbInv, Db, tripRow, money, goods, DbTypeOK, AbsentIsBlank, PendingHasNoReference,
         PaidCodHasReference, OneEntryPerKind, CashDebitedIffPaidInCash, Entered,
         FinishedOnlyAfterPayment, CompletedIsPaidOut
<1>3. Sound(req[w])'
  BY DEF Sound, Db, tripRow, money
<1> QED BY <1>1, <1>2, <1>3, StepSound

\* A request that begins, on copies it may rely on.
LEMMA BeginStep ==
  ASSUME IInv, NEW w \in Workers, NEW op, NEW t, NEW d, NEW x,
         Begin(w, op, t, d, x), UNCHANGED Db, op # "create",
         RequestOK([op |-> op, trip |-> t, driver |-> d, arg |-> x]),
         Sound([op |-> op, trip |-> t, driver |-> d, arg |-> x])
  PROVE  IInv'
<1>1. /\ ReqTypeOK'
      /\ req'[w] = [op |-> op, trip |-> t, driver |-> d, arg |-> x]
      /\ \A v \in Workers \ {w} : req'[v] = req[v]
  BY BeginType DEF IInv
<1> QED BY <1>1, QuietStep

\* A request moves on to its next step, remembering the same trip.
LEMMA BecomeStep ==
  ASSUME IInv, NEW w \in Workers, NEW op, NEW d, NEW x, UNCHANGED Db, op # "create",
         Become(w, op, d, x),
         RequestOK([op |-> op, trip |-> req[w].trip, driver |-> d, arg |-> x]),
         Sound([op |-> op, trip |-> req[w].trip, driver |-> d, arg |-> x])
  PROVE  IInv'
<1>1. /\ ReqTypeOK'
      /\ req'[w] = [op |-> op, trip |-> req[w].trip, driver |-> d, arg |-> x]
      /\ \A v \in Workers \ {w} : req'[v] = req[v]
  BY BecomeType DEF IInv
<1> QED BY <1>1, QuietStep

\* A request that is refused or dies.
LEMMA AbortStep ==
  ASSUME IInv, NEW w \in Workers, Return(w), UNCHANGED Db
  PROVE  IInv'
<1>1. /\ ReqTypeOK'
      /\ req'[w] = Idle
      /\ \A v \in Workers \ {w} : req'[v] = req[v]
  BY ReturnType DEF IInv
<1>2. Sound(Idle)
  BY DEF Sound, Idle
<1> QED BY <1>1, <1>2, QuietStep DEF Idle

----------------------------------------------------------------------------
(* Every new request.                                                        *)

\* create_trip looks for a driver for a row that nobody else can see.
LEMMA CreateMatchStep ==
  ASSUME IInv, NEW w \in Workers, NEW t \in Trips, CreateMatch(w, t)
  PROVE  IInv'
<1>1. PICK d \in Drivers \union {None} : Begin(w, "create", t, d, None)
  BY DEF CreateMatch
<1> DEFINE r == [op |-> "create", trip |-> t, driver |-> d, arg |-> None]
<1>2. RequestOK(r) /\ Sound(r)
  BY DEF CreateMatch, RequestOK, Ops, ArgOK, Sound
<1>3. /\ ReqTypeOK'
      /\ req'[w] = r
      /\ \A v \in Workers \ {w} : req'[v] = req[v]
  BY <1>1, <1>2, BeginType DEF IInv
<1>4. \A v \in Workers : req[v].op = "create" => req[v].trip # t
  BY DEF CreateMatch
<1>5. UNCHANGED Db
  BY DEF CreateMatch, Db
<1> HIDE DEF r
<1>6. r.trip = t
  BY DEF r
<1> QED BY <1>2, <1>3, <1>4, <1>5, <1>6, QuietStep

\* Every handler's first read.
LEMMA RequestStep ==
  ASSUME IInv, NEW w \in Workers, Request(w)
  PROVE  IInv'
<1> USE DEF Db
<1>0. PICK t \in Trips :
        \/ CreateMatch(w, t) \/ RetryFetch(w, t) \/ AssignFetch(w, t) \/ CancelFetch(w, t)
        \/ ArriveFetch(w, t) \/ StartFetch(w, t) \/ CompleteFetch(w, t)
        \/ QrFetch(w, t) \/ WebhookFetch(w, t) \/ ResendFetch(w, t)
        \/ \E how \in {"cash", "online"} : CollectFetch(w, t, how)
        \/ \E p \in Photos : PhotoFetch(w, t, p)
        \/ \E i \in Items, answer \in {"answered", "pending"} : ItemFetch(w, t, i, answer)
        \/ \E p \in InBetween, mark \in {"arrived", "done"} : StopFetch(w, t, p, mark)
  BY DEF Request, CompanyAsks, DriverAsks
<1>d. driver[t] # None => driver[t] \in Drivers
  BY DEF IInv, DbInv, DbTypeOK
<1>1. CASE CreateMatch(w, t)
  BY <1>1, CreateMatchStep
<1>2. CASE RetryFetch(w, t)
  <2>1. LET r == [op |-> "retry", trip |-> t, driver |-> None, arg |-> None]
        IN  RequestOK(r) /\ Sound(r)
    BY <1>2 DEF RetryFetch, RequestOK, Ops, ArgOK, Sound
  <2> QED BY <1>2, <2>1, BeginStep DEF RetryFetch
<1>3. CASE AssignFetch(w, t)
  <2>1. LET r == [op |-> "assign", trip |-> t, driver |-> None, arg |-> None]
        IN  RequestOK(r) /\ Sound(r)
    BY <1>3 DEF AssignFetch, Assignable, RequestOK, Ops, ArgOK, Sound
  <2> QED BY <1>3, <2>1, BeginStep DEF AssignFetch
<1>4. CASE CancelFetch(w, t)
  <2>1. LET r == [op |-> "cancel", trip |-> t, driver |-> None, arg |-> None]
        IN  RequestOK(r) /\ Sound(r)
    BY <1>4 DEF CancelFetch, Cancellable, RequestOK, Ops, ArgOK, Sound
  <2> QED BY <1>4, <2>1, BeginStep DEF CancelFetch
<1>5. CASE ArriveFetch(w, t)
  <2>1. LET r == [op |-> "arrive", trip |-> t, driver |-> driver[t], arg |-> None]
        IN  RequestOK(r) /\ Sound(r)
    BY <1>5, <1>d DEF ArriveFetch, DriverBegin, RequestOK, Ops, ArgOK, Sound
  <2> QED BY <1>5, <2>1, BeginStep DEF ArriveFetch, DriverBegin
<1>6. CASE StartFetch(w, t)
  <2>1. LET r == [op |-> "start", trip |-> t, driver |-> driver[t], arg |-> None]
        IN  RequestOK(r) /\ Sound(r)
    BY <1>6, <1>d DEF StartFetch, DriverBegin, RequestOK, Ops, ArgOK, Sound
  <2> QED BY <1>6, <2>1, BeginStep DEF StartFetch, DriverBegin
<1>7. CASE CompleteFetch(w, t)
  <2>1. LET r == [op |-> "complete", trip |-> t, driver |-> driver[t], arg |-> status[t] = "in_progress"]
        IN  RequestOK(r) /\ Sound(r)
    BY <1>7, <1>d DEF CompleteFetch, DriverBegin, RequestOK, Ops, ArgOK, Sound
  <2> QED BY <1>7, <2>1, BeginStep DEF CompleteFetch, DriverBegin
<1>8. CASE QrFetch(w, t)
  <2>1. LET r == [op |-> "qr", trip |-> t, driver |-> driver[t], arg |-> provider[t]]
        IN  RequestOK(r) /\ Sound(r)
    BY <1>8, <1>d DEF QrFetch, Collectable, DriverBegin, RequestOK, Ops, ArgOK, Sound, IInv, DbInv, DbTypeOK
  <2> QED BY <1>8, <2>1, BeginStep DEF QrFetch, DriverBegin
<1>9. CASE WebhookFetch(w, t)
  <2>1. LET r == [op |-> "collect_ok", trip |-> t, driver |-> None, arg |-> "online"]
        IN  RequestOK(r) /\ Sound(r)
    BY <1>9 DEF WebhookFetch, RequestOK, Ops, ArgOK, Sound
  <2> QED BY <1>9, <2>1, BeginStep DEF WebhookFetch
<1>10. CASE ResendFetch(w, t)
  <2>1. LET r == [op |-> "resend", trip |-> t, driver |-> driver[t], arg |-> None]
        IN  RequestOK(r) /\ Sound(r)
    BY <1>10, <1>d DEF ResendFetch, DriverBegin, RequestOK, Ops, ArgOK, Sound
  <2> QED BY <1>10, <2>1, BeginStep DEF ResendFetch, DriverBegin
<1>11. ASSUME NEW how \in {"cash", "online"}, CollectFetch(w, t, how) PROVE IInv'
  <2>1. LET r == [op |-> "collect", trip |-> t, driver |-> driver[t], arg |-> how]
        IN  RequestOK(r) /\ Sound(r)
    BY <1>11, <1>d DEF CollectFetch, Collectable, DriverBegin, RequestOK, Ops, ArgOK, Sound
  <2> QED BY <1>11, <2>1, BeginStep DEF CollectFetch, DriverBegin
<1>12. ASSUME NEW p \in Photos, PhotoFetch(w, t, p) PROVE IInv'
  <2>1. LET r == [op |-> "photo", trip |-> t, driver |-> driver[t], arg |-> p]
        IN  RequestOK(r) /\ Sound(r)
    BY <1>12, <1>d DEF PhotoFetch, DriverBegin, RequestOK, Ops, ArgOK, Sound
  <2> QED BY <1>12, <2>1, BeginStep DEF PhotoFetch, DriverBegin
<1>13. ASSUME NEW i \in Items, NEW answer \in {"answered", "pending"}, ItemFetch(w, t, i, answer)
       PROVE  IInv'
  <2> DEFINE x == [item |-> i, answer |-> answer, photos |-> {}]
  <2>1. LET r == [op |-> "item", trip |-> t, driver |-> driver[t], arg |-> x]
        IN  RequestOK(r) /\ Sound(r)
    BY <1>13, <1>d DEF ItemFetch, DriverBegin, RequestOK, Ops, ArgOK, Sound, ItemAnswers
  <2> QED BY <1>13, <2>1, BeginStep DEF ItemFetch, DriverBegin
<1>14. ASSUME NEW p \in InBetween, NEW mark \in {"arrived", "done"}, StopFetch(w, t, p, mark)
       PROVE  IInv'
  <2>1. LET r == [op |-> "stop", trip |-> t, driver |-> driver[t], arg |-> <<p, mark>>]
        IN  RequestOK(r) /\ Sound(r)
    BY <1>14, <1>d DEF StopFetch, DriverBegin, RequestOK, Ops, ArgOK, Sound, StopMarks, InBetween
  <2> QED BY <1>14, <2>1, BeginStep DEF StopFetch, DriverBegin
<1> QED BY <1>0, <1>1, <1>2, <1>3, <1>4, <1>5, <1>6, <1>7, <1>8, <1>9, <1>10, <1>11, <1>12, <1>13, <1>14

----------------------------------------------------------------------------
(* The steps of a request that only look.                                    *)

\* Every later read and check of a handler.
LEMMA LookStep ==
  ASSUME IInv, NEW w \in Workers,
         \/ Match(w) \/ StartCheck(w) \/ StopCheck(w) \/ ItemRead(w)
         \/ DropCheck(w) \/ QrFindsPayment(w) \/ CompleteCheck(w)
  PROVE  IInv'
<1> USE DEF Db
<1> DEFINE rec(op, d, x) == [op |-> op, trip |-> req[w].trip, driver |-> d, arg |-> x]
<1>0. RequestOK(req[w]) /\ Sound(req[w])
  BY DEF IInv, ReqTypeOK, AllSound
<1>1. CASE Match(w)
  <2>1. PICK d \in Drivers \union {None} :
          req[w].op \in {"retry", "assign"} /\ Become(w, "place", d, None)
    BY <1>1 DEF Match
  <2>2. RequestOK(rec("place", d, None)) /\ Sound(rec("place", d, None))
    BY <1>0, <2>1 DEF RequestOK, Ops, ArgOK, Sound
  <2> QED BY <1>1, <2>1, <2>2, BecomeStep DEF Match
<1>2. CASE StartCheck(w)
  <2>1. LET r == rec("start_ok", req[w].driver, req[w].arg) IN RequestOK(r) /\ Sound(r)
    BY <1>0, <1>2 DEF StartCheck, RequestOK, Ops, ArgOK, Sound
  <2> QED BY <1>2, <2>1, BecomeStep DEF StartCheck, Then
<1>3. CASE StopCheck(w)
  <2>1. LET r == rec("stop_ok", req[w].driver, req[w].arg) IN RequestOK(r) /\ Sound(r)
    BY <1>0, <1>3 DEF StopCheck, RequestOK, Ops, ArgOK, Sound
  <2> QED BY <1>3, <2>1, BecomeStep DEF StopCheck, Then
<1>4. CASE ItemRead(w)
  <2> DEFINE x == [req[w].arg EXCEPT !.photos = PhotosOf(req[w].trip, req[w].arg.item)]
  <2>1. Become(w, "item_read", req[w].driver, x)
    BY <1>4 DEF ItemRead
  <2>2. req[w].op = "item" /\ req[w].trip \in Trips /\ req[w].arg \in ItemAnswers
    BY <1>0, <1>4 DEF ItemRead, RequestOK, ArgOK
  <2>3. PhotosOf(req[w].trip, req[w].arg.item) \in SUBSET Photos
    BY <2>2 DEF PhotosOf, IInv, DbInv, DbTypeOK
  <2>4. x \in ItemAnswers
    BY <2>2, <2>3 DEF ItemAnswers
  <2>5. LET r == rec("item_read", req[w].driver, x) IN RequestOK(r) /\ Sound(r)
    <3> HIDE DEF x
    <3> QED BY <1>0, <2>2, <2>4 DEF RequestOK, Ops, ArgOK, Sound
  <2> HIDE DEF x
  <2> QED BY <1>4, <2>1, <2>5, BecomeStep DEF ItemRead
<1>5. CASE DropCheck(w)
  <2> DEFINE op == Checked(req[w].op)
  <2>1. LET r == rec(op, req[w].driver, req[w].arg) IN RequestOK(r) /\ Sound(r)
    BY <1>0, <1>5 DEF DropCheck, Checked, RequestOK, Ops, ArgOK, Sound
  <2>2. op # "create"
    BY <1>5 DEF DropCheck, Checked
  <2> QED BY <1>5, <2>1, <2>2, BecomeStep DEF DropCheck, Then
<1>6. CASE QrFindsPayment(w)
  <2>1. LET r == rec("collect_ok", req[w].driver, "online") IN RequestOK(r) /\ Sound(r)
    BY <1>0, <1>6 DEF QrFindsPayment, RequestOK, Ops, ArgOK, Sound
  <2> QED BY <1>6, <2>1, BecomeStep DEF QrFindsPayment
<1>7. CASE CompleteCheck(w)
  <2> DEFINE op == IF NeedsOtp(req[w].trip) THEN "consume" ELSE "finish"
  <2>1. LET r == rec(op, req[w].driver, req[w].arg) IN RequestOK(r) /\ Sound(r)
    <3>1. op \in {"consume", "finish"}
      OBVIOUS
    <3> HIDE DEF op
    <3> QED BY <1>0, <1>7, <3>1 DEF CompleteCheck, RequestOK, Ops, ArgOK, Sound
  <2>2. op # "create" /\ Become(w, op, req[w].driver, req[w].arg)
    BY <1>7 DEF CompleteCheck, Then
  <2> HIDE DEF op
  <2> QED BY <1>7, <2>1, <2>2, BecomeStep DEF CompleteCheck
<1> QED BY <1>1, <1>2, <1>3, <1>4, <1>5, <1>6, <1>7

----------------------------------------------------------------------------
(* The steps that write.                                                     *)

\* The last step of a handler, once its writes keep the database's part.
LEMMA ReturnStep ==
  ASSUME IInv, NEW w \in Workers, Return(w), Frame(w), DbInv'
  PROVE  IInv'
<1>1. /\ ReqTypeOK'
      /\ req'[w] = Idle
      /\ \A v \in Workers \ {w} : req'[v] = req[v]
  BY ReturnType DEF IInv
<1>2. Sound(req[w])'
  BY <1>1 DEF Sound, Idle
<1> QED BY <1>1, <1>2, StepSound DEF Idle

\* A step that leaves the money alone and completes no trip.
LEMMA MoneyKept ==
  ASSUME DbInv, DbTypeOK', UNCHANGED <<book, money>>,
         \A t \in Trips : status'[t] = "completed" => status[t] = "completed",
         \A t \in Trips : status'[t] = "absent" => status[t] = "absent" /\ driver'[t] = driver[t]
  PROVE  DbInv'
<1> USE DEF DbInv, money
<1>1. AbsentIsBlank'
  BY DEF AbsentIsBlank
<1>2. (PendingHasNoReference /\ PaidCodHasReference)'
  BY DEF PendingHasNoReference, PaidCodHasReference
<1>3. (OneEntryPerKind /\ CashDebitedIffPaidInCash /\ FinishedOnlyAfterPayment)'
  BY DEF OneEntryPerKind, CashDebitedIffPaidInCash, FinishedOnlyAfterPayment, Entered
<1>4. CompletedIsPaidOut'
  BY DEF CompletedIsPaidOut, Entered
<1> QED BY <1>1, <1>2, <1>3, <1>4

\* Handlers that move the trip's status or its driver, and nothing else.
LEMMA StatusStep ==
  ASSUME IInv, NEW w \in Workers,
         \/ Place(w) \/ CancelWrite(w) \/ ArriveWrite(w) \/ StartWrite(w)
  PROVE  IInv'
<1> DEFINE t == req[w].trip
<1>0. /\ RequestOK(req[w]) /\ Sound(req[w]) /\ req[w].op \notin {"idle", "create"}
      /\ t \in Trips /\ status[t] # "absent"
  BY DEF IInv, ReqTypeOK, AllSound, RequestOK, Sound, Place, CancelWrite, ArriveWrite, StartWrite
<1>1. PICK s \in {"no_driver_available", "assigned", "cancelled", "arrived_at_pickup", "in_progress"},
           d \in Drivers \union {None} :
        /\ status' = [status EXCEPT ![t] = s]
        /\ driver' = [driver EXCEPT ![t] = IF d = None THEN @ ELSE d]
        /\ UNCHANGED <<book, money, goods, stop>>
  <2>1. CASE Place(w)
    BY <1>0, <2>1 DEF Place, RequestOK
  <2>2. driver = [driver EXCEPT ![t] = @]
    BY DEF IInv, DbInv, DbTypeOK
  <2>3. CASE CancelWrite(w)
    BY <2>2, <2>3 DEF CancelWrite
  <2>4. CASE ArriveWrite(w)
    BY <2>2, <2>4 DEF ArriveWrite
  <2>5. CASE StartWrite(w)
    BY <2>2, <2>5 DEF StartWrite
  <2> QED BY <2>1, <2>3, <2>4, <2>5
<1>2. Frame(w)
  BY <1>0, <1>1 DEF Frame, IInv, DbInv, DbTypeOK, money
<1>3. DbTypeOK'
  BY <1>0, <1>1 DEF IInv, DbInv, DbTypeOK, money, goods, TripStatus
<1>4. \A u \in Trips : /\ status'[u] = "completed" => status[u] = "completed"
                      /\ status'[u] = "absent" => status[u] = "absent" /\ driver'[u] = driver[u]
  BY <1>0, <1>1 DEF IInv, DbInv, DbTypeOK
<1>5. DbInv'
  BY <1>1, <1>3, <1>4, MoneyKept DEF IInv
<1>6. CASE Return(w)
  BY <1>2, <1>5, <1>6, ReturnStep
<1>7. CASE ArriveWrite(w) \/ StartWrite(w)
  <2>1. PICK x \in {"arrived", "done"} : Become(w, "mark", req[w].driver, x)
    BY <1>7 DEF ArriveWrite, StartWrite
  <2> DEFINE r == [op |-> "mark", trip |-> t, driver |-> req[w].driver, arg |-> x]
  <2>2. RequestOK(r)
    BY <1>0 DEF RequestOK, Ops, ArgOK
  <2>3. ReqTypeOK' /\ req'[w] = r /\ \A v \in Workers \ {w} : req'[v] = req[v]
    BY <2>1, <2>2, BecomeType DEF IInv
  <2>4. Sound(req[w])'
    BY <1>0, <1>2, <2>3 DEF Sound, Frame
  <2>5. req'[w].op # "create"
    BY <2>3
  <2> QED BY <1>2, <1>5, <2>3, <2>4, <2>5, StepSound
<1> QED BY <1>6, <1>7 DEF Place, CancelWrite

\* Handlers that write stops, items, photos or the payment code.
LEMMA GoodsStep ==
  ASSUME IInv, NEW w \in Workers,
         \/ MarkPickup(w) \/ StopWrite(w) \/ PhotoWrite(w) \/ ItemWrite(w)
  PROVE  IInv'
<1> DEFINE t == req[w].trip
<1>0. RequestOK(req[w]) /\ t \in Trips
  BY DEF IInv, ReqTypeOK, RequestOK, MarkPickup, StopWrite, PhotoWrite, ItemWrite
<1>1. Return(w) /\ UNCHANGED <<tripRow, money>>
  BY DEF MarkPickup, StopWrite, PhotoWrite, ItemWrite
<1>2. Frame(w)
  BY <1>1 DEF Frame, tripRow, money
<1>3. DbTypeOK'
  <2> USE <1>0, <1>1 DEF IInv, DbInv, DbTypeOK, tripRow, money, goods
  <2>1. CASE MarkPickup(w)
    BY <2>1, LastStopAssumption DEF MarkPickup, RequestOK, ArgOK, StopPositions
  <2>2. CASE StopWrite(w)
    BY <2>2 DEF StopWrite, RequestOK, ArgOK, StopMarks
  <2>3. CASE PhotoWrite(w)
    BY <2>3 DEF PhotoWrite, RequestOK, ArgOK
  <2>4. CASE ItemWrite(w)
    BY <2>4 DEF ItemWrite, RequestOK, ArgOK, ItemAnswers, PhotosOf
  <2> QED BY <2>1, <2>2, <2>3, <2>4
<1>4. DbInv'
  BY <1>1, <1>3, MoneyKept DEF IInv, tripRow
<1> QED BY <1>1, <1>2, <1>4, ReturnStep

----------------------------------------------------------------------------
(* The steps that touch the money.                                           *)

\* WalletService adds at most the one row it was asked for.
LEMMA EnterFacts ==
  ASSUME DbInv, NEW t \in Trips, NEW kind \in {"trip_earning", "cod_cash"},
         NEW d \in Drivers \union {None}, ledger' = Enter(t, kind, d)
  PROVE  /\ ledger' \in [Trips -> Seq(Entry)]
         /\ OneEntryPerKind'
         /\ \A u \in Trips \ {t} : ledger'[u] = ledger[u]
         /\ \A u \in Trips, k \in {"trip_earning", "cod_cash"} :
              Entered(u, k)' <=>
                Entered(u, k) \/ (u = t /\ k = kind /\ d # None /\ Worth(t, kind))
<1>0. ledger \in [Trips -> Seq(Entry)] /\ OneEntryPerKind
  BY DEF DbInv, DbTypeOK
<1>1. CASE d = None \/ ~Worth(t, kind) \/ Entered(t, kind)
  <2>1. ledger' = ledger
    BY <1>1 DEF Enter
  <2>2. OneEntryPerKind'
    BY <1>0, <2>1 DEF OneEntryPerKind
  <2> QED BY <1>0, <1>1, <2>1, <2>2 DEF Entered
<1>2. CASE ~(d = None \/ ~Worth(t, kind) \/ Entered(t, kind))
  <2> DEFINE e == [kind |-> kind, driver |-> d]
  <2>1. ledger' = [ledger EXCEPT ![t] = Append(@, e)]
    BY <1>2 DEF Enter
  <2>2. e \in Entry /\ e.kind = kind
    BY <1>2 DEF Entry
  <2> HIDE DEF e
  <2>3. /\ ledger'[t] = Append(ledger[t], e)
        /\ \A u \in Trips \ {t} : ledger'[u] = ledger[u]
        /\ ledger[t] \in Seq(Entry)
    BY <1>0, <2>1
  <2>4. /\ Len(ledger'[t]) = Len(ledger[t]) + 1 /\ Len(ledger[t]) \in Nat
        /\ \A n \in 1 .. Len(ledger[t]) : ledger'[t][n] = ledger[t][n]
        /\ ledger'[t][Len(ledger[t]) + 1] = e
    BY <2>2, <2>3
  <2>5. ledger' \in [Trips -> Seq(Entry)]
    BY <1>0, <2>1, <2>2
  <2>6. \A k \in {"trip_earning", "cod_cash"} : Entered(t, k)' <=> Entered(t, k) \/ k = kind
    <3> DEFINE N == Len(ledger[t])
    <3>1. 1 .. Len(ledger'[t]) = (1 .. N) \union {N + 1} /\ N + 1 \in 1 .. Len(ledger'[t])
      BY <2>4
    <3> HIDE DEF N
    <3>2. /\ \A n \in 1 .. N : ledger'[t][n] = ledger[t][n]
          /\ ledger'[t][N + 1].kind = kind
      BY <2>2, <2>4 DEF N
    <3> SUFFICES ASSUME NEW k \in {"trip_earning", "cod_cash"}
                 PROVE  (\E n \in 1 .. Len(ledger'[t]) : ledger'[t][n].kind = k)
                          <=> (\E n \in 1 .. N : ledger[t][n].kind = k) \/ k = kind
      BY DEF Entered, N
    <3> QED BY <3>1, <3>2
  <2>7. \A u \in Trips \ {t}, k \in {"trip_earning", "cod_cash"} : Entered(u, k)' <=> Entered(u, k)
    BY <2>3 DEF Entered
  <2>8. OneEntryPerKind'
    <3> SUFFICES ASSUME NEW u \in Trips, NEW m \in 1 .. Len(ledger'[u]), NEW n \in 1 .. Len(ledger'[u]),
                        ledger'[u][m].kind = ledger'[u][n].kind
                 PROVE  m = n
      BY DEF OneEntryPerKind
    <3>1. CASE u # t
      BY <1>0, <2>3, <3>1 DEF OneEntryPerKind
    <3>2. CASE u = t
      <4>1. \A j \in 1 .. Len(ledger[t]) : ledger[t][j].kind # kind
        BY <1>2 DEF Entered
      <4> QED BY <1>0, <2>2, <2>4, <3>2, <4>1 DEF OneEntryPerKind
    <3> QED BY <3>1, <3>2
  <2> QED BY <1>2, <2>3, <2>5, <2>6, <2>7, <2>8
<1> QED BY <1>1, <1>2

\* create_trip commits: the new row has nothing attached to it yet.
LEMMA CreateCommitStep ==
  ASSUME IInv, NEW w \in Workers, CreateCommit(w)
  PROVE  IInv'
<1> USE DEF IInv, DbInv
<1> DEFINE t == req[w].trip
<1>0. /\ req[w].op = "create" /\ t \in Trips /\ req[w].driver \in Drivers \union {None}
      /\ status[t] = "absent" /\ driver[t] = None /\ payment[t] = "pending"
      /\ cache[t] = {} /\ ledger[t] = <<>>
  BY DEF CreateCommit, ReqTypeOK, RequestOK, AllSound, Sound, AbsentIsBlank
<1>1. Frame(w)
  BY <1>0 DEF CreateCommit, Frame, DbTypeOK
<1>2. DbTypeOK'
  BY <1>0 DEF CreateCommit, DbTypeOK, TripStatus, goods
<1>3. AbsentIsBlank'
  BY <1>0 DEF CreateCommit, DbTypeOK, AbsentIsBlank
<1>4. PendingHasNoReference' /\ PaidCodHasReference'
  BY <1>0 DEF CreateCommit, DbTypeOK, PendingHasNoReference, PaidCodHasReference
<1>5. OneEntryPerKind' /\ CashDebitedIffPaidInCash'
  BY DEF CreateCommit, OneEntryPerKind, CashDebitedIffPaidInCash, Entered
<1>6. FinishedOnlyAfterPayment'
  BY <1>0 DEF CreateCommit, DbTypeOK, FinishedOnlyAfterPayment, Entered
<1>7. CompletedIsPaidOut'
  BY <1>0 DEF CreateCommit, DbTypeOK, CompletedIsPaidOut, Entered
<1> QED BY <1>1, <1>2, <1>3, <1>4, <1>5, <1>6, <1>7, ReturnStep DEF CreateCommit

\* The code that is shown replaces the provider, never the payment.
LEMMA QrWriteStep ==
  ASSUME IInv, NEW w \in Workers, QrWrite(w)
  PROVE  IInv'
<1> USE DEF IInv, DbInv, QrWrite, tripRow
<1>1. Frame(w)
  BY DEF Frame
<1>2. DbTypeOK'
  BY DEF DbTypeOK, goods
<1>3. (AbsentIsBlank /\ PendingHasNoReference /\ PaidCodHasReference)'
  BY DEF AbsentIsBlank, PendingHasNoReference, PaidCodHasReference
<1>4. (OneEntryPerKind /\ CashDebitedIffPaidInCash /\ FinishedOnlyAfterPayment)'
  BY DEF OneEntryPerKind, CashDebitedIffPaidInCash, FinishedOnlyAfterPayment, Entered
<1>5. CompletedIsPaidOut'
  BY DEF CompletedIsPaidOut, Entered
<1> QED BY <1>1, <1>2, <1>3, <1>4, <1>5, ReturnStep

\* A step that only sets or drops the keys of delivery OTPs.
LEMMA CacheKept ==
  ASSUME DbInv, cache' \in [Trips -> SUBSET {"otp", "throttle"}],
         UNCHANGED <<tripRow, payment, reference, provider, ledger, goods, stop>>,
         \A t \in Trips : cache'[t] # {} => cache[t] # {} \/ status[t] # "absent"
  PROVE  DbInv'
<1> USE DEF DbInv, tripRow
<1>1. DbTypeOK'
  BY DEF DbTypeOK, goods
<1>2. AbsentIsBlank'
  BY DEF AbsentIsBlank
<1>3. (PendingHasNoReference /\ PaidCodHasReference)'
  BY DEF PendingHasNoReference, PaidCodHasReference
<1>4. (OneEntryPerKind /\ CashDebitedIffPaidInCash)'
  BY DEF OneEntryPerKind, CashDebitedIffPaidInCash, Entered
<1>5. (FinishedOnlyAfterPayment /\ CompletedIsPaidOut)'
  BY DEF FinishedOnlyAfterPayment, CompletedIsPaidOut, Entered
<1> QED BY <1>1, <1>2, <1>3, <1>4, <1>5

\* An OTP that goes out, on a resend or from a confirmation that then rolls back,
\* belongs to a trip that is there.
LEMMA OtpOutStep ==
  ASSUME IInv, NEW w \in Workers, ResendWrite(w) \/ ConfirmRollback(w)
  PROVE  IInv'
<1> DEFINE t == req[w].trip
<1>0. t \in Trips /\ status[t] # "absent"
  BY DEF IInv, ReqTypeOK, RequestOK, AllSound, Sound, ResendWrite, ConfirmRollback
<1>1. Frame(w)
  BY DEF Frame, ResendWrite, ConfirmRollback, tripRow
<1>2. /\ cache \in [Trips -> SUBSET {"otp", "throttle"}]
      /\ cache' = [cache EXCEPT ![t] = {"otp", "throttle"}]
      /\ UNCHANGED <<tripRow, payment, reference, provider, ledger, goods, stop>>
  BY DEF ResendWrite, ConfirmRollback, IInv, DbInv, DbTypeOK
<1>3. \A u \in Trips : cache'[u] # {} => cache[u] # {} \/ status[u] # "absent"
  BY <1>0, <1>2
<1>4. DbInv'
  BY <1>2, <1>3, CacheKept DEF IInv
<1> QED BY <1>1, <1>4, ReturnStep DEF ResendWrite, ConfirmRollback

\* driver_complete uses up the OTP.
LEMMA ConsumeOtpStep ==
  ASSUME IInv, NEW w \in Workers, ConsumeOtp(w)
  PROVE  IInv'
<1> DEFINE t == req[w].trip
           r == [op |-> "finish", trip |-> t, driver |-> req[w].driver, arg |-> req[w].arg]
<1>0. RequestOK(req[w]) /\ Sound(req[w]) /\ req[w].op = "consume" /\ t \in Trips
  BY DEF IInv, ReqTypeOK, AllSound, RequestOK, ConsumeOtp
<1>1. Frame(w)
  BY DEF Frame, ConsumeOtp, tripRow
<1>2. cache' \in [Trips -> SUBSET {"otp", "throttle"}] /\ \A u \in Trips : cache'[u] \subseteq cache[u]
  BY <1>0 DEF ConsumeOtp, IInv, DbInv, DbTypeOK
<1>3. DbInv'
  <2>1. \A u \in Trips : cache'[u] # {} => cache[u] # {}
    BY <1>2
  <2> QED BY <1>2, <2>1, CacheKept DEF ConsumeOtp, IInv
<1>4. RequestOK(r)
  BY <1>0 DEF RequestOK, Ops, ArgOK
<1>5. ReqTypeOK' /\ req'[w] = r /\ \A v \in Workers \ {w} : req'[v] = req[v]
  BY <1>4, BecomeType DEF IInv, ConsumeOtp, Then
<1>6. Sound(req[w])'
  BY <1>0, <1>1, <1>5 DEF Sound, Frame
<1> QED BY <1>1, <1>3, <1>5, <1>6, StepSound

\* confirm_payment, with the cash debit of its transaction.
LEMMA ConfirmStep ==
  ASSUME IInv, NEW w \in Workers, Confirm(w)
  PROVE  IInv'
<1> DEFINE t    == req[w].trip
           cash == req[w].arg = "cash"
<1>0. /\ t \in Trips /\ status[t] # "absent" /\ req[w].driver \in Drivers \union {None}
      /\ cash => req[w].driver \in Drivers /\ driver[t] # None
  BY DEF IInv, ReqTypeOK, RequestOK, AllSound, Sound, Confirm
<1>1. DbInv /\ Return(w) /\ UNCHANGED <<tripRow, goods, stop>>
  BY DEF IInv, Confirm
<1>2. CASE payment[t] = "paid"
  <2>1. UNCHANGED money
    BY <1>2 DEF Confirm
  <2>2. Frame(w)
    BY <1>1, <2>1 DEF Frame, tripRow, money
  <2>3. DbTypeOK'
    BY <1>1, <2>1 DEF DbInv, DbTypeOK, tripRow, money, goods
  <2>4. DbInv'
    BY <1>1, <2>1, <2>3, MoneyKept DEF tripRow
  <2> QED BY <1>1, <2>2, <2>4, ReturnStep
<1>3. CASE payment[t] # "paid"
  <2>1. /\ payment'   = [payment EXCEPT ![t] = "paid"]
        /\ reference' = [reference EXCEPT ![t] = IF cash THEN req[w].driver ELSE "online"]
        /\ cache'     = [cache EXCEPT ![t] = {"otp", "throttle"}]
        /\ provider'  = [provider EXCEPT ![t] = IF cash THEN "cash" ELSE @]
        /\ ledger'    = IF cash THEN Enter(t, "cod_cash", driver[t]) ELSE ledger
    BY <1>3 DEF Confirm
  <2>2. reference[t] = None /\ driver[t] \in Drivers \union {None}
    BY <1>0, <1>1, <1>3 DEF DbInv, DbTypeOK, PendingHasNoReference
  <2>3. /\ ledger' \in [Trips -> Seq(Entry)] /\ OneEntryPerKind'
        /\ \A u \in Trips \ {t} : ledger'[u] = ledger[u]
        /\ \A u \in Trips, k \in {"trip_earning", "cod_cash"} :
             Entered(u, k)' <=>
               Entered(u, k) \/ (u = t /\ k = "cod_cash" /\ cash)
    <3>1. CASE cash
      BY <1>0, <1>1, <2>1, <2>2, <3>1, EnterFacts DEF Worth
    <3>2. CASE ~cash
      BY <1>1, <2>1, <3>2 DEF DbInv, DbTypeOK, OneEntryPerKind, Entered
    <3> QED BY <3>1, <3>2
  <2>4. Frame(w)
    BY <1>1, <2>1 DEF Frame, tripRow, DbInv, DbTypeOK
  <2>5. DbTypeOK'
    BY <1>0, <1>1, <2>1, <2>3 DEF DbInv, DbTypeOK, tripRow, goods
  <2>6. /\ payment'[t] = "paid" /\ \A u \in Trips \ {t} : payment'[u] = payment[u]
        /\ reference'[t] = (IF cash THEN req[w].driver ELSE "online")
        /\ \A u \in Trips \ {t} : reference'[u] = reference[u]
        /\ \A u \in Trips \ {t} : cache'[u] = cache[u]
        /\ UNCHANGED <<book, status, driver>>
    BY <1>0, <1>1, <2>1 DEF DbInv, DbTypeOK, tripRow
  <2>7. reference'[t] # None
    BY <1>0, <2>6, NoneAssumption
  <2>8. AbsentIsBlank'
    BY <1>0, <1>1, <2>3, <2>6 DEF DbInv, AbsentIsBlank
  <2>9. PendingHasNoReference' /\ PaidCodHasReference'
    BY <1>1, <2>6, <2>7 DEF DbInv, PendingHasNoReference, PaidCodHasReference
  <2>10. CashDebitedIffPaidInCash'
    <3> SUFFICES ASSUME NEW u \in Trips
                 PROVE  Entered(u, "cod_cash")' <=> reference'[u] \in Drivers
      BY <2>6 DEF CashDebitedIffPaidInCash
    <3>1. CASE u # t
      BY <1>1, <2>3, <2>6, <3>1 DEF DbInv, CashDebitedIffPaidInCash
    <3>2. CASE u = t
      <4>1. ~Entered(t, "cod_cash")
        BY <1>0, <1>1, <2>2, NoneAssumption DEF DbInv, CashDebitedIffPaidInCash
      <4>2. reference'[t] \in Drivers <=> cash
        BY <1>0, <2>6, NoneAssumption
      <4> QED BY <2>3, <3>2, <4>1, <4>2
    <3> QED BY <3>1, <3>2
  <2>11. FinishedOnlyAfterPayment'
    BY <1>1, <2>3, <2>6, <2>7 DEF DbInv, FinishedOnlyAfterPayment
  <2>12. CompletedIsPaidOut'
    BY <1>1, <2>3, <2>6 DEF DbInv, CompletedIsPaidOut
  <2>13. DbInv'
    BY <2>3, <2>5, <2>8, <2>9, <2>10, <2>11, <2>12 DEF DbInv
  <2> QED BY <1>1, <2>4, <2>13, ReturnStep
<1> QED BY <1>2, <1>3

\* driver_complete's transaction.
LEMMA CompleteWriteStep ==
  ASSUME IInv, NEW w \in Workers, CompleteWrite(w)
  PROVE  IInv'
<1> DEFINE t == req[w].trip
           d == req[w].driver
<1>0. /\ t \in Trips /\ status[t] # "absent" /\ d \in Drivers /\ d # None
      /\ book[t].cod => payment[t] = "paid"
  BY NoneAssumption DEF IInv, ReqTypeOK, RequestOK, AllSound, Sound, CompleteWrite
<1>1. DbInv /\ Return(w) /\ UNCHANGED <<book, driver, payment, reference, provider, cache, goods>>
  BY DEF IInv, CompleteWrite
<1>2. /\ ledger' \in [Trips -> Seq(Entry)] /\ OneEntryPerKind'
      /\ \A u \in Trips \ {t} : ledger'[u] = ledger[u]
      /\ \A u \in Trips, k \in {"trip_earning", "cod_cash"} :
           Entered(u, k)' <=> Entered(u, k) \/ (u = t /\ k = "trip_earning" /\ book[t].earns)
  BY <1>0, <1>1, EnterFacts DEF CompleteWrite, Worth
<1>3. status'[t] = "completed" /\ \A u \in Trips \ {t} : status'[u] = status[u]
  BY <1>0, <1>1 DEF CompleteWrite, DbInv, DbTypeOK
<1>4. Frame(w)
  BY <1>0, <1>1, <1>3 DEF Frame
<1>5. DbTypeOK'
  BY <1>0, <1>1, <1>2, LastStopAssumption DEF CompleteWrite, DbInv, DbTypeOK, TripStatus, goods, StopPositions
<1>6. AbsentIsBlank'
  BY <1>1, <1>2, <1>3 DEF DbInv, AbsentIsBlank
<1>7. PendingHasNoReference' /\ PaidCodHasReference'
  BY <1>1 DEF DbInv, PendingHasNoReference, PaidCodHasReference
<1>8. CashDebitedIffPaidInCash'
  BY <1>1, <1>2 DEF DbInv, CashDebitedIffPaidInCash
<1>9. FinishedOnlyAfterPayment'
  BY <1>0, <1>1, <1>2, <1>3 DEF DbInv, FinishedOnlyAfterPayment, PaidCodHasReference
<1>10. CompletedIsPaidOut'
  BY <1>1, <1>2, <1>3 DEF DbInv, CompletedIsPaidOut
<1>11. DbInv'
  BY <1>2, <1>5, <1>6, <1>7, <1>8, <1>9, <1>10 DEF DbInv
<1> QED BY <1>1, <1>4, <1>11, ReturnStep

\* A cache key runs out.
LEMMA ExpireStep ==
  ASSUME IInv, NEW t \in Trips, Expire(t)
  PROVE  IInv'
<1>1. cache' \in [Trips -> SUBSET {"otp", "throttle"}] /\ \A u \in Trips : cache'[u] \subseteq cache[u]
  BY DEF Expire, IInv, DbInv, DbTypeOK
<1>2. DbInv'
  <2>1. \A u \in Trips : cache'[u] # {} => cache[u] # {}
    BY <1>1
  <2> QED BY <1>1, <2>1, CacheKept DEF Expire, IInv
<1>3. ReqTypeOK' /\ AllSound' /\ CreatesDiffer'
  BY DEF Expire, IInv, ReqTypeOK, RequestOK, ArgOK, AllSound, Sound, CreatesDiffer, tripRow
<1> QED BY <1>2, <1>3 DEF IInv

----------------------------------------------------------------------------
(* The theorems.                                                             *)

\* No trip exists at first.
LEMMA InitIInv == Init => IInv
<1> SUFFICES ASSUME Init PROVE IInv
  OBVIOUS
<1> USE DEF Init
<1>1. DbTypeOK
  BY DEF DbTypeOK, TripStatus, Photos
<1>2. AbsentIsBlank /\ PendingHasNoReference /\ PaidCodHasReference
  BY DEF AbsentIsBlank, PendingHasNoReference, PaidCodHasReference
<1>3. OneEntryPerKind /\ CashDebitedIffPaidInCash
  BY NoneAssumption DEF OneEntryPerKind, CashDebitedIffPaidInCash, Entered
<1>4. FinishedOnlyAfterPayment /\ CompletedIsPaidOut
  BY DEF FinishedOnlyAfterPayment, CompletedIsPaidOut, Entered
<1>5. ReqTypeOK /\ AllSound /\ CreatesDiffer
  BY DEF ReqTypeOK, RequestOK, Ops, ArgOK, AllSound, Sound, CreatesDiffer
<1> QED BY <1>1, <1>2, <1>3, <1>4, <1>5 DEF IInv, DbInv

\* Every step of every request.
LEMMA StepIInv == IInv /\ [Next]_vars => IInv'
<1> SUFFICES ASSUME IInv, [Next]_vars PROVE IInv'
  OBVIOUS
<1>1. CASE UNCHANGED vars
  <2>1. UNCHANGED Db /\ UNCHANGED req
    BY <1>1 DEF vars, Db
  <2> QED BY <2>1 DEF IInv, DbInv, ReqTypeOK, RequestOK, ArgOK, AllSound, Sound, CreatesDiffer,
        Db, tripRow, money, goods, DbTypeOK, AbsentIsBlank, PendingHasNoReference,
        PaidCodHasReference, OneEntryPerKind, CashDebitedIffPaidInCash, Entered,
        FinishedOnlyAfterPayment, CompletedIsPaidOut
<1>2. ASSUME NEW t \in Trips, Expire(t) PROVE IInv'
  BY <1>2, ExpireStep
<1>3. ASSUME NEW w \in Workers, Request(w) PROVE IInv'
  BY <1>3, RequestStep
<1>4. ASSUME NEW w \in Workers, Abort(w) PROVE IInv'
  BY <1>4, AbortStep DEF Abort, Db
<1>5. ASSUME NEW w \in Workers, Proceed(w) PROVE IInv'
  <2>1. CASE CreateCommit(w)
    BY <2>1, CreateCommitStep
  <2>2. CASE Place(w) \/ CancelWrite(w) \/ ArriveWrite(w) \/ StartWrite(w)
    BY <2>2, StatusStep
  <2>3. CASE MarkPickup(w) \/ StopWrite(w) \/ PhotoWrite(w) \/ ItemWrite(w)
    BY <2>3, GoodsStep
  <2>4. CASE \/ Match(w) \/ StartCheck(w) \/ StopCheck(w) \/ ItemRead(w)
             \/ DropCheck(w) \/ QrFindsPayment(w) \/ CompleteCheck(w)
    BY <2>4, LookStep
  <2>5. CASE QrWrite(w)
    BY <2>5, QrWriteStep
  <2>6. CASE Confirm(w)
    BY <2>6, ConfirmStep
  <2>7. CASE ResendWrite(w) \/ ConfirmRollback(w)
    BY <2>7, OtpOutStep
  <2>8. CASE ConsumeOtp(w)
    BY <2>8, ConsumeOtpStep
  <2>9. CASE CompleteWrite(w)
    BY <2>9, CompleteWriteStep
  <2> QED BY <1>5, <2>1, <2>2, <2>3, <2>4, <2>5, <2>6, <2>7, <2>8, <2>9 DEF Proceed
<1> QED BY <1>1, <1>2, <1>3, <1>4, <1>5 DEF Next

\* The inductive invariant: whatever requests run side by side, every row is sound
\* and every request in flight may still rely on what it has read.
THEOREM Inductive == Spec => []IInv
BY InitIInv, StepIInv, PTL DEF Spec

\* Every handler, however interleaved, keeps each column and each pending request
\* within the values the code gives them.
THEOREM TypesHold == Spec => []TypeOK
<1>1. IInv => TypeOK
  BY DEF IInv, DbInv, DbTypeOK, ReqTypeOK, TypeOK
<1> QED BY <1>1, Inductive, PTL

\* However many completions or collections race, a trip pays its driver at most
\* once and debits collected cash at most once (credit_trip_earning, debit_cod_cash).
THEOREM PaidOnce == Spec => []OneEntryPerKind
<1>1. IInv => OneEntryPerKind
  BY DEF IInv, DbInv
<1> QED BY <1>1, Inductive, PTL

\* Whichever of the webhook, the driver's check and the cash report comes first, the
\* driver's wallet is debited exactly when cash settled the trip (collect_cod_payment).
THEOREM CashMatchesReference == Spec => []CashDebitedIffPaidInCash
<1>1. IInv => CashDebitedIffPaidInCash
  BY DEF IInv, DbInv
<1> QED BY <1>1, Inductive, PTL

\* No COD trip is completed, nor its driver paid, before its payment is booked,
\* whatever becomes of the OTP in between (driver_complete, confirm_payment).
THEOREM NoFinishUnpaid == Spec => []FinishedOnlyAfterPayment
<1>1. IInv => FinishedOnlyAfterPayment
  BY DEF IInv, DbInv
<1> QED BY <1>1, Inductive, PTL

\* A trip that is completed has its earning in the ledger (driver_complete).
THEOREM CompletionPays == Spec => []CompletedIsPaidOut
<1>1. IInv => CompletedIsPaidOut
  BY DEF IInv, DbInv
<1> QED BY <1>1, Inductive, PTL

\* A booked payment keeps its status and its reference through every later step
\* (confirm_payment).
THEOREM PaymentStays == Spec => PaymentIsFinal
<1> DEFINE Keeps == \A t \in Trips :
             payment[t] = "paid" => payment'[t] = "paid" /\ reference'[t] = reference[t]
<1>1. IInv /\ [Next]_vars => [Keeps]_vars
  <2> SUFFICES ASSUME IInv, Next PROVE Keeps
    BY DEF vars, money
  <2>0. payment \in [Trips -> {"pending", "paid"}] /\ reference \in [Trips -> Drivers \union {None, "online"}]
    BY DEF IInv, DbInv, DbTypeOK
  <2>1. CASE UNCHANGED <<payment, reference>>
    BY <2>1
  <2>2. ASSUME NEW w \in Workers, CreateCommit(w) PROVE Keeps
    <3>1. req[w].trip \in Trips /\ payment[req[w].trip] = "pending"
      BY <2>2 DEF CreateCommit, IInv, DbInv, AllSound, Sound, AbsentIsBlank, ReqTypeOK, RequestOK
    <3> QED BY <2>0, <2>2, <3>1 DEF CreateCommit
  <2>3. ASSUME NEW w \in Workers, Confirm(w) PROVE Keeps
    <3>1. req[w].trip \in Trips
      BY <2>3 DEF Confirm, IInv, ReqTypeOK, RequestOK
    <3> QED BY <2>0, <2>3, <3>1 DEF Confirm, money
  <2>4. ASSUME NEW w \in Workers, Request(w) PROVE UNCHANGED <<payment, reference>>
    BY <2>4 DEF Request, CompanyAsks, DriverAsks, money, CreateMatch, RetryFetch, AssignFetch, CancelFetch, ArriveFetch,
         StartFetch, CompleteFetch, QrFetch, WebhookFetch, ResendFetch, CollectFetch, PhotoFetch,
         ItemFetch, StopFetch
  <2>5. ASSUME NEW w \in Workers, Proceed(w), ~CreateCommit(w), ~Confirm(w)
        PROVE  UNCHANGED <<payment, reference>>
    BY <2>5 DEF Proceed, money, Match, Place, CancelWrite, ArriveWrite, StartCheck, StartWrite,
         MarkPickup, StopCheck, StopWrite, PhotoWrite, ItemRead, ItemWrite, DropCheck, QrWrite,
         QrFindsPayment, ConfirmRollback, ResendWrite, CompleteCheck, ConsumeOtp, CompleteWrite
  <2>6. ASSUME NEW t \in Trips, Expire(t) PROVE UNCHANGED <<payment, reference>>
    BY <2>6 DEF Expire
  <2>7. ASSUME NEW w \in Workers, Abort(w) PROVE UNCHANGED <<payment, reference>>
    BY <2>7 DEF Abort, money
  <2> QED BY <2>1, <2>2, <2>3, <2>4, <2>5, <2>6, <2>7 DEF Next
<1>2. Spec => [][Keeps]_vars
  BY <1>1, Inductive, PTL DEF Spec
<1> QED BY <1>2 DEF PaymentIsFinal

----------------------------------------------------------------------------
(* While requests do not overlap: with one web worker, or with many and a  *)
(* quiet hour.  The cache keys still run out and a request may die at each *)
(* of its steps.  The runs TripDoubleAssign, TripEarning and TripItems     *)
(* show what two overlapping requests make of these promises.              *)

NoOverlap ==
  \A v, w \in Workers : req[v].op # "idle" /\ req[w].op # "idle" => v = w

\* The photos of the pickup are there before the trip is under way.
PickupProven ==
  \A t \in Trips : status[t] \in {"in_progress", "completed"} =>
    \A p \in book[t].photos : p[1] = "pickup" => p \in photo[t]

\* Money moves only on a trip that is under way.
MoneyOnTheWay ==
  \A t \in Trips :
    ledger[t] # <<>> \/ reference[t] # None => status[t] \in {"in_progress", "completed"}

\* A booking's photos of one stage.
StageProven(t, stage) == \A p \in book[t].photos : p[1] = stage => p \in photo[t]

\* The row as a request fetched it is the row it writes.
Current(r) ==
  /\ r.op \in {"create", "place"} /\ r.driver # None => ~Busy(r.driver, r.trip)
  /\ r.op \in {"retry", "assign", "place"} => status[r.trip] \in Assignable
  /\ r.op = "cancel" => status[r.trip] \in Cancellable
  /\ r.op = "arrive" => status[r.trip] = "assigned"
  /\ r.op = "start" => status[r.trip] = "arrived_at_pickup" /\ OrderPhotoTaken(r.trip, "pickup")
  /\ r.op = "start_ok" => status[r.trip] = "arrived_at_pickup" /\ StageProven(r.trip, "pickup")
  /\ r.op \in {"stop", "stop_ok", "item", "item_read", "qr", "qr_ok", "collect", "collect_ok"} =>
       status[r.trip] = "in_progress"
  /\ r.op = "item_read" => r.arg.photos = PhotosOf(r.trip, r.arg.item)
  /\ r.op \in {"complete", "consume", "finish"} =>
       /\ r.arg => status[r.trip] = "in_progress"
       /\ r.driver = driver[r.trip]
  /\ r.op = "complete" => OrderPhotoTaken(r.trip, "delivery")
  /\ r.op \in {"consume", "finish"} =>
       /\ StageProven(r.trip, "delivery")
       /\ StopsFinished(r.trip) /\ ItemsAnswered(r.trip)

AllCurrent == \A w \in Workers : Current(req[w])

SerialDb ==
  /\ PickupProven /\ MoneyOnTheWay
  /\ OneActiveTripPerDriver /\ EarningInStep /\ FinishedItemsAnswered
  /\ CompletedWithProof /\ CancelledIsUnpaid

SerialInv == SerialDb /\ AllCurrent

\* A step of a behaviour in which requests do not overlap.
Alone == IInv /\ SerialInv /\ NoOverlap /\ NoOverlap'

----------------------------------------------------------------------------
(* Requests.                                                                 *)

\* Setting one worker's request leaves the others'.
LEMMA SetOne ==
  ASSUME IInv, NEW w \in Workers, NEW r, req' = [req EXCEPT ![w] = r]
  PROVE  req'[w] = r /\ \A v \in Workers \ {w} : req'[v] = req[v]
<1>1. req = [v \in Workers |-> req[v]]
  BY DEF IInv, ReqTypeOK
<1> QED BY <1>1

\* Only the request that moves has something to remember.
LEMMA CurrentStep ==
  ASSUME Alone, NEW w \in Workers, NEW r, req' = [req EXCEPT ![w] = r],
         req[w].op # "idle" \/ r.op # "idle", SerialDb', Current(r)'
  PROVE  SerialInv'
<1>1. req'[w] = r /\ \A v \in Workers \ {w} : req'[v] = req[v]
  BY SetOne DEF Alone
<1>2. \A v \in Workers \ {w} : req'[v].op = "idle"
  BY <1>1 DEF Alone, NoOverlap
<1>3. \A v \in Workers : Current(req[v])'
  <2> SUFFICES ASSUME NEW v \in Workers PROVE Current(req[v])'
    OBVIOUS
  <2>1. CASE v = w
    BY <1>1, <2>1
  <2>2. CASE v # w
    BY <1>2, <2>2 DEF Current
  <2> QED BY <2>1, <2>2
<1> QED BY <1>3 DEF SerialInv, AllCurrent

\* What a request relies on is about the database alone.
LEMMA CurrentKept ==
  ASSUME NEW r, Current(r), UNCHANGED <<tripRow, goods, stop>>
  PROVE  Current(r)'
BY DEF Current, Busy, OrderPhotoTaken, StageProven, PhotosOf, StopsFinished, ItemsAnswered, tripRow, goods

\* A step that writes at most payments not booked yet and cache keys.
LEMMA DbKept ==
  ASSUME SerialDb, UNCHANGED <<tripRow, goods, stop, ledger, reference>>
  PROVE  SerialDb'
<1> USE DEF SerialDb, tripRow, goods
<1>1. PickupProven' /\ MoneyOnTheWay' /\ OneActiveTripPerDriver'
  BY DEF PickupProven, MoneyOnTheWay, OneActiveTripPerDriver
<1>2. EarningInStep' /\ FinishedItemsAnswered'
  BY DEF EarningInStep, Entered, FinishedItemsAnswered, ItemsAnswered
<1>3. CompletedWithProof' /\ CancelledIsUnpaid'
  BY DEF CompletedWithProof, CancelledIsUnpaid
<1> QED BY <1>1, <1>2, <1>3

\* A request begins, moves on or ends without writing.
LEMMA QuietSerial ==
  ASSUME Alone, NEW w \in Workers, NEW r, req' = [req EXCEPT ![w] = r],
         req[w].op # "idle" \/ r.op # "idle",
         UNCHANGED <<tripRow, goods, stop, ledger, reference>>, Current(r)
  PROVE  SerialInv'
<1>1. SerialDb' /\ Current(r)'
  BY CurrentKept, DbKept DEF Alone, SerialInv
<1> QED BY <1>1, CurrentStep

\* A worker that does nothing has nothing to remember.
LEMMA IdleCurrent == Current(Idle) /\ Current(Idle)' /\ Idle.op = "idle"
BY DEF Current, Idle

\* A handler's last step, once the database is as it should be.
LEMMA ReturnSerial ==
  ASSUME Alone, NEW w \in Workers, Return(w), req[w].op # "idle", SerialDb'
  PROVE  SerialInv'
BY IdleCurrent, CurrentStep DEF Return

\* What the request that moves may rely on.
LEMMA Mine ==
  ASSUME Alone, NEW w \in Workers, req[w].op # "idle"
  PROVE  /\ RequestOK(req[w]) /\ Sound(req[w]) /\ Current(req[w])
         /\ req[w].trip \in Trips /\ req[w].driver \in Drivers \union {None}
         /\ DbInv /\ DbTypeOK /\ SerialDb
BY DEF Alone, IInv, DbInv, ReqTypeOK, RequestOK, AllSound, SerialInv, AllCurrent

\* The photos a booking asks for at one stage are of the whole order or of an item.
LEMMA StageTaken ==
  ASSUME DbTypeOK, NEW t \in Trips, NEW stage \in Stages
  PROVE  OrderPhotoTaken(t, stage) /\ ItemPhotosTaken(t, stage) => StageProven(t, stage)
<1> SUFFICES ASSUME OrderPhotoTaken(t, stage), ItemPhotosTaken(t, stage),
                    NEW p \in book[t].photos, p[1] = stage
             PROVE  p \in photo[t]
  BY DEF StageProven
<1>1. p \in Photos
  BY BookingsAssumption DEF DbTypeOK, Booking
<1>2. p = <<stage, p[2]>> /\ p[2] \in Subjects
  BY <1>1 DEF Photos
<1>3. CASE p[2] = WholeOrder
  BY <1>2, <1>3 DEF OrderPhotoTaken
<1>4. CASE p[2] \in Items
  BY <1>2, <1>4 DEF ItemPhotosTaken
<1> QED BY <1>2, <1>3, <1>4 DEF Subjects

----------------------------------------------------------------------------
(* Reading.                                                                  *)

\* A request that begins.
LEMMA BeginSerial ==
  ASSUME Alone, NEW w \in Workers, NEW op, NEW t, NEW d, NEW x, Begin(w, op, t, d, x), op # "idle",
         UNCHANGED <<tripRow, goods, stop, ledger, reference>>,
         Current([op |-> op, trip |-> t, driver |-> d, arg |-> x])
  PROVE  SerialInv'
<1> DEFINE r == [op |-> op, trip |-> t, driver |-> d, arg |-> x]
<1>1. req' = [req EXCEPT ![w] = r] /\ r.op # "idle" /\ Current(r)
  BY DEF Begin
<1> HIDE DEF r
<1> QED BY <1>1, QuietSerial

\* Every handler's first read: what it decides on is the row as it is.
LEMMA RequestSerial ==
  ASSUME Alone, NEW w \in Workers, Request(w)
  PROVE  SerialInv'
<1> DEFINE rec(op, t, d, x) == [op |-> op, trip |-> t, driver |-> d, arg |-> x]
           Kept == UNCHANGED <<tripRow, goods, stop, ledger, reference>>
<1>0. PICK t \in Trips :
        \/ CreateMatch(w, t) \/ RetryFetch(w, t) \/ AssignFetch(w, t) \/ CancelFetch(w, t)
        \/ ArriveFetch(w, t) \/ StartFetch(w, t) \/ CompleteFetch(w, t)
        \/ QrFetch(w, t) \/ WebhookFetch(w, t) \/ ResendFetch(w, t)
        \/ \E how \in {"cash", "online"} : CollectFetch(w, t, how)
        \/ \E p \in Photos : PhotoFetch(w, t, p)
        \/ \E i \in Items, answer \in {"answered", "pending"} : ItemFetch(w, t, i, answer)
        \/ \E p \in InBetween, mark \in {"arrived", "done"} : StopFetch(w, t, p, mark)
  BY DEF Request, CompanyAsks, DriverAsks
<1>1. Kept
  BY <1>0 DEF CreateMatch, RetryFetch, AssignFetch, CancelFetch, ArriveFetch, StartFetch, CompleteFetch,
       QrFetch, WebhookFetch, ResendFetch, CollectFetch, PhotoFetch, ItemFetch, StopFetch, money
<1>2. CASE CreateMatch(w, t)
  <2>1. PICK d : Begin(w, "create", t, d, None) /\ Current(rec("create", t, d, None))
    BY <1>2 DEF CreateMatch, Current
  <2> QED BY <1>1, <2>1, BeginSerial
<1>3. CASE RetryFetch(w, t)
  <2>1. Current(rec("retry", t, None, None))
    BY <1>3 DEF RetryFetch, Current, Assignable
  <2> QED BY <1>1, <1>3, <2>1, BeginSerial DEF RetryFetch
<1>4. CASE AssignFetch(w, t)
  <2>1. Current(rec("assign", t, None, None))
    BY <1>4 DEF AssignFetch, Current
  <2> QED BY <1>1, <1>4, <2>1, BeginSerial DEF AssignFetch
<1>5. CASE CancelFetch(w, t)
  <2>1. Current(rec("cancel", t, None, None))
    BY <1>5 DEF CancelFetch, Current
  <2> QED BY <1>1, <1>5, <2>1, BeginSerial DEF CancelFetch
<1>6. CASE ArriveFetch(w, t)
  <2>1. Current(rec("arrive", t, driver[t], None))
    BY <1>6 DEF ArriveFetch, Current
  <2> QED BY <1>1, <1>6, <2>1, BeginSerial DEF ArriveFetch, DriverBegin
<1>7. CASE StartFetch(w, t)
  <2>1. Current(rec("start", t, driver[t], None))
    BY <1>7 DEF StartFetch, Current
  <2> QED BY <1>1, <1>7, <2>1, BeginSerial DEF StartFetch, DriverBegin
<1>8. CASE CompleteFetch(w, t)
  <2>1. Current(rec("complete", t, driver[t], status[t] = "in_progress"))
    BY <1>8 DEF CompleteFetch, Current
  <2> QED BY <1>1, <1>8, <2>1, BeginSerial DEF CompleteFetch, DriverBegin
<1>9. CASE QrFetch(w, t)
  <2>1. Current(rec("qr", t, driver[t], provider[t]))
    BY <1>9 DEF QrFetch, Collectable, Current
  <2> QED BY <1>1, <1>9, <2>1, BeginSerial DEF QrFetch, DriverBegin
<1>10. CASE WebhookFetch(w, t)
  <2>1. Current(rec("collect_ok", t, None, "online"))
    BY <1>10 DEF WebhookFetch, Current
  <2> QED BY <1>1, <1>10, <2>1, BeginSerial DEF WebhookFetch
<1>11. CASE ResendFetch(w, t)
  <2>1. Current(rec("resend", t, driver[t], None))
    BY DEF Current
  <2> QED BY <1>1, <1>11, <2>1, BeginSerial DEF ResendFetch, DriverBegin
<1>12. ASSUME NEW how \in {"cash", "online"}, CollectFetch(w, t, how) PROVE SerialInv'
  <2>1. Current(rec("collect", t, driver[t], how))
    BY <1>12 DEF CollectFetch, Collectable, Current
  <2> QED BY <1>1, <1>12, <2>1, BeginSerial DEF CollectFetch, DriverBegin
<1>13. ASSUME NEW p \in Photos, PhotoFetch(w, t, p) PROVE SerialInv'
  <2>1. Current(rec("photo", t, driver[t], p))
    BY DEF Current
  <2> QED BY <1>1, <1>13, <2>1, BeginSerial DEF PhotoFetch, DriverBegin
<1>14. ASSUME NEW i \in Items, NEW answer \in {"answered", "pending"}, ItemFetch(w, t, i, answer)
       PROVE  SerialInv'
  <2> DEFINE x == [item |-> i, answer |-> answer, photos |-> {}]
  <2>1. Current(rec("item", t, driver[t], x))
    BY <1>14 DEF ItemFetch, Current
  <2> QED BY <1>1, <1>14, <2>1, BeginSerial DEF ItemFetch, DriverBegin
<1>15. ASSUME NEW p \in InBetween, NEW mark \in {"arrived", "done"}, StopFetch(w, t, p, mark)
       PROVE  SerialInv'
  <2>1. Current(rec("stop", t, driver[t], <<p, mark>>))
    BY <1>15 DEF StopFetch, Current
  <2> QED BY <1>1, <1>15, <2>1, BeginSerial DEF StopFetch, DriverBegin
<1> HIDE DEF rec, Kept
<1> QED BY <1>0, <1>2, <1>3, <1>4, <1>5, <1>6, <1>7, <1>8, <1>9, <1>10, <1>11, <1>12, <1>13,
           <1>14, <1>15

\* A request that goes on without writing.
LEMMA BecomeSerial ==
  ASSUME Alone, NEW w \in Workers, NEW op, NEW d, NEW x, Become(w, op, d, x), req[w].op # "idle",
         UNCHANGED <<tripRow, goods, stop, ledger, reference>>,
         Current([op |-> op, trip |-> req[w].trip, driver |-> d, arg |-> x])
  PROVE  SerialInv'
<1> DEFINE r == [op |-> op, trip |-> req[w].trip, driver |-> d, arg |-> x]
<1>1. req' = [req EXCEPT ![w] = r] /\ Current(r)
  BY DEF Become
<1> HIDE DEF r
<1> QED BY <1>1, QuietSerial

\* Every later read and check of a handler.
LEMMA LookSerial ==
  ASSUME Alone, NEW w \in Workers,
         \/ Match(w) \/ StartCheck(w) \/ StopCheck(w) \/ ItemRead(w)
         \/ DropCheck(w) \/ QrFindsPayment(w) \/ CompleteCheck(w)
  PROVE  SerialInv'
<1> DEFINE t == req[w].trip
           d == req[w].driver
           rec(op, e, x) == [op |-> op, trip |-> t, driver |-> e, arg |-> x]
           Kept == UNCHANGED <<tripRow, goods, stop, ledger, reference>>
<1>0. req[w].op # "idle" /\ Kept
  BY DEF Match, StartCheck, StopCheck, ItemRead, DropCheck, QrFindsPayment, CompleteCheck, money
<1>1. Current(req[w]) /\ t \in Trips /\ DbTypeOK
  BY <1>0, Mine DEF DbInv
<1>2. CASE Match(w)
  <2>1. PICK e : Become(w, "place", e, None) /\ (e # None => ~Busy(e, t)) /\ req[w].op \in {"retry", "assign"}
    BY <1>2 DEF Match
  <2>2. Current(rec("place", e, None))
    BY <1>1, <2>1 DEF Current
  <2> QED BY <1>0, <2>1, <2>2, BecomeSerial
<1>3. CASE StartCheck(w)
  <2>1. StageProven(t, "pickup")
    BY <1>1, <1>3, StageTaken DEF StartCheck, Current, Stages
  <2>2. Current(rec("start_ok", d, req[w].arg))
    BY <1>1, <1>3, <2>1 DEF StartCheck, Current
  <2> QED BY <1>0, <1>3, <2>2, BecomeSerial DEF StartCheck, Then
<1>4. CASE StopCheck(w)
  <2>1. Current(rec("stop_ok", d, req[w].arg))
    BY <1>1, <1>4 DEF StopCheck, Current
  <2> QED BY <1>0, <1>4, <2>1, BecomeSerial DEF StopCheck, Then
<1>5. CASE ItemRead(w)
  <2> DEFINE x == [req[w].arg EXCEPT !.photos = PhotosOf(t, req[w].arg.item)]
  <2>1. Become(w, "item_read", d, x) /\ req[w].op = "item"
    BY <1>5 DEF ItemRead
  <2>2. req[w].arg \in ItemAnswers
    BY <1>0, <2>1, Mine DEF RequestOK, ArgOK
  <2>3. x.photos = PhotosOf(t, x.item)
    BY <2>2 DEF ItemAnswers
  <2> HIDE DEF x
  <2>4. Current(rec("item_read", d, x))
    BY <1>1, <2>1, <2>3 DEF Current
  <2> QED BY <1>0, <2>1, <2>4, BecomeSerial
<1>6. CASE DropCheck(w)
  <2>1. Current(rec(Checked(req[w].op), d, req[w].arg))
    BY <1>1, <1>6 DEF DropCheck, Checked, Current
  <2> QED BY <1>0, <1>6, <2>1, BecomeSerial DEF DropCheck, Then
<1>7. CASE QrFindsPayment(w)
  <2>1. Current(rec("collect_ok", d, "online"))
    BY <1>1, <1>7 DEF QrFindsPayment, Current
  <2> QED BY <1>0, <1>7, <2>1, BecomeSerial DEF QrFindsPayment
<1>8. CASE CompleteCheck(w)
  <2> DEFINE op == IF NeedsOtp(t) THEN "consume" ELSE "finish"
  <2>1. StageProven(t, "delivery")
    BY <1>1, <1>8, StageTaken DEF CompleteCheck, Current, Stages
  <2>2. op \in {"consume", "finish"} /\ Become(w, op, d, req[w].arg)
    BY <1>8 DEF CompleteCheck, Then
  <2> HIDE DEF op
  <2>3. Current(rec(op, d, req[w].arg))
    BY <1>1, <1>8, <2>1, <2>2 DEF CompleteCheck, Current
  <2> QED BY <1>0, <2>2, <2>3, BecomeSerial
<1> HIDE DEF rec, Kept
<1> QED BY <1>2, <1>3, <1>4, <1>5, <1>6, <1>7, <1>8

----------------------------------------------------------------------------
(* The steps that write.                                                     *)

\* A trip that is not under way moves on: nothing has been paid for it yet.
LEMMA StatusDb ==
  ASSUME DbTypeOK, SerialDb, NEW t \in Trips, NEW s, NEW d,
         status[t] \notin {"in_progress", "completed"}, s # "completed",
         status' = [status EXCEPT ![t] = s], driver' = [driver EXCEPT ![t] = d],
         s \in ActiveTrip => d = None \/ ~Busy(d, t),
         s = "in_progress" => StageProven(t, "pickup"),
         UNCHANGED <<book, goods, stop, ledger, reference>>
  PROVE  SerialDb'
<1>0. /\ status'[t] = s /\ \A u \in Trips \ {t} : status'[u] = status[u]
      /\ driver'[t] = d /\ \A u \in Trips \ {t} : driver'[u] = driver[u]
  BY DEF DbTypeOK
<1>1. ledger[t] = <<>> /\ reference[t] = None
  BY DEF SerialDb, MoneyOnTheWay
<1>2. PickupProven'
  BY <1>0 DEF SerialDb, PickupProven, StageProven, goods
<1>3. MoneyOnTheWay'
  BY <1>0, <1>1 DEF SerialDb, MoneyOnTheWay
<1>4. OneActiveTripPerDriver'
  BY <1>0 DEF SerialDb, OneActiveTripPerDriver, Busy
<1>5. EarningInStep'
  <2> SUFFICES ASSUME NEW u \in Trips
               PROVE  /\ Entered(u, "trip_earning")' <=> (status'[u] = "completed" /\ book'[u].earns)
                      /\ \A n \in 1 .. Len(ledger'[u]) : ledger'[u][n].driver = driver'[u]
    BY DEF EarningInStep
  <2>1. CASE u # t
    BY <1>0, <2>1 DEF SerialDb, EarningInStep, Entered
  <2>2. CASE u = t
    BY <1>0, <1>1, <2>2 DEF Entered
  <2> QED BY <2>1, <2>2
<1>6. FinishedItemsAnswered'
  BY <1>0 DEF SerialDb, FinishedItemsAnswered, ItemsAnswered, goods
<1>7. CompletedWithProof'
  BY <1>0 DEF SerialDb, CompletedWithProof, goods
<1>8. CancelledIsUnpaid'
  BY <1>0, <1>1 DEF SerialDb, CancelledIsUnpaid
<1> QED BY <1>2, <1>3, <1>4, <1>5, <1>6, <1>7, <1>8 DEF SerialDb

\* The handlers that move a trip on, or to another driver.
LEMMA StatusSerial ==
  ASSUME Alone, NEW w \in Workers,
         \/ CreateCommit(w) \/ Place(w) \/ CancelWrite(w) \/ ArriveWrite(w) \/ StartWrite(w)
  PROVE  SerialInv'
<1> DEFINE t == req[w].trip
<1>0. req[w].op # "idle"
  BY DEF CreateCommit, Place, CancelWrite, ArriveWrite, StartWrite
<1>1. /\ Current(req[w]) /\ Sound(req[w]) /\ t \in Trips
      /\ DbTypeOK /\ SerialDb /\ OneActiveTripPerDriver
  BY <1>0, Mine DEF DbInv, SerialDb
<1>2. driver = [driver EXCEPT ![t] = driver[t]]
  BY <1>1 DEF DbTypeOK
<1>3. status[t] \in ActiveTrip => driver[t] = None \/ ~Busy(driver[t], t)
  BY <1>1 DEF OneActiveTripPerDriver, Busy
<1>4. CASE CreateCommit(w) \/ Place(w)
  <2> DEFINE s == IF req[w].driver = None THEN "no_driver_available" ELSE "assigned"
             d == IF req[w].op = "place" /\ req[w].driver = None
                    THEN driver[t] ELSE req[w].driver
  <2>1. /\ status' = [status EXCEPT ![t] = s] /\ driver' = [driver EXCEPT ![t] = d]
        /\ s = "assigned" => d = None \/ ~Busy(d, t)
        /\ UNCHANGED <<book, goods, stop, ledger, reference>>
    <3>1. CASE CreateCommit(w)
      BY <1>1, <3>1 DEF CreateCommit, Current
    <3>2. CASE Place(w)
      BY <1>1, <3>2 DEF Place, Current, money
    <3> QED BY <1>4, <3>1, <3>2
  <2>2. status[t] \notin {"in_progress", "completed"}
    BY <1>1, <1>4 DEF CreateCommit, Place, Current, Sound, Assignable
  <2>3. SerialDb'
    <3>1. s \in {"no_driver_available", "assigned"}
      OBVIOUS
    <3> HIDE DEF s, d
    <3> QED BY <1>1, <2>1, <2>2, <3>1, StatusDb DEF ActiveTrip
  <2> QED BY <1>0, <1>4, <2>3, ReturnSerial DEF CreateCommit, Place
<1>5. CASE CancelWrite(w)
  <2>1. /\ status' = [status EXCEPT ![t] = "cancelled"] /\ driver' = driver
        /\ UNCHANGED <<book, goods, stop, ledger, reference>>
        /\ status[t] \notin {"in_progress", "completed"}
    BY <1>1, <1>5 DEF CancelWrite, Current, Cancellable, money
  <2>2. SerialDb'
    BY <1>1, <1>2, <2>1, StatusDb DEF ActiveTrip
  <2> QED BY <1>0, <1>5, <2>2, ReturnSerial DEF CancelWrite
<1>6. CASE ArriveWrite(w) \/ StartWrite(w)
  <2>1. PICK s \in {"arrived_at_pickup", "in_progress"}, x \in {"arrived", "done"} :
          /\ status' = [status EXCEPT ![t] = s] /\ driver' = driver
          /\ s = "in_progress" => StageProven(t, "pickup")
          /\ UNCHANGED <<book, goods, stop, ledger, reference>>
          /\ Become(w, "mark", req[w].driver, x)
          /\ status[t] \in {"assigned", "arrived_at_pickup"}
    <3>1. CASE ArriveWrite(w)
      BY <1>1, <3>1 DEF ArriveWrite, Current, money
    <3>2. CASE StartWrite(w)
      BY <1>1, <3>2 DEF StartWrite, Current, money
    <3> QED BY <1>6, <3>1, <3>2
  <2>2. SerialDb'
    BY <1>1, <1>2, <1>3, <2>1, StatusDb DEF ActiveTrip
  <2>3. PICK r : r = [op |-> "mark", trip |-> t, driver |-> req[w].driver, arg |-> x]
    OBVIOUS
  <2>4. req' = [req EXCEPT ![w] = r]
    BY <2>1, <2>3 DEF Become
  <2>5. Current(r)'
    BY <2>3 DEF Current
  <2> QED BY <1>0, <2>2, <2>4, <2>5, CurrentStep
<1> QED BY <1>4, <1>5, <1>6

\* Photos are added, and an item or a drop of a trip that is not finished is changed.
LEMMA GoodsDb ==
  ASSUME SerialDb, UNCHANGED <<tripRow, ledger, reference>>,
         \A u \in Trips : photo[u] \subseteq photo'[u],
         \A u \in Trips : status[u] = "completed" =>
           /\ item'[u] = item[u]
           /\ \A p \in StopPositions \ {0} : stop'[u][p] = stop[u][p]
  PROVE  SerialDb'
<1> USE DEF SerialDb, tripRow
<1>1. PickupProven' /\ MoneyOnTheWay' /\ OneActiveTripPerDriver'
  BY DEF PickupProven, MoneyOnTheWay, OneActiveTripPerDriver
<1>2. EarningInStep' /\ CancelledIsUnpaid'
  BY DEF EarningInStep, Entered, CancelledIsUnpaid
<1>3. FinishedItemsAnswered'
  BY DEF FinishedItemsAnswered, ItemsAnswered
<1>4. CompletedWithProof'
  <2>1. InBetween \union {LastStop} \subseteq StopPositions \ {0}
    BY LastStopAssumption DEF InBetween, StopPositions
  <2> QED BY <2>1 DEF CompletedWithProof
<1> QED BY <1>1, <1>2, <1>3, <1>4

\* The handlers that write stops, items and photos.
LEMMA GoodsSerial ==
  ASSUME Alone, NEW w \in Workers,
         \/ MarkPickup(w) \/ StopWrite(w) \/ PhotoWrite(w) \/ ItemWrite(w)
  PROVE  SerialInv'
<1> DEFINE t == req[w].trip
<1>0. req[w].op # "idle" /\ Return(w) /\ UNCHANGED <<tripRow, ledger, reference>>
  BY DEF MarkPickup, StopWrite, PhotoWrite, ItemWrite, money
<1>1. Current(req[w]) /\ RequestOK(req[w]) /\ t \in Trips /\ DbTypeOK /\ SerialDb
  BY <1>0, Mine DEF DbInv
<1>2. CASE MarkPickup(w)
  <2>1. /\ UNCHANGED goods
        /\ \A u \in Trips : \A p \in StopPositions \ {0} : stop'[u][p] = stop[u][p]
    BY <1>1, <1>2 DEF MarkPickup, DbTypeOK
  <2>2. SerialDb'
    BY <1>0, <1>1, <2>1, GoodsDb DEF goods
  <2> QED BY <1>0, <2>2, ReturnSerial
<1>3. CASE StopWrite(w)
  <2>1. /\ UNCHANGED goods /\ status[t] # "completed"
        /\ \A u \in Trips \ {t} : stop'[u] = stop[u]
    BY <1>1, <1>3 DEF StopWrite, DbTypeOK, Current
  <2>2. SerialDb'
    BY <1>0, <1>1, <2>1, GoodsDb DEF goods
  <2> QED BY <1>0, <2>2, ReturnSerial
<1>4. CASE PhotoWrite(w)
  <2>1. UNCHANGED <<item, stop>> /\ \A u \in Trips : photo[u] \subseteq photo'[u]
    BY <1>1, <1>4 DEF PhotoWrite, DbTypeOK
  <2>2. SerialDb'
    BY <1>0, <1>1, <2>1, GoodsDb
  <2> QED BY <1>0, <2>2, ReturnSerial
<1>5. CASE ItemWrite(w)
  <2>1. status[t] # "completed" /\ req[w].arg.photos = PhotosOf(t, req[w].arg.item)
    BY <1>1, <1>5 DEF ItemWrite, Current
  <2>2. \A u \in Trips : photo[u] \subseteq photo'[u]
    BY <1>1, <1>5, <2>1 DEF ItemWrite, DbTypeOK
  <2>3. stop' = stop /\ \A u \in Trips \ {t} : item'[u] = item[u]
    BY <1>1, <1>5 DEF ItemWrite, DbTypeOK
  <2>4. SerialDb'
    BY <1>0, <1>1, <2>1, <2>2, <2>3, GoodsDb
  <2> QED BY <1>0, <2>4, ReturnSerial
<1> QED BY <1>2, <1>3, <1>4, <1>5

----------------------------------------------------------------------------
(* The steps that touch the money.                                           *)

\* A new row of the wallet carries the driver it was made for.
LEMMA EnterDriver ==
  ASSUME DbTypeOK, NEW t \in Trips, NEW kind \in {"trip_earning", "cod_cash"},
         NEW d \in Drivers \union {None}, ledger' = Enter(t, kind, d),
         NEW n \in 1 .. Len(ledger'[t])
  PROVE  \/ ledger'[t][n].driver = d
         \/ n \in 1 .. Len(ledger[t]) /\ ledger'[t][n] = ledger[t][n]
<1>0. ledger[t] \in Seq(Entry) /\ ledger \in [Trips -> Seq(Entry)]
  BY DEF DbTypeOK
<1>1. CASE d = None \/ ~Worth(t, kind) \/ Entered(t, kind)
  BY <1>1 DEF Enter
<1>2. CASE ~(d = None \/ ~Worth(t, kind) \/ Entered(t, kind))
  <2> DEFINE e == [kind |-> kind, driver |-> d]
  <2>1. ledger'[t] = Append(ledger[t], e) /\ e.driver = d /\ e \in Entry
    BY <1>0, <1>2 DEF Enter, Entry
  <2> HIDE DEF e
  <2> QED BY <1>0, <2>1
<1> QED BY <1>1, <1>2

\* confirm_payment on a trip that is still under way.
LEMMA ConfirmSerial ==
  ASSUME Alone, NEW w \in Workers, Confirm(w)
  PROVE  SerialInv'
<1> DEFINE t == req[w].trip
<1>0. req[w].op = "collect_ok" /\ Return(w) /\ UNCHANGED <<tripRow, goods, stop>>
  BY DEF Confirm
<1>1. /\ Current(req[w]) /\ t \in Trips /\ status[t] = "in_progress"
      /\ DbInv /\ DbTypeOK /\ SerialDb /\ driver[t] \in Drivers \union {None}
  BY <1>0, Mine DEF Current, DbTypeOK
<1>2. /\ \A u \in Trips \ {t} : ledger'[u] = ledger[u] /\ reference'[u] = reference[u]
      /\ \A u \in Trips : Entered(u, "trip_earning")' <=> Entered(u, "trip_earning")
      /\ \A n \in 1 .. Len(ledger'[t]) :
           \/ ledger'[t][n].driver = driver[t]
           \/ n \in 1 .. Len(ledger[t]) /\ ledger'[t][n] = ledger[t][n]
  <2>1. \A u \in Trips \ {t} : reference'[u] = reference[u]
    BY <1>1 DEF Confirm, DbTypeOK, money
  <2>2. CASE ledger' = Enter(t, "cod_cash", driver[t])
    <3>1. /\ \A u \in Trips \ {t} : ledger'[u] = ledger[u]
          /\ \A u \in Trips : Entered(u, "trip_earning")' <=> Entered(u, "trip_earning")
      BY <1>1, <2>2, EnterFacts
    <3>2. \A n \in 1 .. Len(ledger'[t]) :
            \/ ledger'[t][n].driver = driver[t]
            \/ n \in 1 .. Len(ledger[t]) /\ ledger'[t][n] = ledger[t][n]
      BY <1>1, <2>2, EnterDriver
    <3> QED BY <2>1, <3>1, <3>2
  <2>3. CASE ledger' = ledger
    BY <2>1, <2>3 DEF Entered
  <2> QED BY <2>2, <2>3 DEF Confirm, money
<1>3. EarningInStep'
  <2> SUFFICES ASSUME NEW u \in Trips
               PROVE  /\ Entered(u, "trip_earning")' <=> (status'[u] = "completed" /\ book'[u].earns)
                      /\ \A n \in 1 .. Len(ledger'[u]) : ledger'[u][n].driver = driver'[u]
    BY DEF EarningInStep
  <2>1. /\ Entered(u, "trip_earning") <=> (status[u] = "completed" /\ book[u].earns)
        /\ \A n \in 1 .. Len(ledger[u]) : ledger[u][n].driver = driver[u]
    BY <1>1 DEF SerialDb, EarningInStep
  <2>2. UNCHANGED <<book, status, driver>>
    BY <1>0 DEF tripRow
  <2>3. CASE u # t
    BY <1>2, <2>1, <2>2, <2>3
  <2>4. CASE u = t
    BY <1>2, <2>1, <2>2, <2>4
  <2> QED BY <2>3, <2>4
<1>4. SerialDb'
  <2> USE <1>0, <1>1 DEF SerialDb, tripRow, goods
  <2>1. PickupProven' /\ OneActiveTripPerDriver'
    BY DEF PickupProven, OneActiveTripPerDriver
  <2>2. MoneyOnTheWay' /\ CancelledIsUnpaid'
    BY <1>2 DEF MoneyOnTheWay, CancelledIsUnpaid
  <2>3. FinishedItemsAnswered' /\ CompletedWithProof'
    BY DEF FinishedItemsAnswered, ItemsAnswered, CompletedWithProof
  <2> QED BY <1>3, <2>1, <2>2, <2>3
<1> QED BY <1>0, <1>4, ReturnSerial

\* driver_complete, on the row it has checked.
LEMMA CompleteSerial ==
  ASSUME Alone, NEW w \in Workers, CompleteWrite(w)
  PROVE  SerialInv'
<1> DEFINE t == req[w].trip
           d == req[w].driver
<1>0. req[w].op = "finish" /\ req[w].arg /\ Return(w) /\ UNCHANGED <<book, driver, reference, goods>>
  BY DEF CompleteWrite
<1>1. /\ Current(req[w]) /\ t \in Trips /\ status[t] = "in_progress"
      /\ DbInv /\ DbTypeOK /\ SerialDb /\ d = driver[t] /\ d \in Drivers /\ d # None
      /\ StageProven(t, "delivery") /\ StopsFinished(t) /\ ItemsAnswered(t)
  BY <1>0, Mine, NoneAssumption DEF Current, Sound
<1>2. /\ status'[t] = "completed" /\ \A u \in Trips \ {t} : status'[u] = status[u]
      /\ stop'[t] = [stop[t] EXCEPT ![LastStop] = "done"]
      /\ \A u \in Trips \ {t} : stop'[u] = stop[u]
      /\ ledger' = Enter(t, "trip_earning", d)
  BY <1>1 DEF CompleteWrite, DbTypeOK
<1>3. /\ \A u \in Trips \ {t} : ledger'[u] = ledger[u]
      /\ \A u \in Trips :
           Entered(u, "trip_earning")' <=> Entered(u, "trip_earning") \/ (u = t /\ book[t].earns)
  <2>1. Worth(t, "trip_earning") <=> book[t].earns
    BY DEF Worth
  <2>2. d \in Drivers \union {None} /\ DbInv
    BY <1>1
  <2> HIDE DEF d
  <2>3. /\ \A u \in Trips \ {t} : ledger'[u] = ledger[u]
        /\ \A u \in Trips, k \in {"trip_earning", "cod_cash"} :
             Entered(u, k)' <=>
               Entered(u, k) \/ (u = t /\ k = "trip_earning" /\ d # None /\ Worth(t, "trip_earning"))
    BY <1>1, <1>2, <2>2, EnterFacts
  <2> QED BY <1>1, <2>1, <2>3
<1>4. \A n \in 1 .. Len(ledger'[t]) :
        \/ ledger'[t][n].driver = d
        \/ n \in 1 .. Len(ledger[t]) /\ ledger'[t][n] = ledger[t][n]
  BY <1>1, <1>2, EnterDriver
<1>5. PickupProven'
  BY <1>0, <1>1, <1>2 DEF SerialDb, PickupProven, goods
<1>6. MoneyOnTheWay' /\ CancelledIsUnpaid'
  BY <1>0, <1>1, <1>2, <1>3 DEF SerialDb, MoneyOnTheWay, CancelledIsUnpaid
<1>7. OneActiveTripPerDriver'
  BY <1>0, <1>1, <1>2 DEF ActiveTrip, SerialDb, OneActiveTripPerDriver
<1>8. EarningInStep'
  <2> SUFFICES ASSUME NEW u \in Trips
               PROVE  /\ Entered(u, "trip_earning")' <=> (status'[u] = "completed" /\ book'[u].earns)
                      /\ \A n \in 1 .. Len(ledger'[u]) : ledger'[u][n].driver = driver'[u]
    BY DEF EarningInStep
  <2>1. /\ Entered(u, "trip_earning") <=> (status[u] = "completed" /\ book[u].earns)
        /\ \A n \in 1 .. Len(ledger[u]) : ledger[u][n].driver = driver[u]
    BY <1>1 DEF SerialDb, EarningInStep
  <2>2. CASE u # t
    BY <1>0, <1>2, <1>3, <2>1, <2>2
  <2>3. CASE u = t
    <3>1. Entered(u, "trip_earning")' <=> (status'[u] = "completed" /\ book'[u].earns)
      BY <1>0, <1>1, <1>2, <1>3, <2>1, <2>3
    <3>2. \A n \in 1 .. Len(ledger'[u]) : ledger'[u][n].driver = driver'[u]
      BY <1>0, <1>1, <1>4, <2>1, <2>3
    <3> QED BY <3>1, <3>2
  <2> QED BY <2>2, <2>3
<1>9. FinishedItemsAnswered'
  BY <1>0, <1>1, <1>2 DEF SerialDb, FinishedItemsAnswered, ItemsAnswered, goods
<1>10. CompletedWithProof'
  <2>1. book[t].photos \subseteq photo[t]
    <3> SUFFICES ASSUME NEW p \in book[t].photos PROVE p \in photo[t]
      OBVIOUS
    <3>1. p \in Photos
      BY <1>1, BookingsAssumption DEF DbTypeOK, Booking
    <3>2. p[1] \in {"pickup", "delivery"}
      BY <3>1 DEF Photos, Stages
    <3> QED BY <1>1, <3>2 DEF SerialDb, PickupProven, StageProven
  <2>2. \A p \in InBetween \union {LastStop} : stop'[t][p] = "done"
    <3>1. stop[t] \in [StopPositions -> {"pending", "arrived", "done"}] /\ LastStop \in StopPositions
      BY <1>1, LastStopAssumption DEF DbTypeOK, StopPositions
    <3>2. InBetween \subseteq StopPositions
      BY DEF InBetween
    <3> QED BY <1>1, <1>2, <3>1, <3>2 DEF StopsFinished
  <2>3. ASSUME NEW u \in Trips, status'[u] = "completed"
        PROVE  /\ book'[u].photos \subseteq photo'[u]
               /\ \A p \in InBetween \union {LastStop} : stop'[u][p] = "done"
    <3>1. CASE u # t
      BY <1>0, <1>1, <1>2, <2>3, <3>1 DEF SerialDb, CompletedWithProof, goods
    <3>2. CASE u = t
      BY <1>0, <2>1, <2>2, <3>2 DEF goods
    <3> QED BY <3>1, <3>2
  <2> QED BY <2>3 DEF CompletedWithProof
<1>11. SerialDb'
  BY <1>5, <1>6, <1>7, <1>8, <1>9, <1>10 DEF SerialDb
<1> QED BY <1>0, <1>11, ReturnSerial

\* Payment codes and delivery OTPs are not what a request decides on.
LEMMA CacheSerial ==
  ASSUME Alone, NEW w \in Workers,
         QrWrite(w) \/ ConfirmRollback(w) \/ ResendWrite(w) \/ ConsumeOtp(w)
  PROVE  SerialInv'
<1>1. req[w].op # "idle" /\ UNCHANGED <<tripRow, goods, stop, ledger, reference>>
  BY DEF QrWrite, ConfirmRollback, ResendWrite, ConsumeOtp
<1>2. CASE Return(w)
  BY <1>1, <1>2, IdleCurrent, QuietSerial DEF Return
<1>3. CASE ConsumeOtp(w)
  <2>1. Current([op |-> "finish", trip |-> req[w].trip, driver |-> req[w].driver, arg |-> req[w].arg])
    BY <1>1, <1>3, Mine DEF ConsumeOtp, Current
  <2> QED BY <1>1, <1>3, <2>1, BecomeSerial DEF ConsumeOtp, Then
<1> QED BY <1>2, <1>3 DEF QrWrite, ConfirmRollback, ResendWrite

----------------------------------------------------------------------------
(* The theorems.                                                             *)

\* Nothing is booked and nobody is served at first.
LEMMA InitSerial == Init => SerialInv
<1> SUFFICES ASSUME Init PROVE SerialInv
  OBVIOUS
<1> USE DEF Init
<1>1. PickupProven /\ MoneyOnTheWay /\ OneActiveTripPerDriver
  BY DEF PickupProven, MoneyOnTheWay, OneActiveTripPerDriver
<1>2. EarningInStep /\ FinishedItemsAnswered /\ CompletedWithProof /\ CancelledIsUnpaid
  BY DEF EarningInStep, Entered, FinishedItemsAnswered, CompletedWithProof, CancelledIsUnpaid
<1>3. AllCurrent
  BY DEF AllCurrent, Current
<1> QED BY <1>1, <1>2, <1>3 DEF SerialInv, SerialDb

\* Every step of a request that has the database to itself.
LEMMA StepSerial == Alone /\ [Next]_vars => SerialInv'
<1> SUFFICES ASSUME Alone, [Next]_vars PROVE SerialInv'
  OBVIOUS
<1>1. CASE UNCHANGED vars
  <2>1. UNCHANGED <<tripRow, goods, stop, ledger, reference>> /\ UNCHANGED req
    BY <1>1 DEF vars, money
  <2>2. SerialDb'
    BY <2>1, DbKept DEF Alone, SerialInv
  <2>3. AllCurrent'
    BY <2>1 DEF Alone, SerialInv, AllCurrent, Current, Busy, OrderPhotoTaken, StageProven, PhotosOf,
         StopsFinished, ItemsAnswered, tripRow, goods
  <2> QED BY <2>2, <2>3 DEF SerialInv
<1>2. ASSUME NEW t \in Trips, Expire(t) PROVE SerialInv'
  <2>1. UNCHANGED <<tripRow, goods, stop, ledger, reference>> /\ UNCHANGED req
    BY <1>2 DEF Expire
  <2>2. SerialDb'
    BY <2>1, DbKept DEF Alone, SerialInv
  <2>3. AllCurrent'
    BY <2>1 DEF Alone, SerialInv, AllCurrent, Current, Busy, OrderPhotoTaken, StageProven, PhotosOf,
         StopsFinished, ItemsAnswered, tripRow, goods
  <2> QED BY <2>2, <2>3 DEF SerialInv
<1>3. ASSUME NEW w \in Workers, Request(w) PROVE SerialInv'
  BY <1>3, RequestSerial
<1>4. ASSUME NEW w \in Workers, Abort(w) PROVE SerialInv'
  <2>1. /\ UNCHANGED <<tripRow, goods, stop, ledger, reference>>
        /\ req[w].op # "idle" /\ req' = [req EXCEPT ![w] = Idle]
    BY <1>4 DEF Abort, Return, money
  <2> QED BY <2>1, IdleCurrent, QuietSerial
<1>5. ASSUME NEW w \in Workers, Proceed(w) PROVE SerialInv'
  <2>1. CASE CreateCommit(w) \/ Place(w) \/ CancelWrite(w) \/ ArriveWrite(w) \/ StartWrite(w)
    BY <2>1, StatusSerial
  <2>2. CASE MarkPickup(w) \/ StopWrite(w) \/ PhotoWrite(w) \/ ItemWrite(w)
    BY <2>2, GoodsSerial
  <2>3. CASE \/ Match(w) \/ StartCheck(w) \/ StopCheck(w) \/ ItemRead(w)
             \/ DropCheck(w) \/ QrFindsPayment(w) \/ CompleteCheck(w)
    BY <2>3, LookSerial
  <2>4. CASE QrWrite(w) \/ ConfirmRollback(w) \/ ResendWrite(w) \/ ConsumeOtp(w)
    BY <2>4, CacheSerial
  <2>5. CASE Confirm(w)
    BY <2>5, ConfirmSerial
  <2>6. CASE CompleteWrite(w)
    BY <2>6, CompleteSerial
  <2> QED BY <1>5, <2>1, <2>2, <2>3, <2>4, <2>5, <2>6 DEF Proceed
<1> QED BY <1>1, <1>2, <1>3, <1>4, <1>5 DEF Next

\* While no two requests overlap, the row each of them read is the row it writes.
THEOREM SerialInductive == Spec /\ []NoOverlap => []SerialInv
<1>1. SerialInv /\ IInv /\ NoOverlap /\ NoOverlap' /\ [Next]_vars => SerialInv'
  BY StepSerial DEF Alone
<1> QED BY <1>1, InitSerial, Inductive, PTL DEF Spec

\* One worker serves one request at a time.
THEOREM OneWorker == (\A v, w \in Workers : v = w) => NoOverlap
BY DEF NoOverlap

\* With no two matchings or assignments side by side a driver is never given a second
\* active trip (find_nearest_available_driver, assign_driver).
THEOREM NoDoubleAssignment == Spec /\ []NoOverlap => []OneActiveTripPerDriver
<1>1. SerialInv => OneActiveTripPerDriver
  BY DEF SerialInv, SerialDb
<1> QED BY <1>1, SerialInductive, PTL

\* A trip's wallet rows name the driver on its row, and the earning is there exactly
\* when the trip is completed, unless a reassignment or cancellation overlaps
\* (driver_complete, collect_cod_payment).
THEOREM WalletTellsTheTrip == Spec /\ []NoOverlap => []EarningInStep
<1>1. SerialInv => EarningInStep
  BY DEF SerialInv, SerialDb
<1> QED BY <1>1, SerialInductive, PTL

\* No item of a completed trip is unanswered, if no reset overlaps the completion
\* (_require_items_verified, reset_item).
THEOREM ItemsAnsweredAtTheEnd == Spec /\ []NoOverlap => []FinishedItemsAnswered
<1>1. SerialInv => FinishedItemsAnswered
  BY DEF SerialInv, SerialDb
<1> QED BY <1>1, SerialInductive, PTL

\* Every photo asked for and every drop is there when a trip is completed, whichever
\* stage asked for it and however many attempts died in between (driver_start,
\* driver_complete).
THEOREM ProofAtTheEnd == Spec /\ []NoOverlap => []CompletedWithProof
<1>1. SerialInv => CompletedWithProof
  BY DEF SerialInv, SerialDb
<1> QED BY <1>1, SerialInductive, PTL

\* A trip that was cancelled has never been paid for (cancel_trip, confirm_payment).
THEOREM NothingPaidForCancelled == Spec /\ []NoOverlap => []CancelledIsUnpaid
<1>1. SerialInv => CancelledIsUnpaid
  BY DEF SerialInv, SerialDb
<1> QED BY <1>1, SerialInductive, PTL

\* No handler takes a delivered or cancelled trip up again (_transition, retry_matching,
\* assign_driver).
THEOREM EndStays == Spec /\ []NoOverlap => EndIsFinal
<1> DEFINE Stays == \A t \in Trips : status[t] \in {"completed", "cancelled"} => status'[t] = status[t]
<1>1. IInv /\ SerialInv /\ NoOverlap /\ NoOverlap' /\ [Next]_vars => [Stays]_vars
  <2> SUFFICES ASSUME Alone, Next PROVE Stays
    BY DEF Alone, vars, tripRow
  <2>1. status \in [Trips -> TripStatus]
    BY DEF Alone, IInv, DbInv, DbTypeOK
  <2>2. ASSUME NEW w \in Workers,
               \/ CreateCommit(w) \/ Place(w) \/ CancelWrite(w) \/ ArriveWrite(w) \/ StartWrite(w)
               \/ CompleteWrite(w)
        PROVE  Stays
    <3>1. PICK s : status' = [status EXCEPT ![req[w].trip] = s]
      BY <2>2 DEF CreateCommit, Place, CancelWrite, ArriveWrite, StartWrite, CompleteWrite
    <3>2. req[w].op # "idle"
      BY <2>2 DEF CreateCommit, Place, CancelWrite, ArriveWrite, StartWrite, CompleteWrite
    <3>3. status[req[w].trip] \notin {"completed", "cancelled"}
      BY <2>2, <3>2, Mine DEF CreateCommit, Place, CancelWrite, ArriveWrite, StartWrite, CompleteWrite,
           Sound, Current, Assignable, Cancellable
    <3> QED BY <2>1, <3>1, <3>3
  <2>3. ASSUME NEW w \in Workers, Proceed(w),
               ~(\/ CreateCommit(w) \/ Place(w) \/ CancelWrite(w) \/ ArriveWrite(w) \/ StartWrite(w)
                 \/ CompleteWrite(w))
        PROVE  UNCHANGED status
    BY <2>3 DEF Proceed, tripRow, Match, StartCheck, MarkPickup, StopCheck, StopWrite, PhotoWrite,
         ItemRead, ItemWrite, DropCheck, QrWrite, QrFindsPayment, Confirm, ConfirmRollback, ResendWrite,
         CompleteCheck, ConsumeOtp
  <2>4. ASSUME NEW w \in Workers, Request(w) PROVE UNCHANGED status
    BY <2>4 DEF Request, CompanyAsks, DriverAsks, tripRow, CreateMatch, RetryFetch, AssignFetch, CancelFetch, ArriveFetch,
         StartFetch, CompleteFetch, QrFetch, WebhookFetch, ResendFetch, CollectFetch, PhotoFetch,
         ItemFetch, StopFetch
  <2>5. ASSUME NEW t \in Trips, Expire(t) PROVE UNCHANGED status
    BY <2>5 DEF Expire, tripRow
  <2>6. ASSUME NEW w \in Workers, Abort(w) PROVE UNCHANGED status
    BY <2>6 DEF Abort, tripRow
  <2> QED BY <2>2, <2>3, <2>4, <2>5, <2>6 DEF Next
<1>2. Spec /\ []NoOverlap => [][Stays]_vars
  BY <1>1, Inductive, SerialInductive, PTL DEF Spec
<1> QED BY <1>2 DEF EndIsFinal
=============================================================================
