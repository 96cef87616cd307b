---------------------------- MODULE Wallet_proofs ----------------------------
(***************************************************************************)
(* WalletService keeps its ledger, for any number of drivers, trips and      *)
(* concurrent requests.                                                      *)
(***************************************************************************)
EXTENDS Wallet, TLAPS

\* Between these two statements a transaction holds the row of its driver.
HasDriver(w) == req[w].op \in {"sum", "insert"}
\* From its first statement on, a settlement holds the row of its trip.
HasTrip(w)   == req[w].op \in {"look", "lock_driver", "sum", "insert"} /\ req[w].trip # None

LocksHeld ==
  \A w \in Workers :
    /\ HasDriver(w) => driverLock[req[w].driver] = w
    /\ HasTrip(w)   => tripLock[req[w].trip] = w
    /\ req[w].op \in {"lock_trip", "look"} => req[w].trip # None

\* What a transaction has read is still so, because of the locks.
SeenIsTotal == \A w \in Workers : req[w].op = "insert" => req[w].seen = total[req[w].driver]
StillUnsettled ==
  \A w \in Workers :
    req[w].op \in {"lock_driver", "sum", "insert"} /\ req[w].trip # None
    => ~L!Settled(req[w].trip, req[w].kind)

RowsOK == StatementAddsUp /\ PayoutsCovered /\ SettledOnce
ReadsOK == LocksHeld /\ SeenIsTotal /\ StillUnsettled

WInv == TypeOK /\ RowsOK /\ ReadsOK

\* A pending request is never the idle one.
LEMMA ReqType ==
  ASSUME TypeOK, NEW w \in Workers
  PROVE  req[w].op # "idle" => req[w] \in Pending
BY DEF TypeOK, Pending, Idle

\* A step that writes no row keeps every statement.
LEMMA RowsKept ==
  ASSUME RowsOK, UNCHANGED <<rows, total>>
  PROVE  RowsOK'
<1>1. StatementAddsUp'
  BY DEF RowsOK, StatementAddsUp, L!Closing
<1>2. PayoutsCovered'
  BY DEF RowsOK, PayoutsCovered
<1>3. SettledOnce'
  BY DEF RowsOK, SettledOnce
<1> QED BY <1>1, <1>2, <1>3 DEF RowsOK

\* A new request holds nothing and has read nothing.
LEMMA AskStep ==
  ASSUME WInv, NEW w \in Workers, NEW op \in {"lock_trip", "lock_driver"}, NEW d \in Drivers,
         NEW t \in Trips \union {None}, NEW kind \in L!Kinds, NEW amount \in Int \ {0},
         Ask(w, op, d, t, kind, amount), op = "lock_trip" <=> t # None
  PROVE  WInv'
<1>1. /\ \A v \in Workers \ {w} : req'[v] = req[v]
      /\ req'[w] = [op |-> op, driver |-> d, trip |-> t, kind |-> kind, amount |-> amount, seen |-> 0]
      /\ UNCHANGED <<rows, total, tripLock, driverLock>>
  BY DEF Ask, WInv, TypeOK, locks
<1>2. TypeOK'
  <2>1. [op |-> op, driver |-> d, trip |-> t, kind |-> kind, amount |-> amount, seen |-> 0] \in Pending
    BY DEF Pending
  <2>2. req' \in [Workers -> Pending \union {Idle}]
    BY <2>1 DEF Ask, WInv, TypeOK
  <2> QED BY <1>1, <2>2 DEF WInv, TypeOK
<1>3. RowsOK'
  BY <1>1, RowsKept DEF WInv
<1>4. LocksHeld'
  BY <1>1 DEF WInv, ReadsOK, LocksHeld, HasDriver, HasTrip
<1>5. SeenIsTotal'
  BY <1>1 DEF WInv, ReadsOK, SeenIsTotal
<1>6. StillUnsettled'
  BY <1>1 DEF WInv, ReadsOK, StillUnsettled, L!Settled
<1> QED BY <1>2, <1>3, <1>4, <1>5, <1>6 DEF WInv, ReadsOK

\* Whatever is asked of the wallet is a well-formed request.
LEMMA RequestStep ==
  ASSUME WInv, NEW w \in Workers, Request(w)
  PROVE  WInv'
<1>1. PICK d \in Drivers :
        \/ \E kind \in Manual, typed \in Typed : RecordManual(w, d, kind, typed)
        \/ \E t \in Trips : CreditTripEarning(w, t, d) \/ DebitCodCash(w, t, d)
  BY DEF Request
<1>2. ASSUME NEW kind \in Manual, NEW typed \in Typed, RecordManual(w, d, kind, typed)
      PROVE  WInv'
  <2>1. Signed(kind, typed) \in Int \ {0}
    BY <1>2, TypedAssumption DEF RecordManual, Acceptable, Signed
  <2>2. kind \in L!Kinds
    BY DEF Manual, ApiKinds, L!Kinds
  <2>3. Ask(w, "lock_driver", d, None, kind, Signed(kind, typed))
    BY <1>2 DEF RecordManual
  <2> QED BY <2>1, <2>2, <2>3, AskStep
<1>3. ASSUME NEW t \in Trips, CreditTripEarning(w, t, d)
      PROVE  WInv'
  <2>1. t # None /\ Earning \in Int \ {0} /\ "trip_earning" \in L!Kinds
    BY NoneAssumption, FareAssumption DEF L!Kinds
  <2>2. Ask(w, "lock_trip", d, t, "trip_earning", Earning)
    BY <1>3 DEF CreditTripEarning
  <2> QED BY <2>1, <2>2, AskStep
<1>4. ASSUME NEW t \in Trips, DebitCodCash(w, t, d)
      PROVE  WInv'
  <2>1. t # None /\ -Fare \in Int \ {0} /\ "cod_cash" \in L!Kinds
    BY NoneAssumption, FareAssumption DEF L!Kinds
  <2>2. Ask(w, "lock_trip", d, t, "cod_cash", -Fare)
    BY <1>4 DEF DebitCodCash
  <2> QED BY <2>1, <2>2, AskStep
<1> QED BY <1>1, <1>2, <1>3, <1>4

\* The end of a transaction leaves the other transactions their locks.
LEMMA FinishKeeps ==
  ASSUME WInv, NEW w \in Workers, Finish(w)
  PROVE  /\ \A v \in Workers \ {w} : req'[v] = req[v]
         /\ req'[w] = Idle
         /\ tripLock'   \in [Trips -> Workers \union {None}]
         /\ driverLock' \in [Drivers -> Workers \union {None}]
         /\ req'        \in [Workers -> Pending \union {Idle}]
         /\ LocksHeld'
<1>1. /\ \A v \in Workers \ {w} : req'[v] = req[v]
      /\ req'[w] = Idle
      /\ tripLock'   \in [Trips -> Workers \union {None}]
      /\ driverLock' \in [Drivers -> Workers \union {None}]
      /\ req'        \in [Workers -> Pending \union {Idle}]
  BY DEF Finish, WInv, TypeOK
<1>2. ASSUME NEW v \in Workers \ {w}, req[v].op # "idle"
      PROVE  /\ req[v].driver \in Drivers
             /\ driverLock[req[v].driver] = v => driverLock'[req[v].driver] = v
             /\ req[v].trip # None /\ tripLock[req[v].trip] = v => tripLock'[req[v].trip] = v
  BY <1>2, ReqType DEF WInv, Finish, Pending
<1>3. LocksHeld'
  BY <1>1, <1>2 DEF WInv, ReadsOK, LocksHeld, HasDriver, HasTrip, Idle
<1> QED BY <1>1, <1>3

\* A transaction that ends without a row.
LEMMA FinishStep ==
  ASSUME WInv, NEW w \in Workers, Finish(w), UNCHANGED <<rows, total>>
  PROVE  WInv'
<1>1. TypeOK'
  BY FinishKeeps DEF WInv, TypeOK
<1>2. RowsOK'
  BY RowsKept DEF WInv
<1>3. SeenIsTotal' /\ StillUnsettled'
  BY FinishKeeps DEF WInv, ReadsOK, SeenIsTotal, StillUnsettled, L!Settled, Idle
<1> QED BY <1>1, <1>2, <1>3, FinishKeeps DEF WInv, ReadsOK

\* A transaction that goes on to its next statement keeps what it was asked for.
LEMMA ThenType ==
  ASSUME TypeOK, NEW w \in Workers, req[w].op # "idle",
         NEW op \in {"lock_trip", "look", "lock_driver", "sum", "insert"}, Then(w, op)
  PROVE  /\ req[w] \in Pending
         /\ req' \in [Workers -> Pending \union {Idle}]
         /\ \A v \in Workers \ {w} : req'[v] = req[v]
         /\ req'[w] = [req[w] EXCEPT !.op = op]
         /\ req'[w].op = op
         /\ req'[w].driver = req[w].driver /\ req'[w].trip = req[w].trip
         /\ req'[w].kind = req[w].kind /\ req'[w].seen = req[w].seen
<1>1. req[w] \in Pending
  BY ReqType
<1>2. [req[w] EXCEPT !.op = op] \in Pending
  BY <1>1 DEF Pending
<1> QED BY <1>1, <1>2 DEF Then, TypeOK, Pending

\* UPDATE or SELECT ... FOR UPDATE of the trip's row.
LEMMA LockTripStep ==
  ASSUME WInv, NEW w \in Workers, LockTrip(w)
  PROVE  WInv'
<1>1. TypeOK
  BY DEF WInv
<1>2. /\ req[w].op = "lock_trip" /\ req[w].trip # None
      /\ Then(w, "look") /\ UNCHANGED <<rows, total, driverLock>>
      /\ tripLock[req[w].trip] = None
      /\ tripLock' = [tripLock EXCEPT ![req[w].trip] = w]
  BY DEF LockTrip, WInv, ReadsOK, LocksHeld
<1>3. /\ req[w] \in Pending
      /\ req' \in [Workers -> Pending \union {Idle}]
      /\ \A v \in Workers \ {w} : req'[v] = req[v]
      /\ req'[w].op = "look"
      /\ req'[w].driver = req[w].driver /\ req'[w].trip = req[w].trip
      /\ req'[w].kind = req[w].kind
  BY <1>1, <1>2, ThenType
<1>4. TypeOK'
  BY <1>1, <1>2, <1>3 DEF TypeOK
<1>5. RowsOK'
  BY <1>2, RowsKept DEF WInv
<1>6. \A v \in Workers : HasTrip(v) => req[v] \in Pending /\ v # None
  BY <1>1, ReqType, NoneAssumption DEF HasTrip
<1>7. LocksHeld'
  <2>1. req[w].trip \in Trips
    BY <1>2, <1>3 DEF Pending
  <2>2. ASSUME NEW v \in Workers \ {w}
        PROVE  /\ HasDriver(v) => driverLock'[req[v].driver] = v
               /\ HasTrip(v) => tripLock'[req[v].trip] = v
    <3>1. HasTrip(v) => tripLock[req[v].trip] = v /\ req[v].trip \in Trips /\ v # None
      BY <1>6 DEF WInv, ReadsOK, LocksHeld, HasTrip, Pending
    <3> QED BY <1>1, <1>2, <2>1, <3>1 DEF WInv, ReadsOK, LocksHeld, TypeOK
  <2>3. /\ HasDriver(w)' => driverLock'[req'[w].driver] = w
        /\ HasTrip(w)' => tripLock'[req'[w].trip] = w
    BY <1>1, <1>2, <1>3, <2>1 DEF WInv, ReadsOK, LocksHeld, HasDriver, HasTrip, TypeOK
  <2> QED BY <1>2, <1>3, <2>2, <2>3 DEF WInv, ReadsOK, LocksHeld, HasDriver, HasTrip
<1>8. SeenIsTotal' /\ StillUnsettled'
  BY <1>2, <1>3 DEF WInv, ReadsOK, SeenIsTotal, StillUnsettled, L!Settled
<1> QED BY <1>4, <1>5, <1>7, <1>8 DEF WInv, ReadsOK

\* The look for an existing row.
LEMMA LookStep ==
  ASSUME WInv, NEW w \in Workers, Look(w)
  PROVE  WInv'
<1>1. CASE Finish(w) /\ UNCHANGED <<rows, total>>
  BY <1>1, FinishStep
<1>2. CASE ~L!Settled(req[w].trip, req[w].kind) /\ Then(w, "lock_driver") /\ UNCHANGED <<rows, total, locks>>
  <2>1. TypeOK /\ req[w].op = "look" /\ UNCHANGED <<rows, total, tripLock, driverLock>>
    BY <1>2 DEF WInv, Look, locks
  <2>2. /\ req[w] \in Pending
        /\ req' \in [Workers -> Pending \union {Idle}]
        /\ \A v \in Workers \ {w} : req'[v] = req[v]
        /\ req'[w].op = "lock_driver"
        /\ req'[w].driver = req[w].driver /\ req'[w].trip = req[w].trip
        /\ req'[w].kind = req[w].kind
    BY <1>2, <2>1, ThenType
  <2>3. TypeOK'
    BY <2>1, <2>2 DEF TypeOK
  <2>4. RowsOK'
    BY <2>1, RowsKept DEF WInv
  <2>5. LocksHeld'
    BY <1>2, <2>1, <2>2 DEF WInv, ReadsOK, LocksHeld, HasDriver, HasTrip
  <2>6. SeenIsTotal' /\ StillUnsettled'
    BY <1>2, <2>1, <2>2 DEF WInv, ReadsOK, SeenIsTotal, StillUnsettled, L!Settled
  <2> QED BY <2>3, <2>4, <2>5, <2>6 DEF WInv, ReadsOK
<1> QED BY <1>1, <1>2 DEF Look

\* SELECT ... FOR UPDATE of the driver's row.
LEMMA LockDriverStep ==
  ASSUME WInv, NEW w \in Workers, LockDriver(w)
  PROVE  WInv'
<1>1. TypeOK
  BY DEF WInv
<1>2. /\ req[w].op = "lock_driver"
      /\ Then(w, "sum") /\ UNCHANGED <<rows, total, tripLock>>
      /\ driverLock[req[w].driver] = None
      /\ driverLock' = [driverLock EXCEPT ![req[w].driver] = w]
  BY DEF LockDriver
<1>3. /\ req[w] \in Pending
      /\ req' \in [Workers -> Pending \union {Idle}]
      /\ \A v \in Workers \ {w} : req'[v] = req[v]
      /\ req'[w].op = "sum"
      /\ req'[w].driver = req[w].driver /\ req'[w].trip = req[w].trip
      /\ req'[w].kind = req[w].kind
  BY <1>1, <1>2, ThenType
<1>4. TypeOK'
  BY <1>1, <1>2, <1>3 DEF TypeOK
<1>5. RowsOK'
  BY <1>2, RowsKept DEF WInv
<1>6. \A v \in Workers : HasDriver(v) => req[v] \in Pending /\ v # None
  BY <1>1, ReqType, NoneAssumption DEF HasDriver
<1>7. LocksHeld'
  <2>1. req[w].driver \in Drivers
    BY <1>3 DEF Pending
  <2>2. ASSUME NEW v \in Workers \ {w}
        PROVE  /\ HasDriver(v) => driverLock'[req[v].driver] = v
               /\ HasTrip(v) => tripLock'[req[v].trip] = v
    BY <1>1, <1>2, <1>6, <2>1 DEF WInv, ReadsOK, LocksHeld, TypeOK
  <2>3. /\ HasDriver(w)' => driverLock'[req'[w].driver] = w
        /\ HasTrip(w)' => tripLock'[req'[w].trip] = w
    BY <1>1, <1>2, <1>3, <2>1 DEF WInv, ReadsOK, LocksHeld, HasDriver, HasTrip, TypeOK
  <2> QED BY <1>2, <1>3, <2>2, <2>3 DEF WInv, ReadsOK, LocksHeld, HasDriver, HasTrip
<1>8. SeenIsTotal' /\ StillUnsettled'
  BY <1>2, <1>3 DEF WInv, ReadsOK, SeenIsTotal, StillUnsettled, L!Settled
<1> QED BY <1>4, <1>5, <1>7, <1>8 DEF WInv, ReadsOK

\* SELECT SUM(amount), under the driver's lock.
LEMMA SumStep ==
  ASSUME WInv, NEW w \in Workers, Sum(w)
  PROVE  WInv'
<1> DEFINE r == [req[w] EXCEPT !.op = "insert", !.seen = total[req[w].driver]]
<1>1. TypeOK /\ req[w].op = "sum" /\ UNCHANGED <<rows, total, tripLock, driverLock>>
  BY DEF WInv, Sum, locks
<1>2. req[w] \in Pending
  BY <1>1, ReqType
<1>3. r \in Pending
  BY <1>1, <1>2 DEF Pending, TypeOK
<1>4. /\ req' \in [Workers -> Pending \union {Idle}]
      /\ \A v \in Workers \ {w} : req'[v] = req[v]
      /\ req'[w] = r
  BY <1>1, <1>3 DEF Sum, TypeOK
<1>5. r.op = "insert" /\ r.driver = req[w].driver /\ r.trip = req[w].trip /\ r.kind = req[w].kind
      /\ r.seen = total[req[w].driver]
  BY <1>2 DEF Pending
<1> HIDE DEF r
<1>6. TypeOK'
  BY <1>1, <1>4 DEF TypeOK
<1>7. RowsOK'
  BY <1>1, RowsKept DEF WInv
<1>8. LocksHeld'
  BY <1>1, <1>4, <1>5 DEF WInv, ReadsOK, LocksHeld, HasDriver, HasTrip
<1>9. SeenIsTotal' /\ StillUnsettled'
  BY <1>1, <1>4, <1>5 DEF WInv, ReadsOK, SeenIsTotal, StillUnsettled, L!Settled
<1> QED BY <1>6, <1>7, <1>8, <1>9 DEF WInv, ReadsOK

\* A refused payout, a broken constraint, a crash: the transaction leaves nothing.
LEMMA EmptyHandedStep ==
  ASSUME WInv, NEW w \in Workers, Refuse(w) \/ Abort(w)
  PROVE  WInv'
BY FinishStep DEF Refuse, Abort

\* The row INSERT adds, and what the locks say about it.
LEMMA InsertFacts ==
  ASSUME WInv, NEW w \in Workers, Insert(w)
  PROVE  LET r   == req[w]
             row == [kind |-> r.kind, amount |-> r.amount, after |-> r.seen + r.amount, trip |-> r.trip]
         IN  /\ r \in Pending
             /\ row \in L!Row
             /\ rows' = [rows EXCEPT ![r.driver] = Append(rows[r.driver], row)]
             /\ total' = [total EXCEPT ![r.driver] = total[r.driver] + r.amount]
             /\ row.after = L!Closing(rows[r.driver]) + row.amount
             /\ row.after = total[r.driver] + row.amount
             /\ row.kind = "payout" => row.after >= 0
             /\ row.trip # None => ~L!Settled(row.trip, row.kind)
             /\ driverLock[r.driver] = w
             /\ r.trip # None => tripLock[r.trip] = w
<1> DEFINE r   == req[w]
           row == [kind |-> r.kind, amount |-> r.amount, after |-> r.seen + r.amount, trip |-> r.trip]
<1>1. r.op = "insert" /\ r \in Pending
  BY ReqType DEF Insert, WInv
<1>2. row \in L!Row /\ row.amount \in Int /\ row.after \in Int
  BY <1>1 DEF Pending, L!Row
<1>3. /\ rows' = [rows EXCEPT ![r.driver] = Append(rows[r.driver], row)]
      /\ total' = [total EXCEPT ![r.driver] = total[r.driver] + r.amount]
  BY DEF Insert
<1>4. r.seen = total[r.driver] /\ total[r.driver] = L!Closing(rows[r.driver])
  BY <1>1 DEF WInv, RowsOK, StatementAddsUp, ReadsOK, SeenIsTotal, Pending
<1>5. row.kind = "payout" => row.after >= 0
  BY <1>1, <1>2 DEF Insert, Overdraws, Pending
<1>6. /\ row.trip # None => ~L!Settled(row.trip, row.kind)
      /\ driverLock[r.driver] = w
      /\ r.trip # None => tripLock[r.trip] = w
  BY <1>1 DEF WInv, ReadsOK, StillUnsettled, LocksHeld, HasDriver, HasTrip
<1> QED BY <1>1, <1>2, <1>3, <1>4, <1>5, <1>6

\* INSERT and COMMIT.
LEMMA InsertStep ==
  ASSUME WInv, NEW w \in Workers, Insert(w)
  PROVE  WInv'
<1> DEFINE r   == req[w]
           D   == r.driver
           row == [kind |-> r.kind, amount |-> r.amount, after |-> r.seen + r.amount, trip |-> r.trip]
<1>1. /\ r \in Pending /\ row \in L!Row
      /\ rows' = [rows EXCEPT ![D] = Append(rows[D], row)]
      /\ total' = [total EXCEPT ![D] = total[D] + r.amount]
      /\ row.after = L!Closing(rows[D]) + row.amount
      /\ row.after = total[D] + row.amount
      /\ row.kind = "payout" => row.after >= 0
      /\ row.trip # None => ~L!Settled(row.trip, row.kind)
      /\ driverLock[D] = w
      /\ r.trip # None => tripLock[r.trip] = w
  BY InsertFacts
<1>2. /\ D \in Drivers /\ r.amount \in Int /\ row.amount = r.amount
      /\ row.trip = r.trip /\ row.kind = r.kind /\ row.after \in Int
  BY <1>1 DEF Pending
<1>3. rows \in [Drivers -> Seq(L!Row)] /\ total \in [Drivers -> Int] /\ req[w].op = "insert" /\ Finish(w)
  BY DEF WInv, TypeOK, Insert
<1> HIDE DEF row, r, D
<1>4. /\ rows' \in [Drivers -> Seq(L!Row)]
      /\ \A e \in Drivers \ {D} : rows'[e] = rows[e] /\ total'[e] = total[e]
      /\ Len(rows'[D]) = Len(rows[D]) + 1 /\ Len(rows[D]) \in Nat
      /\ rows'[D][Len(rows[D]) + 1] = row
      /\ \A n \in 1 .. Len(rows[D]) : rows'[D][n] = rows[D][n]
      /\ total' \in [Drivers -> Int] /\ total'[D] = total[D] + row.amount
  BY <1>1, <1>2, <1>3
<1>5. TypeOK'
  BY <1>4, <1>3, FinishKeeps DEF TypeOK
<1>6. StatementAddsUp'
  <2>1. \A e \in Drivers \ {D} :
          /\ \A n \in 1 .. Len(rows'[e]) :
               rows'[e][n].after = (IF n = 1 THEN 0 ELSE rows'[e][n - 1].after) + rows'[e][n].amount
          /\ total'[e] = L!Closing(rows'[e])
    BY <1>4 DEF WInv, RowsOK, StatementAddsUp
  <2>2. L!Closing(rows[D]) = IF Len(rows[D]) = 0 THEN 0 ELSE rows[D][Len(rows[D])].after
    BY <1>2, <1>3 DEF L!Closing
  <2>3. \A n \in 1 .. Len(rows'[D]) :
          rows'[D][n].after = (IF n = 1 THEN 0 ELSE rows'[D][n - 1].after) + rows'[D][n].amount
    <3>1. ASSUME NEW n \in 1 .. Len(rows[D])
          PROVE  rows'[D][n].after = (IF n = 1 THEN 0 ELSE rows'[D][n - 1].after) + rows'[D][n].amount
      <4>1. rows[D][n].after = (IF n = 1 THEN 0 ELSE rows[D][n - 1].after) + rows[D][n].amount
        BY <1>2 DEF WInv, RowsOK, StatementAddsUp
      <4>2. rows'[D][n] = rows[D][n] /\ (n # 1 => rows'[D][n - 1] = rows[D][n - 1])
        BY <1>4
      <4> QED BY <4>1, <4>2
    <3>2. ASSUME NEW n \in Nat, n = Len(rows[D]) + 1
          PROVE  rows'[D][n].after = (IF n = 1 THEN 0 ELSE rows'[D][n - 1].after) + rows'[D][n].amount
      <4>1. n - 1 = Len(rows[D]) /\ rows'[D][n] = row
        BY <3>2, <1>4
      <4>2. n # 1 => rows'[D][n - 1] = rows[D][Len(rows[D])]
        BY <4>1, <1>4
      <4>3. L!Closing(rows[D]) = IF n = 1 THEN 0 ELSE rows'[D][n - 1].after
        BY <4>1, <4>2, <2>2, <1>4
      <4> QED BY <4>1, <4>3, <1>1
    <3> QED BY <1>4, <3>1, <3>2
  <2>4. L!Closing(rows'[D]) = row.after
    BY <1>2, <1>4 DEF L!Closing
  <2>5. total'[D] = L!Closing(rows'[D])
    BY <1>1, <1>2, <1>4, <2>4
  <2> QED BY <2>1, <2>3, <2>5 DEF StatementAddsUp
<1>7. PayoutsCovered'
  <2>1. ASSUME NEW e \in Drivers, NEW n \in 1 .. Len(rows'[e]), rows'[e][n].kind = "payout"
        PROVE  rows'[e][n].after >= 0
    BY <1>1, <1>2, <1>4, <2>1 DEF WInv, RowsOK, PayoutsCovered
  <2> QED BY <2>1 DEF PayoutsCovered
\* Where the new row is the only one of its trip and kind.
<1>8. \A e \in Drivers : \A n \in 1 .. Len(rows'[e]) :
        \/ n \in 1 .. Len(rows[e]) /\ rows'[e][n] = rows[e][n]
        \/ e = D /\ n = Len(rows[D]) + 1 /\ rows'[e][n] = row
  BY <1>2, <1>4
<1>9. row.trip # None =>
        \A e \in Drivers : \A n \in 1 .. Len(rows[e]) :
          ~(rows[e][n].trip = row.trip /\ rows[e][n].kind = row.kind)
  BY <1>1 DEF L!Settled
<1>10. SettledOnce'
  <2>1. ASSUME NEW e \in Drivers, NEW f \in Drivers,
               NEW m \in 1 .. Len(rows'[e]), NEW n \in 1 .. Len(rows'[f]),
               rows'[e][m].trip # None, rows'[e][m].trip = rows'[f][n].trip,
               rows'[e][m].kind = rows'[f][n].kind
        PROVE  e = f /\ m = n
    <3>1. CASE /\ m \in 1 .. Len(rows[e]) /\ rows'[e][m] = rows[e][m]
               /\ n \in 1 .. Len(rows[f]) /\ rows'[f][n] = rows[f][n]
      BY <2>1, <3>1 DEF WInv, RowsOK, SettledOnce
    <3>2. CASE rows'[e][m] = row /\ n \in 1 .. Len(rows[f]) /\ rows'[f][n] = rows[f][n]
      BY <2>1, <3>2, <1>9
    <3>3. CASE rows'[f][n] = row /\ m \in 1 .. Len(rows[e]) /\ rows'[e][m] = rows[e][m]
      BY <2>1, <3>3, <1>9
    <3>4. CASE e = D /\ m = Len(rows[D]) + 1 /\ f = D /\ n = Len(rows[D]) + 1
      BY <3>4
    <3> QED BY <1>8, <3>1, <3>2, <3>3, <3>4
  <2> QED BY <2>1 DEF SettledOnce
<1>11. SeenIsTotal'
  <2>1. ASSUME NEW v \in Workers \ {w}, req[v].op = "insert"
        PROVE  req[v].seen = total'[req[v].driver]
    <3>1. driverLock[req[v].driver] = v /\ req[v].driver \in Drivers
      BY <2>1, ReqType DEF WInv, ReadsOK, LocksHeld, HasDriver, Pending
    <3>2. req[v].driver # D
      BY <3>1, <1>1
    <3> QED BY <2>1, <3>1, <3>2, <1>4 DEF WInv, ReadsOK, SeenIsTotal
  <2> QED BY <2>1, <1>3, FinishKeeps DEF SeenIsTotal, Idle
<1>12. StillUnsettled'
  <2>1. ASSUME NEW v \in Workers \ {w}, req[v].op \in {"lock_driver", "sum", "insert"}, req[v].trip # None
        PROVE  \A e \in Drivers : \A n \in 1 .. Len(rows'[e]) :
                 ~(rows'[e][n].trip = req[v].trip /\ rows'[e][n].kind = req[v].kind)
    <3>1. tripLock[req[v].trip] = v /\ ~L!Settled(req[v].trip, req[v].kind)
      BY <2>1 DEF WInv, ReadsOK, LocksHeld, HasTrip, StillUnsettled
    <3>2. row.trip # req[v].trip
      BY <2>1, <3>1, <1>1, <1>2
    <3>3. ASSUME NEW e \in Drivers, NEW n \in 1 .. Len(rows'[e])
          PROVE  ~(rows'[e][n].trip = req[v].trip /\ rows'[e][n].kind = req[v].kind)
      <4>1. CASE n \in 1 .. Len(rows[e]) /\ rows'[e][n] = rows[e][n]
        BY <4>1, <3>1 DEF L!Settled
      <4>2. CASE rows'[e][n] = row
        BY <4>2, <3>2
      <4> QED BY <1>8, <4>1, <4>2
    <3> QED BY <3>3
  <2>2. /\ req'[w].op \notin {"lock_driver", "sum", "insert"}
        /\ \A v \in Workers \ {w} : req'[v] = req[v]
    BY <1>3, FinishKeeps DEF Idle
  <2> QED BY <2>1, <2>2 DEF StillUnsettled, L!Settled
<1> QED BY <1>5, <1>6, <1>7, <1>10, <1>11, <1>12, <1>3, FinishKeeps DEF WInv, RowsOK, ReadsOK

\* Nothing is written, locked or asked for at first.
LEMMA InitWInv == Init => WInv
<1> SUFFICES ASSUME Init PROVE WInv
  OBVIOUS
<1>1. TypeOK
  BY NoneAssumption DEF Init, TypeOK
<1>2. \A d \in Drivers : rows[d] = <<>> /\ Len(rows[d]) = 0 /\ total[d] = 0
  BY DEF Init
<1>3. RowsOK
  BY <1>2 DEF RowsOK, StatementAddsUp, PayoutsCovered, SettledOnce, L!Closing
<1>4. \A w \in Workers : req[w].op = "idle"
  BY DEF Init, Idle
<1>5. ReadsOK
  BY <1>4 DEF ReadsOK, LocksHeld, HasDriver, HasTrip, SeenIsTotal, StillUnsettled
<1> QED BY <1>1, <1>3, <1>5 DEF WInv

\* Every step of every request.
LEMMA StepWInv == WInv /\ [Next]_vars => WInv'
<1> SUFFICES ASSUME WInv, [Next]_vars PROVE WInv'
  OBVIOUS
<1>1. CASE UNCHANGED vars
  <2>1. UNCHANGED <<rows, total, tripLock, driverLock, req>>
    BY <1>1 DEF vars, locks
  <2>2. TypeOK'
    BY <2>1 DEF WInv, TypeOK
  <2>3. ReadsOK'
    BY <2>1 DEF WInv, ReadsOK, LocksHeld, HasDriver, HasTrip, SeenIsTotal, StillUnsettled, L!Settled
  <2> QED BY <2>1, <2>2, <2>3, RowsKept DEF WInv
<1>2. ASSUME NEW w \in Workers, Request(w) \/ Proceed(w) \/ Abort(w)
      PROVE  WInv'
  BY <1>2, RequestStep, LockTripStep, LookStep, LockDriverStep, SumStep, InsertStep, EmptyHandedStep
     DEF Proceed
<1> QED BY <1>1, <1>2 DEF Next

----------------------------------------------------------------------------
(* The theorems.                                                             *)

\* The inductive invariant: what a transaction has read under its locks stays so
\* until it commits.
THEOREM WalletInductive == Spec => []WInv
BY InitWInv, StepWInv, PTL DEF Spec

\* Rows, locks and pending requests keep to the values the code gives them.
THEOREM WalletTypes == Spec => []TypeOK
<1>1. WInv => TypeOK
  BY DEF WInv
<1> QED BY <1>1, WalletInductive, PTL

\* Every driver's statement can be read top to bottom and ends on the balance,
\* however many entries land together (add_entry's lock on the driver).
THEOREM AddsUp == Spec => []StatementAddsUp
<1>1. WInv => StatementAddsUp
  BY DEF WInv, RowsOK
<1> QED BY <1>1, WalletInductive, PTL

\* No payout is recorded that the driver's balance does not cover (add_entry).
THEOREM NoOverdraft == Spec => []PayoutsCovered
<1>1. WInv => PayoutsCovered
  BY DEF WInv, RowsOK
<1> QED BY <1>1, WalletInductive, PTL

\* A trip is paid out once and its cash debited once, over all drivers
\* (credit_trip_earning, debit_cod_cash, and the trip lock their callers hold).
THEOREM SettlesOnce == Spec => []SettledOnce
<1>1. WInv => SettledOnce
  BY DEF WInv, RowsOK
<1> QED BY <1>1, WalletInductive, PTL

\* One step of the wallet is one row of the ledger, or nothing.
LEMMA StepKeepsLedger == WInv /\ [Next]_vars => [L!Next]_rows
<1> SUFFICES ASSUME WInv, [Next]_vars, rows' # rows PROVE L!Next
  OBVIOUS
<1>1. PICK w \in Workers : Insert(w)
  BY DEF Next, vars, Request, RecordManual, CreditTripEarning, DebitCodCash, Ask,
         Proceed, LockTrip, Look, LockDriver, Sum, Refuse, Abort
<1> DEFINE r   == req[w]
           D   == r.driver
           row == [kind |-> r.kind, amount |-> r.amount, after |-> r.seen + r.amount, trip |-> r.trip]
<1>2. /\ r \in Pending /\ row \in L!Row
      /\ rows' = [rows EXCEPT ![D] = Append(rows[D], row)]
      /\ row.after = L!Closing(rows[D]) + row.amount
      /\ row.kind = "payout" => row.after >= 0
      /\ row.trip # None => ~L!Settled(row.trip, row.kind)
  BY <1>1, InsertFacts
<1>3. D \in Drivers /\ rows \in [Drivers -> Seq(L!Row)]
  BY <1>2 DEF Pending, WInv, TypeOK
<1> HIDE DEF row, r, D
<1>4. rows'[D] # <<>> /\ rows'[D][Len(rows'[D])] = row
  BY <1>2, <1>3
<1>5. L!Record(D, row)
  BY <1>2 DEF L!Record
<1> QED BY <1>2, <1>3, <1>4, <1>5 DEF L!Next

\* The wallet implements the ledger: behind its locks, statements and refusals,
\* every step records at most one row, as the ledger allows.
THEOREM ImplementsLedger == Spec => KeepsLedger
<1>1. Init => L!Init
  BY DEF Init, L!Init
<1> QED BY <1>1, StepKeepsLedger, WalletInductive, PTL DEF Spec, KeepsLedger, L!Spec
=============================================================================
