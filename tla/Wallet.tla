------------------------------- MODULE Wallet -------------------------------
(***************************************************************************)
(* WalletService of drivers/wallet.py, statement by statement.  Every entry *)
(* is written inside a transaction; PostgreSQL holds the row locks it takes *)
(* until that transaction ends.  An entry for a trip is part of the larger   *)
(* transaction of driver_complete or collect_cod_payment (trips/services.py),*)
(* which locks the trip's row first; an entry by hand locks the driver only. *)
(*                                                                         *)
(* A worker's request names its next statement in `op`.  Its INSERT and the  *)
(* COMMIT that makes it visible are one step.  Amounts are in paise.         *)
(***************************************************************************)
EXTENDS Integers, Sequences, FiniteSets

CONSTANTS
  Drivers,
  Trips,
  Workers,    \* web workers, each serving one request at a time
  Typed,      \* amounts an admin may type
  Fare,       \* what the customer of a trip owes
  Earning,    \* what its driver earns
  MaxRows,    \* bound of the model: rows and requests under way, of all drivers
  None        \* SQL NULL

ASSUME TypedAssumption == Typed \subseteq Int
ASSUME FareAssumption  == Fare \in Nat \ {0} /\ Earning \in Nat \ {0}
ASSUME NoneAssumption  == None \notin Drivers /\ None \notin Trips /\ None \notin Workers

VARIABLES
  rows,        \* driver -> the driver's WalletTransaction rows, oldest first
  total,       \* driver -> what SELECT SUM(amount) answers
  tripLock,    \* trip -> the worker whose transaction holds its row
  driverLock,  \* driver -> the worker whose transaction holds its row
  req          \* worker -> the entry it is writing

locks == <<tripLock, driverLock>>
vars  == <<rows, total, locks, req>>

L == INSTANCE Ledger

\* The kinds the API takes, and the two pages of the company, which leave out only earnings.
ApiKinds == {"payout", "bonus", "penalty", "adjustment"}
Manual   == ApiKinds \union {"cod_cash"}

Idle == [op |-> "idle", driver |-> None, trip |-> None, kind |-> None, amount |-> 0, seen |-> 0]

Init ==
  /\ rows       = [d \in Drivers |-> <<>>]
  /\ total      = [d \in Drivers |-> 0]
  /\ tripLock   = [t \in Trips |-> None]
  /\ driverLock = [d \in Drivers |-> None]
  /\ req        = [w \in Workers |-> Idle]

----------------------------------------------------------------------------
(* What is asked of the wallet.                                              *)

\* What is stored for what was typed, whichever way the kind moves the balance.
Signed(kind, typed) == IF kind \in {"penalty", "payout"} THEN -typed ELSE typed

\* Slip: nothing refuses an amount of zero.
AcceptableZero(kind, typed) == kind \in {"bonus", "penalty", "payout"} => typed >= 0

Acceptable(kind, typed) ==
  /\ typed # 0
  /\ kind \in {"bonus", "penalty", "payout"} => typed > 0

\* The model asks for no more than MaxRows rows.
Written   == {x \in Drivers \X (1 .. MaxRows) : x[2] <= Len(rows[x[1]])}
UnderWay  == {w \in Workers : req[w].op # "idle"}
Room      == Cardinality(Written) + Cardinality(UnderWay) < MaxRows

Ask(w, op, d, t, kind, amount) ==
  /\ req[w] = Idle
  /\ Room
  /\ req' = [req EXCEPT ![w] = [op |-> op, driver |-> d, trip |-> t, kind |-> kind,
                                amount |-> amount, seen |-> 0]]
  /\ UNCHANGED <<rows, total, locks>>

\* record_manual, from the API, the console and the admin site.
RecordManual(w, d, kind, typed) ==
  /\ Acceptable(kind, typed)
  /\ Ask(w, "lock_driver", d, None, kind, Signed(kind, typed))

\* credit_trip_earning and debit_cod_cash, about the driver then on the trip.
CreditTripEarning(w, t, d) == Ask(w, "lock_trip", d, t, "trip_earning", Earning)
DebitCodCash(w, t, d)      == Ask(w, "lock_trip", d, t, "cod_cash", -Fare)

----------------------------------------------------------------------------
(* The statements of its transaction.                                        *)

Then(w, op) == req' = [req EXCEPT ![w].op = op]

\* COMMIT or ROLLBACK: the transaction's locks go with it.
Finish(w) ==
  /\ tripLock'   = [t \in Trips |-> IF tripLock[t] = w THEN None ELSE tripLock[t]]
  /\ driverLock' = [d \in Drivers |-> IF driverLock[d] = w THEN None ELSE driverLock[d]]
  /\ req'        = [req EXCEPT ![w] = Idle]

\* Slip: the trip's row is read, not locked.
LockTripShared(w) ==
  /\ req[w].op = "lock_trip"
  /\ tripLock' = [tripLock EXCEPT ![req[w].trip] = w]
  /\ Then(w, "look")
  /\ UNCHANGED <<rows, total, driverLock>>

LockTrip(w) ==
  /\ req[w].op = "lock_trip"
  /\ tripLock[req[w].trip] = None
  /\ tripLock' = [tripLock EXCEPT ![req[w].trip] = w]
  /\ Then(w, "look")
  /\ UNCHANGED <<rows, total, driverLock>>

\* Slip: nobody looks for the row another request has written.
LookNot(w) ==
  /\ req[w].op = "look"
  /\ Then(w, "lock_driver") /\ UNCHANGED <<rows, total, locks>>

\* An entry that exists is returned as it is.
Look(w) ==
  /\ req[w].op = "look"
  /\ \/ L!Settled(req[w].trip, req[w].kind) /\ Finish(w) /\ UNCHANGED <<rows, total>>
     \/ ~L!Settled(req[w].trip, req[w].kind) /\ Then(w, "lock_driver") /\ UNCHANGED <<rows, total, locks>>

\* Slip: the driver's row is read, not locked.
LockDriverShared(w) ==
  /\ req[w].op = "lock_driver"
  /\ driverLock' = [driverLock EXCEPT ![req[w].driver] = w]
  /\ Then(w, "sum")
  /\ UNCHANGED <<rows, total, tripLock>>

LockDriver(w) ==
  /\ req[w].op = "lock_driver"
  /\ driverLock[req[w].driver] = None
  /\ driverLock' = [driverLock EXCEPT ![req[w].driver] = w]
  /\ Then(w, "sum")
  /\ UNCHANGED <<rows, total, tripLock>>

Sum(w) ==
  /\ req[w].op = "sum"
  /\ req' = [req EXCEPT ![w].op = "insert", ![w].seen = total[req[w].driver]]
  /\ UNCHANGED <<rows, total, locks>>

\* Slip: a payout is held against the balance before it.
OverdrawsAlready(kind, seen, amount) == kind = "payout" /\ seen < 0

Overdraws(kind, seen, amount) == kind = "payout" /\ seen + amount < 0

\* The unique constraint one_earning_per_trip.
Breaks(trip, kind) == kind = "trip_earning" /\ trip # None /\ L!Settled(trip, kind)

Insert(w) ==
  LET r == req[w] IN
  /\ r.op = "insert"
  /\ ~Overdraws(r.kind, r.seen, r.amount)
  /\ ~Breaks(r.trip, r.kind)
  /\ rows'  = [rows EXCEPT ![r.driver] = Append(@, [kind |-> r.kind, amount |-> r.amount,
                                                    after |-> r.seen + r.amount, trip |-> r.trip])]
  /\ total' = [total EXCEPT ![r.driver] = @ + r.amount]
  /\ Finish(w)

\* Slip: the refusal leaves the transaction open.
RefuseOpen(w) ==
  LET r == req[w] IN
  /\ r.op = "insert"
  /\ Overdraws(r.kind, r.seen, r.amount) \/ Breaks(r.trip, r.kind)
  /\ req' = [req EXCEPT ![w] = Idle]
  /\ UNCHANGED <<rows, total, locks>>

Refuse(w) ==
  LET r == req[w] IN
  /\ r.op = "insert"
  /\ Overdraws(r.kind, r.seen, r.amount) \/ Breaks(r.trip, r.kind)
  /\ Finish(w)
  /\ UNCHANGED <<rows, total>>

\* The worker dies or a later statement of the transaction fails.
Abort(w) ==
  /\ req[w].op # "idle"
  /\ Finish(w)
  /\ UNCHANGED <<rows, total>>

----------------------------------------------------------------------------
Request(w) ==
  \E d \in Drivers :
    \/ \E kind \in Manual, typed \in Typed : RecordManual(w, d, kind, typed)
    \/ \E t \in Trips : CreditTripEarning(w, t, d) \/ DebitCodCash(w, t, d)

Proceed(w) == LockTrip(w) \/ Look(w) \/ LockDriver(w) \/ Sum(w) \/ Insert(w) \/ Refuse(w)

Next == \E w \in Workers : Request(w) \/ Proceed(w) \/ Abort(w)

Spec == Init /\ [][Next]_vars

\* A live worker goes on, and PostgreSQL queues the waiters for a row: one that
\* keeps waiting gets the lock although others take it in between.
Fairness ==
  \A w \in Workers : WF_vars(Proceed(w)) /\ SF_vars(LockTrip(w)) /\ SF_vars(LockDriver(w))

FairSpec == Spec /\ Fairness

----------------------------------------------------------------------------
Pending == [op: {"lock_trip", "look", "lock_driver", "sum", "insert"}, driver: Drivers,
            trip: Trips \union {None}, kind: L!Kinds, amount: Int \ {0}, seen: Int]

TypeOK ==
  /\ rows       \in [Drivers -> Seq(L!Row)]
  /\ total      \in [Drivers -> Int]
  /\ tripLock   \in [Trips -> Workers \union {None}]
  /\ driverLock \in [Drivers -> Workers \union {None}]
  /\ req        \in [Workers -> Pending \union {Idle}]

\* The statement can be read top to bottom: each running total is the one above it
\* plus the row's amount, and the last is the balance (add_entry).
StatementAddsUp ==
  \A d \in Drivers :
    /\ \A n \in 1 .. Len(rows[d]) :
         rows[d][n].after = (IF n = 1 THEN 0 ELSE rows[d][n - 1].after) + rows[d][n].amount
    /\ total[d] = L!Closing(rows[d])

\* No payout takes a driver's balance below nothing, whatever else is being written
\* at the same time (add_entry).
PayoutsCovered ==
  \A d \in Drivers : \A n \in 1 .. Len(rows[d]) :
    rows[d][n].kind = "payout" => rows[d][n].after >= 0

\* One trip, one earning and one cash debit, over all the drivers who may have been
\* on it (credit_trip_earning, debit_cod_cash).
SettledOnce ==
  \A d, e \in Drivers : \A m \in 1 .. Len(rows[d]), n \in 1 .. Len(rows[e]) :
    /\ rows[d][m].trip # None
    /\ rows[d][m].trip = rows[e][n].trip
    /\ rows[d][m].kind = rows[e][n].kind
    => d = e /\ m = n

\* The wallet keeps the promise of its ledger.
KeepsLedger == L!Spec

\* Every request to the wallet ends, whoever else wants the same rows: no two
\* transactions wait for each other's locks and none is left open.
Answered == \A w \in Workers : req[w].op # "idle" ~> req[w].op = "idle"

\* Only an adjustment's sign is its caller's choice (the comments on _MANUAL_SIGN
\* and record_manual).
OnlyAdjustmentsChooseSign ==
  \A d, e \in Drivers : \A m \in 1 .. Len(rows[d]), n \in 1 .. Len(rows[e]) :
    rows[d][m].kind = rows[e][n].kind /\ rows[d][m].kind # "adjustment"
    => (rows[d][m].amount > 0 <=> rows[e][n].amount > 0)
=============================================================================
