------------------------------- MODULE Ledger -------------------------------
(***************************************************************************)
(* What WalletTransaction of drivers/models.py promises a driver: a statement *)
(* that only grows, that can be read top to bottom, that never pays out more *)
(* than it holds, and that settles a trip once for each reason.             *)
(***************************************************************************)
EXTENDS Integers, Sequences

CONSTANTS
  Drivers,
  Trips,
  None       \* SQL NULL: the row was recorded by hand and names no trip

VARIABLE rows  \* driver -> the statement, oldest row first

Kinds == {"trip_earning", "cod_cash", "bonus", "penalty", "payout", "adjustment"}

Row == [kind: Kinds, amount: Int \ {0}, after: Int, trip: Trips \union {None}]

\* The running total a statement ends on.
Closing(s) == IF s = <<>> THEN 0 ELSE s[Len(s)].after

Settled(trip, kind) ==
  \E d \in Drivers : \E n \in 1 .. Len(rows[d]) : rows[d][n].trip = trip /\ rows[d][n].kind = kind

Init == rows = [d \in Drivers |-> <<>>]

Record(d, r) ==
  /\ r.after = Closing(rows[d]) + r.amount
  /\ r.kind = "payout" => r.after >= 0
  /\ r.trip # None => ~Settled(r.trip, r.kind)
  /\ rows' = [rows EXCEPT ![d] = Append(@, r)]

\* Every step appends one row to one driver's statement: which row is read off
\* the statement it leaves behind.
Next == \E d \in Drivers :
  /\ rows'[d] # <<>>
  /\ rows'[d][Len(rows'[d])] \in Row
  /\ Record(d, rows'[d][Len(rows'[d])])

Spec == Init /\ [][Next]_rows
=============================================================================
