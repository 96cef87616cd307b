------------------------------ MODULE Reports ------------------------------
(***************************************************************************)
(* The numbers the program shows of what it keeps: a driver's wallet       *)
(* screen (WalletService.summary, days in the driver's time zone), their   *)
(* statistics (TripService.driver_stats) and the console's dashboard (days *)
(* in the server's).  A report is several queries, and rows are added or   *)
(* changed between them.  Time is counted in half days from a Monday's     *)
(* midnight UTC; a row of the ledger is a trip's earning, a bonus, a       *)
(* payout or cash the driver kept, a row of the trips a trip that is under *)
(* way or has ended. The earning is booked with the completion (Wallet),   *)
(* so that a row of the one kind stands for both.                          *)
(***************************************************************************)
EXTENDS Integers, Sequences, FiniteSets, FiniteSetsExt, Functions

CONSTANTS
  Offsets,    \* how far from UTC the drivers' clocks may be, ahead or behind
  Now,        \* the moments at which reports are asked for
  MaxAdded    \* bound: rows added or changed while a report is made

VARIABLES
  report,     \* the report: "wallet", "stats" or "dashboard"
  offset,     \* utc_offset_minutes, or the server's
  now,        \* when the report was asked for
  span,       \* the dashboard's ?period= or ?from= and ?to=
  rows,       \* the table: what each row is, and when it was made
  added,      \* rows added or changed since then
  got         \* the answers so far

vars == <<report, offset, now, span, rows, added, got>>

LedgerKinds == {"trip_earning", "bonus", "payout", "cod_cash"}
TripKinds   == {"assigned", "completed", "cancelled"}
Kinds       == CASE report = "wallet"    -> LedgerKinds
                 [] report = "stats"     -> {"trip_earning", "bonus", "assigned", "cancelled"}
                 [] report = "dashboard" -> TripKinds

\* EARNING_KINDS; what a row moves the balance by.
Earned(r) == r.kind \in {"trip_earning", "bonus"}
Amount(r) == IF Earned(r) THEN r.rupees ELSE -r.rupees

Total(set)       == SumFunction([r \in set |-> Amount(r)])
Count(set, kind) == Cardinality({r \in set : r.kind = kind})

----------------------------------------------------------------------------
(* Days.                                                                   *)

\* TruncDate, and midnight of a day, in the reader's time zone.
DayOf(m)    == (m + offset) \div 2
DayStart(d) == 2 * d - offset
Today       == DayOf(now)
Monday(d)   == d - (d % 7)
MonthStart  == 9                    \* a month ends in the second week
FirstOfMonth(d) == IF d >= MonthStart THEN MonthStart ELSE MonthStart - 31

Since(m) == {r \in rows : r.at >= m}

\* Slip: the last day is left out of ?to=.
WindowToStart(start, end) == {r \in rows : DayStart(start) <= r.at /\ r.at < DayStart(end)}
Window(start, end) == {r \in rows : DayStart(start) <= r.at /\ r.at < DayStart(end + 1)}

\* period_range: the last days of a named period, or the dates that were given, the
\* other way round when they are.
Days(s) == IF s.from = "no" /\ s.to = "no" THEN <<Today - (s.days - 1), Today>>
           ELSE LET a == IF s.from # "no" THEN Today - 2 ELSE Today + 1
                    b == IF s.to # "no" THEN Today + 1 ELSE Today
                IN <<Min({a, b}), Max({a, b})>>
Start == Days(span)[1]
End   == Days(span)[2]
Length == End - Start + 1
Spans == [days : {1, 7}, from : {"no"}, to : {"no"}] \union [days : {7}, from : {"no", "given"}, to : {"given"}]

----------------------------------------------------------------------------
(* The queries of a report, in order, and what they find.                  *)

Queries ==
  CASE report = "wallet"    -> <<"days", "lifetime", "payouts", "balance", "today", "week", "month">>
    [] report = "stats"     -> <<"today", "cancelledToday", "earnedToday", "completed", "cancelled", "earned">>
    [] report = "dashboard" -> <<"orders", "before", "series", "funnel">>

Earnings(set) == LET earned == {r \in set : Earned(r)}
                 IN [rupees |-> Total(earned), trips |-> Count(earned, "trip_earning")]

Day(d) == {r \in rows : DayOf(r.at) = d}

\* WalletService.summary.
WalletAnswer(q) ==
  CASE q = "days"     -> [d \in Today - 6 .. Today |-> Earnings(Day(d))]
    [] q = "lifetime" -> Earnings(rows)
    [] q = "payouts"  -> -Total({r \in rows : r.kind = "payout"})
    [] q = "balance"  -> Total(rows)
    [] q = "today"    -> Earnings(Since(DayStart(Today)))
    [] q = "week"     -> Earnings(Since(DayStart(Monday(Today))))
    [] q = "month"    -> Earnings(Since(DayStart(FirstOfMonth(Today))))

\* driver_stats, since the driver's midnight and of all time.
Stats(q, set) == CASE q = "trips"     -> Count(set, "trip_earning")
                   [] q = "cancelled" -> Count(set, "cancelled")
                   [] q = "earned"    -> Earnings(set).rupees
StatsAnswer(q) ==
  CASE q = "today"           -> Stats("trips", Since(DayStart(Today)))
    [] q = "cancelledToday" -> Stats("cancelled", Since(DayStart(Today)))
    [] q = "earnedToday"    -> Stats("earned", Since(DayStart(Today)))
    [] q = "completed"       -> Stats("trips", rows)
    [] q = "cancelled"       -> Stats("cancelled", rows)
    [] q = "earned"          -> Stats("earned", rows)

\* _totals, of the window and of the one before it.
Totals(set) == [orders |-> Cardinality(set), completed |-> Count(set, "completed"), cancelled |-> Count(set, "cancelled")]

\* dashboard: the numbers, the series by day and the funnel.
DashboardAnswer(q) ==
  CASE q = "orders" -> Totals(Window(Start, End))
    [] q = "before" -> Totals(Window(Start - Length, Start - 1))
    [] q = "series" -> [d \in Start .. End |->
         LET day == Totals({r \in Window(Start, End) : DayOf(r.at) = d})
         IN [done |-> day.completed, cancelled |-> day.cancelled,
             other |-> day.orders - day.completed - day.cancelled]]
    [] q = "funnel" -> Cardinality(Window(Start, End))

Answer(q) == CASE report = "wallet"    -> WalletAnswer(q)
               [] report = "stats"     -> StatsAnswer(q)
               [] report = "dashboard" -> DashboardAnswer(q)

----------------------------------------------------------------------------
Row(kind, at) == [kind |-> kind, at |-> at, rupees |-> 5, n |-> 0]

Init ==
  /\ report \in {"wallet", "stats", "dashboard"}
  /\ offset \in IF report = "dashboard" THEN {0} ELSE Offsets \union {-o : o \in Offsets}
  /\ now \in Now
  /\ span \in IF report = "dashboard" THEN Spans ELSE {[days |-> 1, from |-> "no", to |-> "no"]}
  /\ \E kind \in Kinds, at \in 0 .. now : rows = {Row(kind, at)}
  /\ added = 0
  /\ got = <<>>

Finished == Len(got) = Len(Queries)

Query ==
  /\ ~Finished
  /\ got' = Append(got, Answer(Queries[Len(got) + 1]))
  /\ UNCHANGED <<report, offset, now, span, rows, added>>

\* A row of the ledger, or a new trip, at the time it is by then.
AddRow(kind, at) ==
  /\ ~Finished /\ added < MaxAdded /\ at \in {now, now + 1}
  /\ kind \in Kinds \ {"completed", "cancelled"}
  /\ rows' = rows \union {[kind |-> kind, at |-> at, rupees |-> 3, n |-> added + 1]}
  /\ added' = added + 1
  /\ UNCHANGED <<report, offset, now, span, got>>

\* A trip ends; what it earned is dated then.
EndTrip(r, kind) ==
  /\ kind \in Kinds
  /\ ~Finished /\ added < MaxAdded /\ report # "wallet"
  /\ r \in rows /\ r.kind = "assigned"
  /\ rows' = (rows \ {r}) \union {[kind |-> kind, at |-> IF report = "stats" THEN now ELSE r.at,
                                  rupees |-> r.rupees, n |-> r.n]}
  /\ added' = added + 1
  /\ UNCHANGED <<report, offset, now, span, got>>

Next ==
  \/ Query
  \/ \E kind \in LedgerKinds \union {"assigned"}, at \in {now, now + 1} : AddRow(kind, at)
  \/ \E r \in rows, kind \in {"completed", "trip_earning", "cancelled"} : EndTrip(r, kind)

----------------------------------------------------------------------------
(* Properties.                                                             *)

Answers(q) == got[CHOOSE i \in DOMAIN Queries : Queries[i] = q]

\* WalletService.summary, "today starts at their local midnight": in any time zone the
\* last of the seven days is today, the seven days hold the week, and what was earned is
\* the balance with the payouts and the cash; rows added meanwhile only make the later
\* numbers larger.
WalletAdds ==
  LET days == Answers("days")
      earned == [d \in DOMAIN days |-> days[d].rupees]
  IN /\ earned[Today] <= Answers("today").rupees
     /\ Answers("today").rupees <= Answers("week").rupees
     /\ SumFunction([d \in Monday(Today) .. Today |-> earned[d]]) <= Answers("week").rupees
     /\ added = 0 => /\ earned[Today] = Answers("today").rupees
                     /\ SumFunction([d \in Monday(Today) .. Today |-> earned[d]]) = Answers("week").rupees
                     /\ Answers("month").rupees <= Answers("lifetime").rupees
                     /\ Answers("balance") = Answers("lifetime").rupees - Answers("payouts")
                          + Total({r \in rows : r.kind = "cod_cash"})

\* driver_stats: today is part of all time and, rows being only
\* added, no earning is missing of a trip that was counted.
StatsAdd ==
  /\ Answers("today") <= Answers("completed") /\ Answers("cancelledToday") <= Answers("cancelled")
  /\ Answers("earnedToday") <= Answers("earned")
  /\ 3 * Answers("today") <= Answers("earnedToday") /\ 3 * Answers("completed") <= Answers("earned")

\* dashboard: the bars of a day are its orders, none below zero, and, while nothing
\* changes, all bars are the number above them; the period before ends where this begins.
DashboardAdds ==
  LET series == Answers("series")
      orders == [d \in DOMAIN series |-> series[d].done + series[d].cancelled + series[d].other]
  IN /\ \A d \in DOMAIN series : series[d].other >= 0
     /\ Answers("orders").orders <= SumFunction(orders)
     /\ added = 0 => /\ SumFunction(orders) = Answers("orders").orders
                     /\ SumFunction([d \in DOMAIN series |-> series[d].done]) = Answers("orders").completed
                     /\ Answers("before").orders + SumFunction(orders)
                          = Cardinality({r \in rows : DayOf(r.at) \in Start - Length .. End})

NumbersAgree ==
  Finished => /\ report = "wallet" => WalletAdds
              /\ report = "stats" => StatsAdd
              /\ report = "dashboard" => DashboardAdds
=============================================================================
