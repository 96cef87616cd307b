------------------------------- MODULE Lists -------------------------------
(***************************************************************************)
(* The console's numbers and the lists behind them: the counts of the side *)
(* bar, the cards of the dashboard and what it asks to attend to link to   *)
(* lists (orders, drivers, the KYC queue) whose filters are written a      *)
(* second time, in the view of the list; payouts sums the rows it lists.   *)
(* A list is walked page by page and a page is several queries: rows       *)
(* change between the number and the list, between two pages and between   *)
(* the queries of one page.  The live map asks for the trips and then for  *)
(* the drivers.                                                            *)
(***************************************************************************)
EXTENDS Integers, FiniteSets, FiniteSetsExt, SequencesExt

CONSTANTS
  MaxTrips,    \* bound: trips, numbered in the order in which they were booked
  Earlier,     \* the trips booked before the dashboard's period
  Elsewhere,   \* the trips with the searched text where only the list of orders looks
  People,      \* the drivers, numbers in the order of their names
  Size,        \* rows of a page
  LiveTrips,   \* trips live_data asks for
  MaxPolls,    \* bound: answers on their way to the live map
  MaxChanges   \* bound: rows that change while somebody looks

VARIABLES
  trips,       \* the trips that have been booked
  people,      \* the drivers
  about,       \* what is looked at: "orders", "papers", "payouts" or "live"
  walk,        \* a number, the list it links to and the pages of it so far
  polls,       \* what live_data found, on its way
  map,         \* and what the map shows of it
  changes      \* rows that have changed since somebody looked

vars == <<trips, people, about, walk, polls, map, changes>>

NoDriver == 0

----------------------------------------------------------------------------
(* The rows.                                                               *)

Active  == {"assigned", "arrived_at_pickup", "in_progress"}
Waiting == {"requested", "no_driver_available"}
Ended   == {"completed", "cancelled"}

TripRows ==
  [status : Waiting, driver : {NoDriver}, missing : {0}, late : {FALSE}]
    \union [status : {"assigned", "arrived_at_pickup"}, driver : People, missing : {0}, late : {FALSE}]
    \union [status : {"in_progress"}, driver : People, missing : 0 .. 2, late : BOOLEAN]
    \union [status : {"completed"}, driver : People, missing : 0 .. 2, late : {FALSE}]
    \union [status : {"cancelled"}, driver : People \union {NoDriver}, missing : {0}, late : {FALSE}]

Booked == DOMAIN trips
Having(statuses) == {t \in Booked : trips[t].status \in statuses}
Within(set)      == set \ Earlier
Busy             == {trips[t].driver : t \in Having(Active)}

\* PENDING_KYC: a document with a scan that nobody has decided about.
PendingKyc == {d \in People : people[d].licence = "pending" \/ people[d].report = "pending"}
Expiring   == {d \in People : people[d].licence = "soon"}

\* search, for a text that every trip has in some field: it looks at fewer fields than
\* the list of orders does.
Found == Booked \ Elsewhere

\* Sums, of undelivered items and of balances.
Missing(set) == SumFunctionOnSet([t \in Booked |-> trips[t].missing], set)
Balance(set) == SumFunctionOnSet([d \in People |-> people[d].balance], set)

----------------------------------------------------------------------------
(* The lists.                                                              *)

\* TABS: the statuses of a tab of the orders.
Tabs == {"all", "unassigned", "active", "assigned", "arrived_at_pickup", "in_progress", "completed", "cancelled"}
Statuses(tab) == CASE tab = "all"        -> Active \union Waiting \union Ended
                   [] tab = "unassigned" -> Waiting
                   [] tab = "active"     -> Active
                   [] OTHER              -> {tab}

\* Slip: whatever became of the items.
FilteredWholly(f) == IF f.span THEN Within(Booked) ELSE Booked

\* _filtered: booked in the period, with an item that was not delivered.
Filtered(f) == {t \in IF f.span THEN Within(Booked) ELSE Booked : f.issues => trips[t].missing > 0}

\* orders, _tabs of the drivers, kyc_queue and payouts: the rows a link opens.
Listed(f) ==
  CASE f.list = "orders"   -> Filtered(f) \intersect Having(Statuses(f.tab))
    [] f.list = "kyc"      -> PendingKyc
    [] f.list = "expiring" -> Expiring
    [] f.list = "owed"     -> {d \in People : people[d].balance > 0}
    [] f.list = "balances" -> People

\* The counts on the tabs, one query.
Counts(f) == [tab \in Tabs |-> Cardinality(Filtered(f) \intersect Having(Statuses(tab)))]

\* ORDER BY: newest first, by name, or by balance, which two drivers may share: then
\* every query may put either first.
Above(f, a, b) == CASE f.list = "orders"              -> a > b
                    [] f.list \in {"kyc", "expiring"} -> a < b
                    [] OTHER                          -> people[a].balance > people[b].balance
Sorted(f) == {s \in SetToSeqs(Listed(f)) : \A i, j \in DOMAIN s : i < j => ~Above(f, s[j], s[i])}

\* paginate: a page past the end is the last one.
Pages(n)     == IF n = 0 THEN 1 ELSE (n + Size - 1) \div Size
PageOf(s, p) == SubSeq(s, (p - 1) * Size + 1, Min({p * Size, Len(s)}))

----------------------------------------------------------------------------
(* The numbers that link to them: of console, of dashboard's cards and of  *)
(* what to attend to, and the count of payouts.                            *)

Orders(tab, span, issues) == [list |-> "orders", tab |-> tab, span |-> span, issues |-> issues]
Drivers(list)             == [list |-> list]

Link(name) ==
  CASE name = "orders"        -> Orders("all", TRUE, FALSE)
    [] name = "delivered"     -> Orders("completed", TRUE, FALSE)
    [] name = "cancelled"     -> Orders("cancelled", TRUE, FALSE)
    [] name = "active"        -> Orders("active", FALSE, FALSE)
    [] name = "unassigned"    -> Orders("unassigned", FALSE, FALSE)
    [] name = "over3Hours"    -> Orders("in_progress", FALSE, FALSE)
    [] name = "notDelivered"  -> Orders("all", TRUE, TRUE)
    [] name = "found"         -> Orders("all", FALSE, FALSE)
    [] OTHER                  -> Drivers(name)

Number(name) ==
  CASE name = "orders"        -> Cardinality(Within(Booked))
    [] name = "delivered"     -> Cardinality(Within(Having({"completed"})))
    [] name = "cancelled"     -> Cardinality(Within(Having({"cancelled"})))
    [] name = "active"        -> Cardinality(Having(Active))
    [] name = "unassigned"    -> Cardinality(Having(Waiting))
    [] name = "over3Hours"    -> Cardinality({t \in Booked : trips[t].late})
    [] name = "notDelivered"  -> Missing(Within(Booked))
    [] name = "found"         -> Cardinality(Found)
    [] name = "kyc"           -> Cardinality(PendingKyc)
    [] name = "expiring"      -> Cardinality(Expiring)
    [] OTHER                  -> Cardinality(Listed(Drivers(name)))

NumberNames == CASE about = "orders"  -> {"orders", "delivered", "cancelled", "active", "unassigned", "over3Hours",
                                          "notDelivered", "found"}
                 [] about = "papers"  -> {"kyc", "expiring"}
                 [] about = "payouts" -> {"owed", "balances"}
                 [] about = "live"    -> {}

----------------------------------------------------------------------------
Quiet == [online |-> TRUE, licence |-> "later", report |-> "decided", balance |-> 0]
PersonRows ==
  CASE about = "papers"  -> [online : {TRUE}, licence : {"none", "pending", "rejected", "soon", "later"},
                             report : {"none", "pending", "decided"}, balance : {0}]
    [] about = "payouts" -> [online : {TRUE}, licence : {"later"}, report : {"decided"}, balance : -1 .. 1]
    [] about = "live"    -> [online : BOOLEAN, licence : {"later"}, report : {"decided"}, balance : {0}]
    [] about = "orders"  -> {Quiet}

NotDrawn == [ready |-> FALSE, trips |-> {}, busy |-> {}, online |-> {}]

\* A driver has one trip at a time.
OneEach(rows) == \A t, u \in DOMAIN rows :
                   rows[t].status \in Active /\ rows[u].status \in Active /\ rows[t].driver = rows[u].driver => t = u

\* The live map shows neither items nor hours.
Plain(rows) == \A t \in DOMAIN rows : rows[t].missing = 0 /\ ~rows[t].late

Init ==
  /\ about \in {"orders", "papers", "payouts", "live"}
  /\ \E n \in 0 .. MaxTrips : /\ about \in {"papers", "payouts"} => n = 0
                             /\ trips \in {rows \in [1 .. n -> TripRows] : OneEach(rows) /\ (about = "live" => Plain(rows))}
  /\ people \in [People -> PersonRows]
  /\ walk = [step |-> "none"]
  /\ polls = <<>>
  /\ map = NotDrawn
  /\ changes = 0

\* The page with the number.
Show(name) ==
  /\ walk.step = "none"
  /\ walk' = [step |-> "shown", name |-> name, number |-> Number(name), page |-> 0, count |-> 0,
              sum |-> 0, tabs |-> [tab \in Tabs |-> 0], seen |-> <<>>]
  /\ UNCHANGED <<trips, people, about, polls, map, changes>>

Count(page) ==
  LET f     == Link(walk.name)
      count == Cardinality(Listed(f))
  IN walk' = [walk EXCEPT !.step = "counted", !.count = count, !.page = Min({page, Pages(count)}),
                          !.sum = IF about = "payouts" THEN Balance(Listed(f)) ELSE 0,
                          !.tabs = IF about = "orders" THEN Counts(f) ELSE @]

\* A page of the list: the counts and the sum, then the rows.
CountPage ==
  /\ \/ walk.step = "shown" /\ Count(1)
     \/ walk.step = "read" /\ walk.page < Pages(walk.count) /\ Count(walk.page + 1)
  /\ UNCHANGED <<trips, people, about, polls, map, changes>>

ReadPage ==
  /\ walk.step = "counted"
  /\ \E s \in Sorted(Link(walk.name)) :
       walk' = [walk EXCEPT !.step = "read", !.seen = @ \o PageOf(s, walk.page)]
  /\ UNCHANGED <<trips, people, about, polls, map, changes>>

\* live_data: the newest of the open trips, then the drivers on duty.
Newest(set) == {t \in set : Cardinality({u \in set : u > t}) < LiveTrips}

LiveAsked ==
  /\ about = "live" /\ Len(polls) < MaxPolls
  /\ LET open == Newest(Having(Active \union Waiting))
     IN polls' = Append(polls, [ready |-> FALSE, trips |-> open, busy |-> {trips[t].driver : t \in open} \ {NoDriver},
                                online |-> {}])
  /\ UNCHANGED <<trips, people, about, walk, map, changes>>

LiveAnswered(i) ==
  /\ ~polls[i].ready
  /\ polls' = [polls EXCEPT ![i] = [ready |-> TRUE, trips |-> @.trips, busy |-> @.busy,
                                     online |-> {d \in People : people[d].online}]]
  /\ UNCHANGED <<trips, people, about, walk, map, changes>>

\* load, every 15 seconds: whichever answer comes is drawn, in the place of what was.
LiveDrawn(i) ==
  /\ polls[i].ready
  /\ map' = polls[i]
  /\ polls' = RemoveAt(polls, i)
  /\ UNCHANGED <<trips, people, about, walk, changes>>

----------------------------------------------------------------------------
(* What other requests change meanwhile.                                   *)

Changing == /\ changes < MaxChanges
            /\ walk.step # "none" \/ polls # <<>>
            /\ changes' = changes + 1
            /\ UNCHANGED <<about, walk, polls, map>>

Book ==
  /\ Changing /\ about \in {"orders", "live"} /\ Len(trips) < MaxTrips
  /\ trips' = Append(trips, [status |-> "requested", driver |-> NoDriver, missing |-> 0, late |-> FALSE])
  /\ UNCHANGED people

\* The rows a trip's row may become in one step.
After(r) ==
  CASE r.status \in Waiting -> {[r EXCEPT !.status = "assigned", !.driver = d] : d \in People \ Busy}
                               \union {[r EXCEPT !.status = s] : s \in (Waiting \union {"cancelled"}) \ {r.status}}
    [] r.status = "assigned" -> {[r EXCEPT !.status = "arrived_at_pickup"], [r EXCEPT !.status = "cancelled"]}
    [] r.status = "arrived_at_pickup" -> {[r EXCEPT !.status = "in_progress"], [r EXCEPT !.status = "cancelled"]}
    [] r.status = "in_progress" -> {[r EXCEPT !.late = TRUE], [r EXCEPT !.status = "completed", !.late = FALSE],
                                    [r EXCEPT !.missing = Min({@ + 1, 2})]}
    [] OTHER -> {}

MoveTrip(t) ==
  /\ Changing
  /\ \E r \in After(trips[t]) : r # trips[t] /\ trips' = [trips EXCEPT ![t] = r]
  /\ UNCHANGED people

MovePerson(d) ==
  /\ Changing
  /\ \E r \in PersonRows : r # people[d] /\ people' = [people EXCEPT ![d] = r]
  /\ UNCHANGED trips

Next ==
  \/ \E name \in NumberNames : Show(name)
  \/ CountPage \/ ReadPage
  \/ LiveAsked \/ \E i \in DOMAIN polls : LiveAnswered(i) \/ LiveDrawn(i)
  \/ Book
  \/ \E t \in Booked : MoveTrip(t)
  \/ \E d \in People : MovePerson(d)

Spec == Init /\ [][Next]_vars

----------------------------------------------------------------------------
(* Properties.                                                             *)

Walked == walk.step = "read" /\ walk.page = Pages(walk.count)

\* The rows of a page, but one, that paginate may show again when its list got shorter.
Again == IF changes = 0 THEN 0 ELSE Size - 1

\* dashboard, console and the views of the lists: walking a list to its end shows as many
\* rows as the number that linked to it said, but for one for every row that changed
\* meanwhile, and for a last page that was shown again; an undelivered item's number counts
\* items, its list their trips, and the lists behind "over 3 hours" and behind the search
\* show more than was counted.
NumberIsList ==
  Walked => LET shown == Len(walk.seen)
            IN /\ walk.name \notin {"over3Hours", "found"} => shown <= walk.number + changes + Again
               /\ walk.name # "notDelivered" => walk.number <= shown + changes
               /\ walk.name = "notDelivered" /\ changes = 0 /\ walk.number > 0 => shown > 0

\* paginate and TABS: nothing is left out of a list or listed twice, unless rows change or
\* share what they are sorted by; payouts' sum is that of its rows; the tabs add up.
ListIsWhole ==
  /\ Walked /\ changes = 0 => \/ ToSet(walk.seen) = Listed(Link(walk.name)) /\ IsInjective(walk.seen)
                              \/ about = "payouts" /\ \E d, e \in People : d # e /\ people[d].balance = people[e].balance
  /\ Walked /\ changes = 0 /\ about = "payouts" => walk.sum = Balance(Listed(Link(walk.name)))
  /\ walk.step = "counted" =>
       walk.tabs["all"] = walk.tabs["unassigned"] + walk.tabs["active"] + walk.tabs["completed"] + walk.tabs["cancelled"]

\* live_data: a driver drawn as busy has a trip, and one drawn as free has none, unless the
\* list of trips was cut or something changed between the two queries.
MapIsTrue ==
  map.ready /\ changes = 0 =>
    /\ map.online \intersect map.busy \subseteq Busy
    /\ Cardinality(map.trips) < LiveTrips => map.online \intersect Busy \subseteq map.busy

ListsAgree == NumberIsList /\ ListIsWhole /\ MapIsTrue
=============================================================================
