------------------------------ MODULE TripList ------------------------------
(***************************************************************************)
(* The Bookings tab: trips.html asks for the customer's trips a page at a  *)
(* time (api_trips), more of them as the end of the list comes into view,  *)
(* and from the first page again when another tab is chosen.  Pages are    *)
(* numbers, not places in the list: a trip that is booked or ends between  *)
(* two pages moves the rows of the next.  A later page that fails replaces *)
(* the list by an error and leaves `next` where it was, so that the next   *)
(* scroll adds that page below the error.                                  *)
(***************************************************************************)
EXTENDS Integers, Sequences, FiniteSets, SequencesExt

CONSTANTS
  PageSize,
  MaxTrips,    \* bound: trips of the customer
  MaxAsked,    \* bound: pages asked for
  MaxEnds      \* bound: trips that end while the page is open

VARIABLES
  trips,       \* the customer's trips on the server, newest first: id and status
  ends,        \* trips that ended since
  tab,         \* the tab that is chosen
  next,        \* the number of the next page, 0 when there is none
  loading, seq,
  asked,       \* pages asked for, with the answer once the server has it
  list,        \* the cards on the page: trips as they were when they came
  error,       \* the error card is above them
  steady       \* nothing is booked, ends or fails while the page is open

page == <<tab, next, loading, seq, list, error>>
vars == <<trips, ends, page, asked, steady>>

Tabs == {"all", "active", "completed"}

\* api_trips: the rows of a tab.
TabRows(t) == FoldLeft(LAMBDA rows, trip : IF t \in {"all", trip.status} THEN Append(rows, trip) ELSE rows,
                       <<>>, trips)

\* Paginator.get_page: a number past the end is the last page, an empty list has one.
Pages(rows)   == IF rows = <<>> THEN 1 ELSE (Len(rows) + PageSize - 1) \div PageSize
Number(rows, n) == IF n > Pages(rows) THEN Pages(rows) ELSE n
GetPage(rows, n) ==
  LET m == Number(rows, n)
  IN [cards |-> SubSeq(rows, (m - 1) * PageSize + 1, IF m < Pages(rows) THEN m * PageSize ELSE Len(rows)),
      next  |-> IF m < Pages(rows) THEN m + 1 ELSE 0]

Init ==
  /\ \E n \in 0 .. MaxTrips, status \in [1 .. MaxTrips -> {"active", "completed"}] :
       trips = [i \in 1 .. n |-> [id |-> n - i + 1, status |-> status[i]]]
  /\ ends = 0
  /\ tab \in Tabs
  /\ next = 1 /\ loading = TRUE /\ seq = 1
  /\ asked = {[seq |-> 1, tab |-> tab, page |-> 1, reset |-> TRUE, answer |-> <<>>]}
  /\ list = <<>> /\ error = FALSE
  /\ steady \in BOOLEAN

----------------------------------------------------------------------------
(* The page.                                                               *)

Load(t, n, reset) ==
  /\ seq < MaxAsked
  /\ seq' = seq + 1
  /\ loading' = TRUE
  /\ asked' = asked \union {[seq |-> seq + 1, tab |-> t, page |-> n, reset |-> reset, answer |-> <<>>]}

\* load(true): the list is emptied.
LoadFirst(t) ==
  /\ Load(t, 1, TRUE)
  /\ next' = 1 /\ list' = <<>> /\ error' = FALSE

\* setTab.
SetTab(t) ==
  /\ t # tab
  /\ tab' = t
  /\ LoadFirst(t)
  /\ UNCHANGED <<trips, ends, steady>>

\* The observer of the end of the list.
Scroll ==
  /\ next # 0 /\ ~loading
  /\ Load(tab, next, FALSE)
  /\ UNCHANGED <<trips, ends, tab, next, list, error, steady>>

\* The button of the error card.
Retry ==
  /\ error
  /\ LoadFirst(tab)
  /\ UNCHANGED <<trips, ends, tab, steady>>

\* Slip: whatever comes is put on the page.
CurrentAny(a) == TRUE

\* Only what was asked for last counts.
Current(a) == a.seq = seq

Arrives(a) ==
  /\ a \in asked /\ a.answer # <<>>
  /\ asked' = asked \ {a}
  /\ IF Current(a)
     THEN /\ list' = (IF a.reset THEN <<>> ELSE list) \o a.answer[1].cards
          /\ error' = (error /\ ~a.reset)
          /\ next' = a.answer[1].next
          /\ loading' = FALSE
     ELSE UNCHANGED <<list, error, next, loading>>
  /\ UNCHANGED <<trips, ends, tab, seq, steady>>

\* The request is lost: an error card in the place of the list.
Fails(a) ==
  /\ ~steady /\ a \in asked
  /\ asked' = asked \ {a}
  /\ IF Current(a) THEN list' = <<>> /\ error' = TRUE /\ loading' = FALSE
     ELSE UNCHANGED <<list, error, loading>>
  /\ UNCHANGED <<trips, ends, tab, next, seq, steady>>

----------------------------------------------------------------------------
(* The server.                                                             *)

Serve(a) ==
  /\ a \in asked /\ a.answer = <<>>
  /\ asked' = (asked \ {a}) \union {[a EXCEPT !.answer = <<GetPage(TabRows(a.tab), a.page)>>]}
  /\ UNCHANGED <<trips, ends, page, steady>>

Book ==
  /\ ~steady /\ Len(trips) < MaxTrips
  /\ trips' = <<[id |-> Len(trips) + 1, status |-> "active"]>> \o trips
  /\ UNCHANGED <<ends, page, asked, steady>>

TripEnds(i) ==
  /\ ~steady /\ ends < MaxEnds
  /\ i \in DOMAIN trips /\ trips[i].status = "active"
  /\ trips' = [trips EXCEPT ![i].status = "completed"]
  /\ ends' = ends + 1
  /\ UNCHANGED <<page, asked, steady>>

Next ==
  \/ \E t \in Tabs : SetTab(t)
  \/ Scroll \/ Retry \/ Book
  \/ \E a \in asked : Arrives(a) \/ Fails(a) \/ Serve(a)
  \/ \E i \in 1 .. MaxTrips : TripEnds(i)

Spec == Init /\ [][Next]_vars

----------------------------------------------------------------------------
\* load and setTab: however answers overtake each other, the cards are of the tab that is
\* chosen; while nothing changes on the server they are its first trips, each once, and
\* all of them when no page is left.
CardsOfTab == \A n \in DOMAIN list : tab \in {"all", list[n].status}

FirstOfTab == steady => /\ IsPrefix(list, TabRows(tab))
                        /\ (next = 0 /\ ~loading) => list = TabRows(tab)

ListAgrees == CardsOfTab /\ FirstOfTab
=============================================================================
