------------------------------ MODULE Company ------------------------------
(***************************************************************************)
(* A company's side of the program beside its trips: the parts of a        *)
(* driver's account (Account) and those of the office, which are the       *)
(* console's pages and numbers (Lists, Reports, VoiceNote), its logins and *)
(* API clients (Team, ApiClients), the orders that come in over the API    *)
(* and from a command (Orders), what the rest of the world hears of a trip *)
(* (Events) and the commands an operator types (Seeding).  They are served *)
(* by different code and share no row they write, so a behaviour follows   *)
(* one part.                                                               *)
(***************************************************************************)
EXTENDS Account

CONSTANTS
  Offsets, Now, MaxAdded,                                            \* Reports
  MaxSeconds, TooBig, Horizon, MaxStarts, Dispatchers, None,         \* VoiceNote
  Companies, Logins, Desks, MaxChanges, All, Out,                    \* Team
  Clients,                                                           \* ApiClients
  MaxRetries,                                                        \* Events
  MaxTrips, Earlier, Elsewhere, People, Size, LiveTrips, MaxPolls,   \* Lists
  MaxMoves,
  Operators, FleetTypes, SeedCount, MaxTyped, MaxEdits,              \* Seeding
  Couriers, Usual, Places, Depot, OrderCount, MaxTurns               \* Orders

\* Limits of the code are positive; bounds of the runs are numbers.
ASSUME LengthsAssumption == /\ {MaxSeconds, TooBig, Size, LiveTrips} \subseteq Nat \ {0}
                            /\ {Horizon, MaxStarts, MaxRetries, MaxTrips, MaxPolls, MaxMoves} \subseteq Nat
                            /\ {FleetTypes, SeedCount, MaxTyped, MaxEdits, MaxAdded, MaxChanges, OrderCount, MaxTurns} \subseteq Nat
\* Rows are numbered, people too; time is counted.
ASSUME RowsAssumption    == /\ Earlier \union Elsewhere \subseteq 1 .. MaxTrips
                            /\ People \subseteq Nat \ {0} /\ IsFiniteSet(People) /\ Offsets \union Now \subseteq Nat
\* The driver that book_test_trip is used with is one of them.
ASSUME UsualAssumption   == Usual \in Couriers
\* All companies are no company, and nobody is no login.
ASSUME OutAssumption     == /\ All \notin Companies \union {Out} /\ Out \notin Companies
                            /\ Out \notin [role : {"owner", "staff"}, active : BOOLEAN, superuser : BOOLEAN]

VARIABLES
  report, offset, now, span, rows, added, got,                                     \* Reports
  tick, asking, opened, mic, live, timers, started, chunks, sheet, note, dispatcher, once,   \* VoiceNote
  employer, login, web, form, changes, page, inTurn,                               \* Team
  owner, client, status, tokens, served,                                           \* ApiClients
  enabled, broker, producer, trip, history, request, retries, topic, pushed, invoices, sound,   \* Events
  trips, people, about, walk, polls, map, moves,                                   \* Lists
  companies, owned, cards, drivers, plates, signedUp, job, typed, edited, crashed, clashed, moved,   \* Seeding
  duty, taken, order, command, turns                                               \* Orders

reports == <<report, offset, now, span, rows, added, got>>
voice   == <<tick, asking, opened, mic, live, timers, started, chunks, sheet, note, dispatcher, once>>
team    == <<employer, login, web, form, changes, page, inTurn>>
api     == <<owner, client, status, tokens, served>>
events  == <<enabled, broker, producer, trip, history, request, retries, topic, pushed, invoices, sound>>
lists   == <<trips, people, about, walk, polls, map, moves>>
seed    == <<companies, owned, cards, drivers, plates, signedUp, job, typed, edited, crashed, clashed, moved>>
booked  == <<duty, taken, order, command, turns>>
office  == <<reports, voice, team, api, events, lists, seed, booked>>
vars    == <<part, driver, office>>

Report == INSTANCE Reports
Voice  == INSTANCE VoiceNote WITH now <- tick, desk <- dispatcher, Desks <- Dispatchers
Team   == INSTANCE Team WITH session <- web, orderly <- inTurn
Api    == INSTANCE ApiClients
Events == INSTANCE Events WITH row <- trip, call <- request, Processes <- Servers
Lists  == INSTANCE Lists WITH changes <- moves, MaxChanges <- MaxMoves
Seed   == INSTANCE Seeding WITH Types <- FleetTypes, Count <- SeedCount
Orders == INSTANCE Orders WITH Drivers <- Couriers, Start <- Depot, Count <- OrderCount

ASSUME NothingAssumption == Nothing \notin Events!Statuses \union Events!Requests

Parts == {"signIn", "sessions", "papers", "garage", "report", "voice", "team", "api", "events", "lists", "seed",
          "orders"}

\* A part that is not followed begins in one way only.
Unless(p, begin) == IF part = p THEN TRUE ELSE begin
Any(set)         == CHOOSE x \in set : TRUE

Init ==
  /\ part \in Parts
  /\ DriverInit
  /\ Unless("report", report = "wallet" /\ offset = 0 /\ now = Any(Now) /\ rows = {Report!Row("bonus", 0)})
  /\ Report!Init
  /\ Unless("voice", once = TRUE)
  /\ Voice!Init
  /\ Unless("team", inTurn = TRUE /\ employer = [u \in Logins |-> Any(Companies)])
  /\ Team!Init
  \* Logins are alike, and so are companies.
  /\ employer[Any(Logins)] = Any(Companies) /\ Team!Exists(Any(Logins)) /\ Team!IsPlatform(Any(Logins))
  /\ part # "team" => \A u \in Logins : Team!Exists(u) => u = Any(Logins)
  /\ Unless("api", owner = [k \in Clients |-> Any(Companies)])
  /\ Api!Init
  /\ Unless("events", enabled = TRUE /\ broker = TRUE /\ sound = TRUE)
  /\ Events!Init
  /\ Unless("lists", about = "orders" /\ trips = <<>>)
  /\ Lists!Init
  /\ Unless("seed", companies = 1)
  /\ Seed!Init
  /\ Unless("orders", duty = [d \in Couriers |-> [online |-> FALSE, place |-> Nobody, eligible |-> TRUE, busy |-> FALSE]])
  /\ Orders!Init
  /\ Unless("orders", command.named = Nobody)

ReportStep == part = "report" /\ Report!Next /\ UNCHANGED <<part, driver, voice, team, api, events, lists, seed, booked>>
VoiceStep  == part = "voice" /\ Voice!Next /\ UNCHANGED <<part, driver, reports, team, api, events, lists, seed, booked>>
TeamStep   == part = "team" /\ Team!Next /\ UNCHANGED <<part, driver, reports, voice, api, events, lists, seed, booked>>
ApiStep    == part = "api" /\ Api!Next /\ UNCHANGED <<part, driver, reports, voice, team, events, lists, seed, booked>>
EventStep  == part = "events" /\ Events!Next /\ UNCHANGED <<part, driver, reports, voice, team, api, lists, seed, booked>>
ListStep   == part = "lists" /\ Lists!Next /\ UNCHANGED <<part, driver, reports, voice, team, api, events, seed, booked>>
SeedStep   == part = "seed" /\ Seed!Next /\ UNCHANGED <<part, driver, reports, voice, team, api, events, lists, booked>>
OrderStep  == part = "orders" /\ Orders!Next /\ UNCHANGED <<part, driver, reports, voice, team, api, events, lists, seed>>

Next ==
  \/ DriverNext /\ UNCHANGED office
  \/ ReportStep \/ VoiceStep \/ TeamStep \/ ApiStep \/ EventStep \/ ListStep \/ SeedStep \/ OrderStep

Spec == Init /\ [][Next]_vars

----------------------------------------------------------------------------
\* The numbers of a report fit together and with the lists behind them; a voice note is as
\* long as its sound; a company keeps a login and sees its own rows; the world hears of a
\* trip what happened to it, in that order; a command typed again completes what one that
\* died left; and an order asks for what it has.  (WalletService.summary, driver_stats,
\* dashboard, recorder.js and order_voice, team_save, Subject.notify, the console's lists,
\* seed_drivers, TripCreateSerializer.validate and book_test_trip.)
OfficeKept ==
  /\ part = "report" => Report!NumbersAgree
  /\ part = "lists" => Lists!ListsAgree
  /\ part = "voice" => Voice!VoiceAgrees
  /\ part = "team" => Team!TeamHolds
  /\ part = "events" => Events!EventsFollow
  /\ part = "seed" => Seed!SeedKept
  /\ part = "orders" => Orders!OrdersHold
=============================================================================
