------------------------------ MODULE Seeding ------------------------------
(***************************************************************************)
(* The commands an operator types to fill a company: bootstrap_company,    *)
(* seed_vehicle_types, seed_drivers and approve_driver.  Each writes       *)
(* several rows one after the other, only a seeded driver in one           *)
(* transaction; a command may die between two of them and is typed again,  *)
(* also while a colleague types it, and people change in the meantime what *)
(* it wrote.                                                               *)
(***************************************************************************)
EXTENDS Integers, Sequences, FiniteSets

CONSTANTS
  Operators,
  Types,       \* how many vehicle types FLEET has; seed_drivers uses the first
  Count,       \* --count
  MaxTyped,    \* bound: commands typed
  MaxEdits     \* bound: cards people edit

VARIABLES
  companies,   \* the companies with the name that is typed
  owned,       \* one of them has the owner with the address that is typed
  cards,       \* the fare card of each vehicle type: "none", "seeded" or "edited"
  drivers,     \* the driver with each of the seeded phone numbers: "none", "half" or "whole"
  plates,      \* the seeded registration numbers that are taken
  signedUp,    \* the documents that are approved of a driver who signed up in the app
  job,         \* the command each operator runs, and how far it is
  typed,
  edited,      \* the vehicle types whose card people edited
  crashed, clashed, moved   \* a command died; two overlapped; a driver got another number

rows == <<companies, owned, cards, drivers, plates, signedUp>>
vars == <<rows, job, typed, edited, crashed, clashed, moved>>

Indexes == 1 .. Count
Papers  == <<"aadhar", "police", "dl">>

Idle     == [command |-> "none", step |-> 0, end |-> "none"]
Job(command) == [command |-> command, step |-> 1, end |-> "none"]

Init ==
  /\ companies \in {0, 1} /\ owned = (companies = 1)
  /\ cards = [i \in 1 .. Types |-> "none"]
  /\ drivers = [i \in Indexes |-> "none"]
  /\ plates = {}
  /\ signedUp = {}
  /\ job = [o \in Operators |-> Idle]
  /\ typed = 0 /\ edited = {}
  /\ crashed = FALSE /\ clashed = FALSE /\ moved = FALSE

Runs(o, command, step) == job[o].command = command /\ job[o].step = step /\ job[o].end = "none"
OnTo(o)     == job' = [job EXCEPT ![o].step = @ + 1]
End(o, how) == job' = [job EXCEPT ![o].end = how]
Counters    == <<typed, edited, crashed, clashed, moved>>

\* An operator types a command; two at work at once may clash.
Type(o, command) ==
  /\ typed < MaxTyped
  /\ job[o].command = "none" \/ job[o].end # "none"
  /\ job' = [job EXCEPT ![o] = Job(command)]
  /\ typed' = typed + 1
  /\ clashed' = (clashed \/ \E p \in Operators \ {o} : job[p].command # "none" /\ job[p].end = "none")
  /\ UNCHANGED <<rows, edited, crashed, moved>>

\* The process dies: a transaction it was in is rolled back.
Die(o) ==
  /\ job[o].command # "none" /\ job[o].end = "none"
  /\ End(o, "died")
  /\ crashed' = TRUE
  /\ UNCHANGED <<rows, typed, edited, clashed, moved>>

\* bootstrap_company: both looks, the company, whose name is not unique, and in a write of
\* its own the owner, whose address is.
BootstrapLook(o) ==
  /\ Runs(o, "bootstrap", 1)
  /\ IF companies = 0 /\ ~owned THEN OnTo(o) ELSE End(o, "CommandError")
  /\ UNCHANGED <<rows, Counters>>

BootstrapCompany(o) ==
  /\ Runs(o, "bootstrap", 2)
  /\ companies' = companies + 1
  /\ OnTo(o)
  /\ UNCHANGED <<owned, cards, drivers, plates, signedUp, Counters>>

BootstrapOwner(o) ==
  /\ Runs(o, "bootstrap", 3)
  /\ End(o, IF owned THEN "IntegrityError" ELSE "done")
  /\ owned' = TRUE
  /\ UNCHANGED <<companies, cards, drivers, plates, signedUp, Counters>>

\* Slip: update_or_create.
WithCardAgain(i) == [cards EXCEPT ![i] = "seeded"]

\* get_or_create: the row is left as it is when it is there.
WithCard(i) == [cards EXCEPT ![i] = IF @ = "none" THEN "seeded" ELSE @]

\* seed_vehicle_types: one type after the other.
SeedType(o) ==
  /\ job[o].command = "types" /\ job[o].end = "none"
  /\ IF companies # 1 THEN cards' = cards /\ End(o, "CommandError")
     ELSE IF job[o].step > Types THEN cards' = cards /\ End(o, "done")
     ELSE cards' = WithCard(job[o].step) /\ OnTo(o)
  /\ UNCHANGED <<companies, owned, drivers, plates, signedUp, Counters>>

\* seed_drivers: the company and the type, then for each number a look and, when nobody has
\* it, the driver, the papers, the vehicle and the duty in one transaction.
SeedStart(o) ==
  /\ Runs(o, "drivers", 1)
  /\ IF companies # 1 THEN cards' = cards /\ End(o, "CommandError")
     ELSE cards' = WithCard(1) /\ OnTo(o)
  /\ UNCHANGED <<companies, owned, drivers, plates, signedUp, Counters>>

Seeding(o) == job[o].command = "drivers" /\ job[o].end = "none" /\ job[o].step > 1
Index(o)   == job[o].step \div 2              \* two steps for every number

SeedLook(o) ==
  /\ Seeding(o) /\ job[o].step % 2 = 0
  /\ IF Index(o) > Count THEN End(o, "done")
     ELSE job' = [job EXCEPT ![o].step = @ + IF drivers[Index(o)] # "none" THEN 2 ELSE 1]
  /\ UNCHANGED <<rows, Counters>>

\* Slip: no transaction, the driver stays when the vehicle cannot be stored.
AfterClashHalf(i) == [drivers EXCEPT ![i] = IF @ = "none" THEN "half" ELSE @]

\* unique_driver_phone_per_company or unique_registration_per_company: all is rolled back.
AfterClash(i) == drivers

SeedOne(o) ==
  LET i == Index(o)
  IN /\ Seeding(o) /\ job[o].step % 2 = 1
     /\ IF drivers[i] # "none" \/ i \in plates
        THEN drivers' = AfterClash(i) /\ plates' = plates /\ End(o, "IntegrityError")
        ELSE drivers' = [drivers EXCEPT ![i] = "whole"] /\ plates' = plates \union {i} /\ OnTo(o)
     /\ UNCHANGED <<companies, owned, cards, signedUp, Counters>>

\* approve_driver: a save for each document.
Approve(o) ==
  /\ job[o].command = "approve" /\ job[o].end = "none"
  /\ IF job[o].step > Len(Papers) THEN signedUp' = signedUp /\ End(o, "done")
     ELSE signedUp' = signedUp \union {Papers[job[o].step]} /\ OnTo(o)
  /\ UNCHANGED <<companies, owned, cards, drivers, plates, Counters>>

\* People: a fare card is edited in the console; a driver gets another phone number (PATCH
\* /drivers) or is deleted, and the seeded number is free again.
EditCard(i) ==
  /\ cards[i] # "none" /\ Cardinality(edited) < MaxEdits
  /\ cards' = [cards EXCEPT ![i] = "edited"]
  /\ edited' = edited \union {i}
  /\ UNCHANGED <<companies, owned, drivers, plates, signedUp, job, typed, crashed, clashed, moved>>

ChangeNumber(i) ==
  /\ drivers[i] # "none" /\ ~moved
  /\ drivers' = [drivers EXCEPT ![i] = "none"]
  /\ moved' = TRUE
  /\ UNCHANGED <<companies, owned, cards, plates, signedUp, job, typed, edited, crashed, clashed>>

Commands == {"bootstrap", "types", "drivers", "approve"}

Next ==
  \/ \E o \in Operators :
       \/ \E command \in Commands : Type(o, command)
       \/ Die(o)
       \/ BootstrapLook(o) \/ BootstrapCompany(o) \/ BootstrapOwner(o)
       \/ SeedType(o) \/ SeedStart(o) \/ SeedLook(o) \/ SeedOne(o)
       \/ Approve(o)
  \/ \E i \in 1 .. Types : EditCard(i)
  \/ \E i \in Indexes : ChangeNumber(i)

Spec == Init /\ [][Next]_vars

----------------------------------------------------------------------------
(* Properties.                                                             *)

Ended(o, command, how) == job[o].command = command /\ job[o].end = how

\* _seed_one: wherever a command dies and however two overlap, a seeded driver has their
\* papers and their vehicle.
SeededWhole == \A i \in Indexes : drivers[i] # "none" => drivers[i] = "whole" /\ i \in plates

\* seed_drivers, "Safe to re-run", and seed_vehicle_types, "left exactly as they are": a
\* command typed again makes up for one that died, unless a driver got another number or
\* two run at once; what people edited stays.
ReRunCompletes ==
  \A o \in Operators :
    /\ Ended(o, "types", "done") => \A i \in 1 .. Types : cards[i] # "none"
    /\ Ended(o, "drivers", "done") /\ ~moved => \A i \in Indexes : drivers[i] # "none"
    /\ Ended(o, "drivers", "IntegrityError") => moved \/ clashed
    /\ Ended(o, "approve", "done") => signedUp = {Papers[i] : i \in DOMAIN Papers}
    /\ \A i \in edited : cards[i] = "edited"

\* bootstrap_company: a company stays without an owner only when a command died between its
\* writes, or two made a company of the same name.
OwnerFollows ==
  companies > (IF owned THEN 1 ELSE 0) => crashed \/ clashed \/ \E o \in Operators : Runs(o, "bootstrap", 3)

SeedKept == SeededWhole /\ ReRunCompletes /\ OwnerFollows
=============================================================================
