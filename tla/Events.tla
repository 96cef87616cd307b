------------------------------- MODULE Events -------------------------------
(***************************************************************************)
(* What the rest of the world hears of a trip: TripService saves, then     *)
(* notifies its observers (trips/notifications.py), which log a push to    *)
(* the driver and an invoice, and publish to Kafka, whose broker may be    *)
(* away. create_trip does all of that inside its transaction; everything   *)
(* later is saved at once.  A trip is handled by a process of the server   *)
(* at a time, each with a producer of its own; the records of a trip have  *)
(* its id as their key.                                                    *)
(***************************************************************************)
EXTENDS Integers, Sequences, FiniteSets

CONSTANTS
  Processes,
  Nothing,
  MaxRetries    \* bound: times a trip is offered to the drivers again

VARIABLES
  enabled,      \* KAFKA_ENABLED
  broker,       \* the broker can be reached
  producer,     \* _producer and _init_failed, by process
  row,          \* the trip's status, once its row is committed
  history,      \* the statuses that were saved, in order
  call,         \* the request under way: its process, whether it books the trip, what
                \* matching found for it, and what its observers are still to be told
  retries,
  topic,        \* the records published: the statuses in them, which go with their events
  pushed,       \* how many pushes went to drivers
  invoices,     \* the invoices written
  sound         \* no transaction fails to commit

trip == <<row, history, retries>>
heard == <<topic, pushed, invoices>>
vars == <<enabled, broker, producer, call, sound, trip, heard>>

Driven == {"assigned", "arrived_at_pickup", "in_progress", "completed"}
Ends   == {"completed", "cancelled"}

\* What a trip's row may say, and what a request remembers.
Statuses == Driven \union Ends \union {"requested", "no_driver_available"}
Requests == [by : Processes, books : BOOLEAN, found : Statuses \union {Nothing}, tell : Statuses \union {Nothing},
             failed : BOOLEAN]

\* NOTIFIABLE_EVENTS.
Notifiable == {"trip.assigned", "trip.arrived_at_pickup", "trip.started", "trip.completed", "trip.cancelled"}

\* The event of a step to a status.
EventOf(status) ==
  CASE status = "requested"           -> "trip.created"
    [] status = "no_driver_available" -> "trip.no_driver_available"
    [] status = "assigned"            -> "trip.assigned"
    [] status = "arrived_at_pickup"   -> "trip.arrived_at_pickup"
    [] status = "in_progress"         -> "trip.started"
    [] status = "completed"           -> "trip.completed"
    [] status = "cancelled"           -> "trip.cancelled"

\* The steps of TripService that are told of.
Follows(from) ==
  CASE from = "no_driver_available" -> {"assigned", "no_driver_available", "cancelled"}
    [] from = "assigned"            -> {"arrived_at_pickup", "assigned", "cancelled"}
    [] from = "arrived_at_pickup"   -> {"in_progress", "cancelled"}
    [] from = "in_progress"         -> {"completed"}
    [] OTHER                        -> {}

Idle == call = Nothing

Init ==
  /\ enabled \in BOOLEAN /\ broker \in BOOLEAN
  /\ producer = [p \in Processes |-> "none"]
  /\ row = Nothing /\ history = <<>> /\ retries = 0
  /\ call = Nothing
  /\ topic = <<>> /\ pushed = 0 /\ invoices = 0
  /\ sound \in BOOLEAN

----------------------------------------------------------------------------
(* Requests.                                                               *)

\* create_trip: nobody sees its row before the commit.
Create(p) ==
  /\ Idle /\ row = Nothing
  /\ call' = [by |-> p, books |-> TRUE, found |-> Nothing, tell |-> "requested", failed |-> FALSE]
  /\ UNCHANGED <<enabled, broker, producer, sound, trip, heard>>

\* retry_assignment, assign_to_driver, cancel_trip and the driver's steps: saved at once,
\* then told.
Step(p, status) ==
  /\ Idle /\ row # Nothing /\ status \in Follows(row)
  /\ row \in {status, "no_driver_available"} => retries < MaxRetries
  /\ retries' = IF row \in {status, "no_driver_available"} THEN retries + 1 ELSE retries
  /\ row' = status
  /\ history' = Append(history, status)
  /\ call' = [by |-> p, books |-> FALSE, found |-> Nothing, tell |-> status, failed |-> FALSE]
  /\ UNCHANGED <<enabled, broker, producer, sound, heard>>

----------------------------------------------------------------------------
(* Observers.                                                              *)

Told == call.tell = Nothing

\* DriverNotificationObserver: a driver is or was on the trip.
HasDriver == call.tell \in Driven \/ \E n \in DOMAIN history : history[n] \in Driven

\* _get_producer: made once by each process, and given up for good when that fails.
Producer(p) == IF producer[p] = "none" THEN IF broker THEN "ready" ELSE "failed" ELSE producer[p]

Published(p) == Producer(p) = "ready" /\ broker

\* Slip: a failed send is raised to the caller.
SendRaising(p) ==
  /\ topic' = IF Published(p) THEN Append(topic, call.tell) ELSE topic
  /\ call' = [call EXCEPT !.tell = Nothing, !.failed = ~Published(p)]

\* KafkaEventObserver.update: what fails is logged and kept from the caller.
Send(p) ==
  /\ topic' = IF Published(p) THEN Append(topic, call.tell) ELSE topic
  /\ call' = [call EXCEPT !.tell = Nothing]

\* Subject.notify: the three observers, one after the other.
Notify ==
  /\ ~Idle /\ ~Told
  /\ pushed' = IF EventOf(call.tell) \in Notifiable /\ HasDriver THEN pushed + 1 ELSE pushed
  /\ invoices' = IF EventOf(call.tell) = "trip.completed" THEN invoices + 1 ELSE invoices
  /\ IF enabled THEN Send(call.by) /\ producer' = [producer EXCEPT ![call.by] = Producer(call.by)]
                ELSE call' = [call EXCEPT !.tell = Nothing] /\ UNCHANGED <<topic, producer>>
  /\ UNCHANGED <<enabled, broker, sound, trip>>

\* create_trip goes on: try_assign_driver, and what it found.
Match(found) ==
  /\ ~Idle /\ Told /\ ~call.failed
  /\ call.books /\ call.found = Nothing
  /\ call' = [call EXCEPT !.tell = found, !.found = found]
  /\ UNCHANGED <<enabled, broker, producer, sound, trip, heard>>

\* The answer; for create_trip the commit of its rows.
Answer ==
  /\ ~Idle /\ Told /\ ~call.failed
  /\ call.books => call.found # Nothing
  /\ call' = Nothing
  /\ IF call.books THEN row' = call.found /\ history' = <<"requested", call.found>> ELSE UNCHANGED <<row, history>>
  /\ UNCHANGED <<enabled, broker, producer, sound, retries, heard>>

\* An error instead: create_trip leaves nothing.
Fails ==
  /\ ~Idle /\ Told
  /\ call.failed \/ (~sound /\ call.books)
  /\ call' = Nothing
  /\ row' = IF call.books THEN "taken back" ELSE row
  /\ UNCHANGED <<enabled, broker, producer, sound, history, retries, heard>>

\* The broker goes away, or is back.
Broker ==
  /\ enabled
  /\ broker' = ~broker
  /\ UNCHANGED <<enabled, producer, call, sound, trip, heard>>

\* A process is started again.
Restart(p) ==
  /\ Idle /\ producer[p] # "none"
  /\ producer' = [producer EXCEPT ![p] = "none"]
  /\ UNCHANGED <<enabled, broker, call, sound, trip, heard>>

Next ==
  \/ \E p \in Processes : Create(p)
  \/ \E p \in Processes, status \in Driven \union {"no_driver_available", "cancelled"} : Step(p, status)
  \/ \E found \in {"assigned", "no_driver_available"} : Match(found)
  \/ Notify \/ Answer \/ Fails \/ Broker
  \/ \E p \in Processes : Restart(p)

Spec == Init /\ [][Next]_vars

----------------------------------------------------------------------------
\* Whether s is t with some of its elements left out.
IsPart(s, t) == LET Take[n \in 0 .. Len(t)] ==      \* how much of s the first n of t hold
                      IF n = 0 THEN 0
                      ELSE IF Take[n - 1] < Len(s) /\ s[Take[n - 1] + 1] = t[n] THEN Take[n - 1] + 1 ELSE Take[n - 1]
                IN Take[Len(t)] = Len(s)

\* KafkaEventObserver, "so a consumer partitioned by key sees a given trip's events in
\* order": while transactions commit, the records of a trip are statuses it had, in the
\* order in which it had them, some left out while the broker was away.
RecordsFollow == (sound /\ Idle) => IsPart(topic, history)

\* "A failing notification must never fail the trip action that triggered it": pushes and
\* invoices are those of what was done, none of a trip that was taken back.
NothingTakenBack ==
  (sound /\ Idle) =>
    /\ row = "taken back" => heard = <<<<>>, 0, 0>>
    /\ invoices = IF row = "completed" THEN 1 ELSE 0
    /\ pushed = Cardinality({n \in DOMAIN history :
          /\ EventOf(history[n]) \in Notifiable
          /\ \E m \in 1 .. n : history[m] \in Driven})

EventsFollow == RecordsFollow /\ NothingTakenBack
=============================================================================
