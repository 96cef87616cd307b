----------------------------- MODULE Settlement -----------------------------
(***************************************************************************)
(* What the collection of one cash-on-delivery fare promises, whatever the *)
(* messages between the app, this server and the payment provider do:      *)
(* money the provider holds is booked at most once and never under another *)
(* reference, nothing is booked that nobody paid, and cash the driver      *)
(* keeps is debited from the driver in the same moment.                    *)
(***************************************************************************)
CONSTANTS
  Payments,    \* payments the provider may receive
  Open,        \* nothing is booked
  Cash,        \* the driver has the money
  Word         \* no provider that could know; the driver says so

VARIABLES
  received,    \* the payments the provider holds in full
  booked,      \* Trip.payment_reference once payment_status is paid
  debited,     \* the fare was debited from the driver's wallet
  trusting     \* payments cannot be verified on this server

vars == <<received, booked, debited, trusting>>

Init ==
  /\ received = {}
  /\ booked = Open
  /\ debited = FALSE
  /\ trusting \in BOOLEAN

Receive(p) ==
  /\ received' = received \union {p}
  /\ UNCHANGED <<booked, debited, trusting>>

Book(reference) ==
  /\ booked = Open
  /\ reference \in received \union {Cash} \union (IF trusting THEN {Word} ELSE {})
  /\ booked' = reference
  /\ debited' = (reference = Cash)
  /\ UNCHANGED <<received, trusting>>

Next == (\E p \in Payments : Receive(p)) \/ \E r \in Payments \union {Cash, Word} : Book(r)

Spec == Init /\ [][Next]_vars
=============================================================================
