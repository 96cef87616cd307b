-------------------------- MODULE MCTripLifecycle --------------------------
(***************************************************************************)
(* Small instances of TripLifecycle.                                        *)
(***************************************************************************)
EXTENDS TripLifecycle, TLC

CONSTANTS i1

\* A COD booking that owes everything, a prepaid one with a delivery OTP, a COD one
\* that earns the driver nothing, and a prepaid one that owes nothing.
FullCod  == [cod |-> TRUE, otp |-> FALSE, verify |-> TRUE, earns |-> TRUE,
             photos |-> {<<"pickup", i1>>, <<"delivery", WholeOrder>>}]
OtpOnly  == [cod |-> FALSE, otp |-> TRUE, verify |-> FALSE, earns |-> TRUE, photos |-> {}]
BareCod  == [cod |-> TRUE, otp |-> FALSE, verify |-> FALSE, earns |-> FALSE, photos |-> {}]
PlainPrepaid == [cod |-> FALSE, otp |-> FALSE, verify |-> FALSE, earns |-> TRUE, photos |-> {}]

MixedBookings == {FullCod, OtpOnly, BareCod}
SerialBookings == {FullCod, OtpOnly}
FullOnly      == {FullCod}
PlainOnly     == {PlainPrepaid}

Same == Permutations(Drivers) \union Permutations(Workers) \union Permutations(Trips)
=============================================================================
