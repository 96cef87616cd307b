------------------------------ MODULE MCFleet ------------------------------
EXTENDS Fleet, TLC

CONSTANTS d1, d2, bike, scooter

\* The company owns the bike; the scooter is there for a driver to register, and only
\* one of the two drivers may drive both.
TwoCovered == (d1 :> {bike, scooter}) @@ (d2 :> {bike})
=============================================================================
