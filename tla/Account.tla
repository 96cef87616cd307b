------------------------------ MODULE Account ------------------------------
(***************************************************************************)
(* The four parts of a driver's account that are served by different code  *)
(* and share no row they write: signing in (SignIn), the sessions this     *)
(* opens (Sessions), the papers (Onboarding) and the vehicles (Garage).    *)
(* Each stands for what the others do to it with an action of its own      *)
(* (SetAccount, SetActive, DriverStatus), so a behaviour follows one part  *)
(* and leaves the others where they begin.  Company puts them beside the   *)
(* office's parts.                                                         *)
(***************************************************************************)
EXTENDS Naturals, FiniteSets

CONSTANTS Accounts, Home, Others, MaxCodes, Servers, Nobody,     \* SignIn
          MaxTokens,                                             \* Sessions
          Names,                                                 \* Onboarding
          MaxRides, Pictured, Pictures, Types, MaxVehicles, MaxPhotos, Nothing   \* Garage

ASSUME NumbersAssumption == {MaxCodes, MaxTokens, MaxRides} \subseteq Nat
ASSUME NamesAssumption   == Names \subseteq Nat /\ 0 \in Names
ASSUME NullAssumption    == /\ Nobody \notin Accounts \union Others \union {Home}
                            /\ Nothing \notin Pictures \union Types
ASSUME LimitsAssumption  == MaxVehicles \in Nat \ {0} /\ MaxPhotos \in Nat \ {0}
ASSUME ServersAssumption == IsFiniteSet(Servers)

VARIABLES
  part,                                                   \* the part a behaviour follows
  row, open, sent, code, verify,                          \* SignIn
  active, life, denied, out, call,                        \* Sessions
  account, name, kyc, expiry, app, desk, serial,    \* Onboarding
  type, kind, retired, photos, primary, task, orderly     \* Garage

signIn  == <<row, open, sent, code, verify>>
session == <<active, life, denied, out, call>>
papers  == <<account, name, kyc, expiry, app, desk, serial>>
garage  == <<type, kind, retired, photos, primary, task, orderly>>
driver  == <<signIn, session, papers, garage>>

SignIn   == INSTANCE SignIn WITH account <- row, call <- verify
Sessions == INSTANCE Sessions
Papers   == INSTANCE Onboarding
Garage   == INSTANCE Garage WITH Clerks <- Servers

DriverInit ==
  /\ SignIn!Init /\ Sessions!Init /\ Papers!Init /\ Garage!Init
  /\ part # "signIn" => open
  /\ part # "papers" => serial
  /\ part # "garage" => orderly

SignInStep  == part = "signIn" /\ SignIn!Next /\ UNCHANGED <<part, session, papers, garage>>
SessionStep == part = "sessions" /\ Sessions!Next /\ UNCHANGED <<part, signIn, papers, garage>>
PapersStep  == part = "papers" /\ Papers!Next /\ UNCHANGED <<part, signIn, session, garage>>
GarageStep  == part = "garage" /\ Garage!Next /\ UNCHANGED <<part, signIn, session, papers>>

DriverNext == SignInStep \/ SessionStep \/ PapersStep \/ GarageStep

\* The columns hold what their choices allow.
TypeOK == Papers!TypeOK /\ Garage!TypeOK

\* register: however requests for one number race and wherever a process dies, a driver
\* who signed up has the papers every other page reads.
SignedUpWhole == SignIn!SignedUpWhole

\* revoke and _parse_refresh: a token its driver has logged out opens no session again,
\* until its last second.
LoggedOutStaysOut == Sessions!LoggedOutStaysOut

\* _back_to_pending and verify_*: a decision, its note and the status of a document fit
\* together, also when a stale copy of the row is saved.
DecisionWhole == Papers!DecisionWhole

\* onboarding_status and PENDING_KYC: a driver who is told that the company is reviewing
\* them is in the company's queue.
ReviewQueued == Papers!ReviewQueued

\* _require_editable: while requests do not overlap, nothing but a decision of the
\* company takes an approval away.
ApprovalStands == Papers!ApprovalStands

\* create and add_photo: requests that count at the same moment overshoot a limit by no
\* more than one for every further process that serves them.  _sync_primary: while requests
\* do not overlap, Vehicle.photo_url is the oldest picture the vehicle still has.
GarageKept == Garage!LimitsNearlyKept /\ Garage!PrimaryIsFirst
=============================================================================
