--------------------------- MODULE Company_proofs ---------------------------
(***************************************************************************)
(* What the parts of a driver's account guarantee for any number of        *)
(* accounts, documents' names, tokens, vehicles, pictures and processes,   *)
(* and then what the parts of the office do: the recorder of a voice note, *)
(* the team, the orders, the commands, the events, the lists and the       *)
(* reports.  A behaviour follows one part, and each part is a section with *)
(* an inductive invariant of its own.                                      *)
(***************************************************************************)
EXTENDS Company, Recursion_proofs, FiniteSetTheorems, SequenceTheorems, TLAPS

\* The office leaves the driver's account alone.
LEMMA DriverSteps == [Next]_vars => [DriverNext]_<<part, driver>>
BY DEF Next, vars, ReportStep, VoiceStep, TeamStep, ApiStep, EventStep, ListStep, SeedStep, OrderStep

\* A behaviour begins with the driver's parts as they are.
LEMMA DriverBegins == Init => DriverInit
BY DEF Init

----------------------------------------------------------------------------
(* The papers.                                                             *)

Whole(papersOf) ==
  \A p \in Papers!Parts :
    /\ papersOf[p].decided <=> papersOf[p].status # "pending"
    /\ papersOf[p].note <=> papersOf[p].status = "rejected"

\* What a submission holds is as whole as what it will replace.
AppOK ==
  \/ app = Papers!Rest
  \/ app.op = "profile" /\ app = [op |-> "profile", name |-> app.name] /\ app.name \in Names
  \/ /\ app.op = "submit" /\ app = [op |-> "submit", kyc |-> app.kyc, expiry |-> app.expiry]
     /\ app.kyc \in [Papers!Parts -> Papers!Paper] /\ app.expiry \in Papers!Days
     /\ Whole(app.kyc)

DeskOK == desk = Papers!Rest \/ (desk.op \in {"open", "unlock"} /\ desk = [op |-> desk.op, locked |-> desk.locked])

\* While requests do not overlap, a submission's copy still has every approval.
ApprovalsHeld ==
  serial => /\ app.op = "idle" \/ desk.op = "idle"
            /\ app.op = "submit" => \A p \in Papers!Parts : Papers!Verified(p) => app.kyc[p] = kyc[p]

PapersInv ==
  /\ Papers!TypeOK /\ AppOK /\ DeskOK
  /\ DecisionWhole /\ ApprovalsHeld

\* Before the first request the papers are in order.
LEMMA PapersInit == DriverInit => PapersInv
BY NamesAssumption DEF DriverInit, Papers!Init, PapersInv, Papers!TypeOK, AppOK, DeskOK, DecisionWhole,
  Papers!DecisionWhole, Papers!Me, Papers!Shown, ApprovalsHeld, Papers!AccountStatus, Papers!Parts, Papers!Paper,
  Papers!Days, Papers!Rest, Papers!VerificationStatus

\* The driver's requests.
LEMMA AppStep ==
  ASSUME PapersInv,
         \/ \E n \in Papers!Profiles : Papers!ProfileFetch(n)
         \/ Papers!ProfileWrite
         \/ \E p \in Papers!Parts : Papers!SubmitFetch(p)
         \/ Papers!SubmitWrite \/ Papers!AppAbort
  PROVE  PapersInv'
<1> USE DEF PapersInv, Papers!Rest
<1>1. ASSUME NEW n \in Papers!Profiles, Papers!ProfileFetch(n) PROVE PapersInv'
  BY <1>1 DEF Papers!Profiles, Papers!ProfileFetch, Papers!BeginApp, Papers!TypeOK, AppOK, DeskOK, DecisionWhole,
       Papers!DecisionWhole, Papers!Me, Papers!Shown, ApprovalsHeld
<1>2. CASE Papers!ProfileWrite
  BY <1>2 DEF Papers!ProfileWrite, Papers!EndApp, Papers!TypeOK, AppOK, DeskOK, DecisionWhole,
       Papers!DecisionWhole, Papers!Me, Papers!Shown, ApprovalsHeld
<1>3. ASSUME NEW p \in Papers!Parts, Papers!SubmitFetch(p) PROVE PapersInv'
  <2> DEFINE copy == [kyc EXCEPT ![p] = Papers!BackToPending(@)]
             day  == IF p = "dl" THEN "coming" ELSE expiry
  <2>1. app' = [op |-> "submit", kyc |-> copy, expiry |-> day]
    BY <1>3 DEF Papers!SubmitFetch, Papers!BeginApp, Papers!Submitted, Papers!Claimed
  <2>2. UNCHANGED <<account, name, kyc, expiry, desk, serial>> /\ app = Papers!Rest /\ ~Papers!Verified(p)
        /\ (serial => desk = Papers!Rest)
    BY <1>3 DEF Papers!SubmitFetch, Papers!BeginApp
  <2>3. copy \in [Papers!Parts -> Papers!Paper] /\ day \in Papers!Days
    BY DEF Papers!TypeOK, Papers!BackToPending, Papers!Paper, Papers!VerificationStatus, Papers!Days
  <2>4. Whole(copy)
    BY DEF Papers!TypeOK, DecisionWhole, Papers!DecisionWhole, Papers!Me, Papers!Shown, Whole, Papers!BackToPending
  <2>5. \A q \in Papers!Parts : Papers!Verified(q) => copy[q] = kyc[q]
    BY <2>2 DEF Papers!TypeOK
  <2> HIDE DEF copy, day
  <2>6. AppOK'
    BY <2>1, <2>3, <2>4 DEF AppOK, Whole
  <2>7. ApprovalsHeld'
    BY <2>1, <2>2, <2>5 DEF ApprovalsHeld, Papers!Verified
  <2> QED BY <2>1, <2>2, <2>6, <2>7 DEF Papers!TypeOK, DeskOK, DecisionWhole, Papers!DecisionWhole,
            Papers!Me, Papers!Shown
<1>4. CASE Papers!SubmitWrite
  BY <1>4 DEF Papers!SubmitWrite, Papers!EndApp, Papers!TypeOK, AppOK, DeskOK, DecisionWhole, Whole,
       Papers!DecisionWhole, Papers!Me, Papers!Shown, ApprovalsHeld
<1>5. CASE Papers!AppAbort
  BY <1>5 DEF Papers!AppAbort, Papers!EndApp, Papers!TypeOK, AppOK, DeskOK, DecisionWhole,
       Papers!DecisionWhole, Papers!Me, Papers!Shown, ApprovalsHeld
<1> QED BY <1>1, <1>2, <1>3, <1>4, <1>5

\* The company's requests.
LEMMA DeskStep ==
  ASSUME PapersInv,
         \/ Papers!DeskOpen
         \/ \E p \in Papers!Parts, d \in Papers!Decision : Papers!Decide(p, d)
         \/ \E d \in Papers!Decision : Papers!VerifyDl(d)
         \/ Papers!VerifyDlUnlock \/ Papers!DeskDone
  PROVE  PapersInv'
<1> USE DEF PapersInv, Papers!Rest
<1>1. CASE Papers!DeskOpen \/ Papers!DeskDone
  BY <1>1 DEF Papers!DeskOpen, Papers!DeskDone, Papers!TypeOK, AppOK, DeskOK, Whole, DecisionWhole,
       Papers!DecisionWhole, Papers!Me, Papers!Shown, ApprovalsHeld
<1>2. CASE Papers!VerifyDlUnlock
  BY <1>2 DEF Papers!VerifyDlUnlock, Papers!TypeOK, AppOK, DeskOK, Whole, DecisionWhole,
       Papers!DecisionWhole, Papers!Me, Papers!Shown, ApprovalsHeld, Papers!AccountStatus
<1>3. ASSUME NEW p \in Papers!Parts, NEW d \in Papers!Decision, Papers!Takes(p, d),
             desk.op = "open", kyc' = [kyc EXCEPT ![p] = Papers!Decided(@, d)], expiry' \in Papers!Days,
             desk' = desk \/ desk' = [desk EXCEPT !.op = "unlock"],
             UNCHANGED <<account, name, app, serial>>
      PROVE  PapersInv'
  <2>1. desk = [op |-> desk.op, locked |-> desk.locked]
    BY <1>3 DEF DeskOK
  <2>2. DeskOK' /\ desk'.op \in {"open", "unlock"}
    BY <1>3, <2>1 DEF DeskOK
  <2> DEFINE paper == Papers!Decided(kyc[p], d)
  <2>3. paper \in Papers!Paper /\ paper.decided /\ paper.status = d.status /\ d.status # "pending"
        /\ paper.note = (d.status = "rejected" /\ d.note)
    BY DEF Papers!TypeOK, Papers!Decided, Papers!Paper, Papers!VerificationStatus, Papers!Decision
  <2>4. d.status = "rejected" => d.note
    BY <1>3 DEF Papers!Takes, Papers!ApiTakes, Papers!ConsoleTakes, Papers!ApprovalTakes
  <2>5. kyc' = [kyc EXCEPT ![p] = paper]
    BY <1>3
  <2> HIDE DEF paper
  <2>6. Papers!TypeOK'
    BY <1>3, <2>2, <2>3, <2>5 DEF Papers!TypeOK
  <2>7. DecisionWhole'
    BY <2>3, <2>4, <2>5 DEF Papers!TypeOK, DecisionWhole, Papers!DecisionWhole, Papers!Me, Papers!Shown
  <2>8. ApprovalsHeld' /\ AppOK'
    BY <1>3, <2>2 DEF ApprovalsHeld, AppOK, Whole
  <2> QED BY <2>2, <2>6, <2>7, <2>8
<1>4. ASSUME NEW p \in Papers!Parts, NEW d \in Papers!Decision, Papers!Decide(p, d) PROVE PapersInv'
  BY <1>3, <1>4 DEF Papers!Decide, Papers!TypeOK
<1>5. ASSUME NEW d \in Papers!Decision, Papers!VerifyDl(d) PROVE PapersInv'
  BY <1>3, <1>5 DEF Papers!VerifyDl, Papers!Parts, Papers!Decision
<1> QED BY <1>1, <1>2, <1>4, <1>5

\* What the calendar and the nightly command do.
LEMMA PapersTimeStep ==
  ASSUME PapersInv,
         \/ Papers!LicenceLapses \/ Papers!LockExpired
         \/ \E s \in Papers!AccountStatus : Papers!DriverStatus(s)
         \/ UNCHANGED papers
  PROVE  PapersInv'
BY DEF papers, Papers!LicenceLapses, Papers!LockExpired, Papers!DriverStatus, Papers!TypeOK, AppOK, DeskOK, Whole,
  DecisionWhole, Papers!DecisionWhole, Papers!Me, Papers!Shown, ApprovalsHeld,
  Papers!Verified, Papers!AccountStatus, Papers!Days, PapersInv

\* A behaviour follows the papers or leaves them alone.
LEMMA PapersSteps == [DriverNext]_<<part, driver>> => Papers!Next \/ UNCHANGED papers
BY DEF DriverNext, SignInStep, SessionStep, PapersStep, GarageStep, driver

\* The papers stay in order.
LEMMA PapersHold == Spec => []PapersInv
<1>1. PapersInv /\ [DriverNext]_<<part, driver>> => PapersInv'
  BY PapersSteps, AppStep, DeskStep, PapersTimeStep DEF Papers!Next
<1> QED BY <1>1, PapersInit, DriverBegins, DriverSteps, PTL DEF Spec

\* However a stale copy of the row is saved over a decision of the company, a decision,
\* its note and the document's status fit together (_back_to_pending, verify_*).
THEOREM DecisionsWhole == Spec => []DecisionWhole
<1>1. PapersInv => DecisionWhole
  BY DEF PapersInv
<1> QED BY <1>1, PapersHold, PTL

\* A driver who reads that the company is reviewing them is in the company's queue
\* (onboarding_status, PENDING_KYC).
THEOREM UnderReviewIsQueued == Spec => []ReviewQueued
<1>1. PapersInv => ReviewQueued
  BY DEF PapersInv, Papers!TypeOK, Papers!Paper, Papers!VerificationStatus, Papers!Parts, ReviewQueued,
    Papers!ReviewQueued, Papers!Me, Papers!Shown, Papers!OnboardingStatus, Papers!Eligible, Papers!PendingKyc, Papers!Reviewable,
    Papers!Verified
<1> QED BY <1>1, PapersHold, PTL

\* While requests do not overlap only the company takes an approval away
\* (_require_editable).
THEOREM ApprovalStays == Spec => ApprovalStands
<1> DEFINE Stands == \A p \in Papers!Parts : serial /\ Papers!Verified(p) /\ desk = Papers!Rest => Papers!Verified(p)'
<1>1. PapersInv /\ [DriverNext]_<<part, driver>> => [Stands]_papers
  <2> SUFFICES ASSUME PapersInv, [DriverNext]_<<part, driver>>, papers' # papers PROVE Stands
    OBVIOUS
  <2>1. Papers!Next
    BY PapersSteps
  <2>2. CASE Papers!SubmitWrite
    BY <2>2 DEF PapersInv, ApprovalsHeld, Papers!SubmitWrite, Papers!Verified, Papers!Rest
  <2>3. CASE UNCHANGED kyc
    BY <2>3 DEF Papers!Verified
  <2>4. CASE desk.op = "open"
    BY <2>4 DEF Papers!Rest
  <2> QED BY <2>1, <2>2, <2>3, <2>4 DEF Papers!Next, Papers!ProfileFetch, Papers!ProfileWrite, Papers!SubmitFetch,
            Papers!AppAbort, Papers!DeskOpen, Papers!Decide, Papers!VerifyDl, Papers!VerifyDlUnlock, Papers!DeskDone,
            Papers!DriverStatus, Papers!LicenceLapses, Papers!LockExpired
<1>2. Spec => [][Stands]_papers
  BY <1>1, PapersHold, DriverSteps, PTL DEF Spec
<1> QED BY <1>2 DEF ApprovalStands, Papers!ApprovalStands, Papers!vars, papers

----------------------------------------------------------------------------
(* Signing in.                                                             *)

Rows == [status : SignIn!Status, company : SignIn!Company \union {Nobody}, kyc : BOOLEAN, own : BOOLEAN]

SignInInv == row \in [Accounts -> Rows] /\ SignedUpWhole

\* A step of the driver's side is one of the sign-in or leaves it alone.
LEMMA SignInSteps == [DriverNext]_<<part, driver>> => SignIn!Next \/ UNCHANGED signIn
BY DEF DriverNext, SignInStep, SessionStep, PapersStep, GarageStep, driver

\* Before the first request nobody is signed up.
LEMMA SignInInit == DriverInit => SignInInv
BY DEF DriverInit, SignIn!Init, SignInInv, Rows, SignIn!Status, SignedUpWhole, SignIn!SignedUpWhole

\* Counting means the same in each of the parts.
LEMMA CountsAgree ==
  /\ \A S : Sessions!Cardinality(S) = Cardinality(S)
  /\ \A S : Garage!Cardinality(S) = Cardinality(S)
BY DEF Cardinality, IsFiniteSet, Sessions!Cardinality, Sessions!IsFiniteSet, Garage!Cardinality, Garage!IsFiniteSet

\* Only a sign-up, the company's entry of a driver and the driver's status write the row.
LEMMA SignInStepInv == SignInInv /\ SignIn!Next => SignInInv'
<1> SUFFICES ASSUME SignInInv, SignIn!Next PROVE SignInInv'
  OBVIOUS
<1> USE DEF SignInInv, SignedUpWhole, SignIn!SignedUpWhole
<1>1. ASSUME NEW s \in Servers, NEW a \in Accounts, SignIn!Register(s, a) PROVE SignInInv'
  <2>1. [status |-> "active", company |-> Home, kyc |-> TRUE, own |-> TRUE] \in Rows
    BY DEF Rows, SignIn!Status, SignIn!Company
  <2>2. PICK r \in Rows : r.kyc /\ (row' = row \/ row' = [row EXCEPT ![a] = r])
    BY <1>1, <2>1 DEF SignIn!Register
  <2> QED BY <2>2
<1>2. ASSUME NEW s \in Servers, NEW a \in Accounts, NEW c \in SignIn!Company, SignIn!CreateDriver(s, a, c)
      PROVE  SignInInv'
  <2>1. [status |-> "active", company |-> c, kyc |-> FALSE, own |-> FALSE] \in Rows
    BY DEF Rows, SignIn!Status
  <2> QED BY <1>2, <2>1 DEF SignIn!CreateDriver
<1>3. ASSUME NEW s \in Servers, SignIn!CreateKyc(s) PROVE SignInInv'
  BY <1>3 DEF SignIn!CreateKyc, Rows
<1>4. ASSUME NEW a \in Accounts, NEW s \in SignIn!Status, SignIn!SetAccount(a, s) PROVE SignInInv'
  BY <1>4 DEF SignIn!SetAccount, Rows
<1>5. CASE UNCHANGED row
  BY <1>5
<1> QED BY <1>1, <1>2, <1>3, <1>4, <1>5 DEF SignIn!Next, SignIn!Serve, SignIn!RequestOtp, SignIn!CodeExpires,
          SignIn!VerifyFind, SignIn!VerifyCompare, SignIn!VerifySpend, SignIn!Issue, SignIn!Drop,
          SignIn!SwitchSignUp

\* Requests for one number may race and die anywhere: who signed up has papers (register).
THEOREM SignUpLeavesPapers == Spec => []SignedUpWhole
<1>1. SignInInv /\ [DriverNext]_<<part, driver>> => SignInInv'
  <2>1. SignInInv /\ UNCHANGED signIn => SignInInv'
    BY DEF signIn, SignInInv, SignedUpWhole, SignIn!SignedUpWhole
  <2> QED BY <2>1, SignInSteps, SignInStepInv
<1>2. SignInInv => SignedUpWhole
  BY DEF SignInInv
<1> QED BY <1>1, <1>2, SignInInit, DriverBegins, DriverSteps, PTL DEF Spec

----------------------------------------------------------------------------
(* The sessions.                                                           *)

Handed(t) == life[t] # "unused"

\* A token is in the list of what was logged out until it ends or has its last second.
SessionInv ==
  /\ life \in [Sessions!Tokens -> Sessions!Life]
  /\ \E n \in 0 .. MaxTokens : {t \in Sessions!Tokens : Handed(t)} = 1 .. n
  /\ out \subseteq {t \in Sessions!Tokens : Handed(t)}
  /\ \A t \in out : life[t] = "fresh" => t \in denied
  /\ \A s \in Servers :
       call[s].op = "deny" => call[s].token \in Sessions!Tokens /\ Handed(call[s].token)
  /\ call = [s \in Servers |-> call[s]]

\* A step of the driver's side is one of the sessions or leaves them alone.
LEMMA SessionSteps == [DriverNext]_<<part, driver>> => Sessions!Next \/ UNCHANGED session
BY DEF DriverNext, SignInStep, SessionStep, PapersStep, GarageStep, driver

\* Before the first request there is no session.
LEMMA SessionInit == DriverInit => SessionInv
<1> SUFFICES ASSUME Sessions!Init PROVE SessionInv
  BY DEF DriverInit
<1> USE DEF Sessions!Init
<1>1. {t \in Sessions!Tokens : Handed(t)} = 1 .. 0 /\ 0 \in 0 .. MaxTokens
  BY NumbersAssumption DEF Handed
<1> QED BY <1>1 DEF SessionInv, Sessions!Life, Sessions!Ready

\* issue_pair: the new token is none that was handed out before.
LEMMA IssueStep ==
  ASSUME SessionInv, NEW s \in Servers, Sessions!Issue(s)
  PROVE  SessionInv'
<1> USE DEF SessionInv
<1> DEFINE used == {u \in Sessions!Tokens : life[u] # "unused"}
           t == Sessions!Cardinality(used) + 1
<1>1. PICK n \in 0 .. MaxTokens : used = 1 .. n
  BY DEF Handed
<1>2. t = n + 1
  <2>1. Cardinality(1 .. n) = n
    BY FS_Interval
  <2> QED BY <1>1, <2>1, CountsAgree
<1>3. t \in Sessions!Tokens /\ life' = [life EXCEPT ![t] = "fresh"] /\ UNCHANGED <<active, denied, out>>
  BY DEF Sessions!Issue
<1>4. call' = [call EXCEPT ![s] = Sessions!Ready]
  BY DEF Sessions!Issue, Sessions!Answer
<1> HIDE DEF t
<1>5. {u \in Sessions!Tokens : Handed(u)'} = 1 .. n + 1 /\ n + 1 \in 0 .. MaxTokens
  BY <1>1, <1>2, <1>3, NumbersAssumption DEF Handed, Sessions!Tokens
<1>6. t \notin out
  BY <1>1, <1>2 DEF Handed
<1>7. life' \in [Sessions!Tokens -> Sessions!Life] /\ \A u \in out : life'[u] = life[u]
  BY <1>3, <1>6 DEF Sessions!Life
<1>8. \A u \in Sessions!Tokens : Handed(u) => Handed(u)'
  BY <1>3 DEF Handed
<1> QED BY <1>3, <1>4, <1>5, <1>7, <1>8 DEF Sessions!Ready, Handed

\* The other steps.
LEMMA SessionStepInv == SessionInv /\ (Sessions!Next \/ UNCHANGED session) => SessionInv'
<1> SUFFICES ASSUME SessionInv, Sessions!Next \/ UNCHANGED session PROVE SessionInv'
  OBVIOUS
<1>1. CASE UNCHANGED session
  BY <1>1 DEF session, SessionInv, Handed
<1>2. ASSUME NEW s \in Servers, NEW r, call' = [call EXCEPT ![s] = r], UNCHANGED <<life, denied, out>>,
             r.op = "deny" => r.token \in Sessions!Tokens /\ Handed(r.token)
      PROVE  SessionInv'
  BY <1>2 DEF SessionInv, Handed
<1>3. ASSUME NEW s \in Servers,
             \/ Sessions!SignsIn(s) \/ Sessions!Drop(s)
             \/ \E t \in Sessions!Tokens : Sessions!RefreshParse(s, t)
      PROVE  SessionInv'
  BY <1>2, <1>3 DEF Sessions!SignsIn, Sessions!Drop, Sessions!RefreshParse, Sessions!Accept, Sessions!Answer,
       Sessions!Ready
<1>4. ASSUME NEW s \in Servers, Sessions!RefreshLook(s) PROVE SessionInv'
  BY <1>4 DEF Sessions!RefreshLook, SessionInv, Handed
<1>5. ASSUME NEW s \in Servers, NEW t \in Sessions!Tokens, Sessions!LogoutParse(s, t) PROVE SessionInv'
  BY <1>2, <1>5 DEF Sessions!LogoutParse, Sessions!Accept, Sessions!CanRenew, Sessions!Lives, Handed
<1>6. ASSUME NEW s \in Servers, Sessions!LogoutDeny(s) PROVE SessionInv'
  <2> USE <1>6 DEF Sessions!LogoutDeny
  <2>1. UNCHANGED <<active, life>> /\ call' = [call EXCEPT ![s] = Sessions!Ready]
    BY DEF Sessions!Answer
  <2>2. out' \subseteq {t \in Sessions!Tokens : Handed(t)} /\ \A t \in out' : life[t] = "fresh" => t \in denied'
    BY DEF SessionInv
  <2> QED BY <2>1, <2>2 DEF SessionInv, Handed, Sessions!Ready
<1>7. ASSUME NEW t \in Sessions!Tokens, Sessions!Age(t) PROVE SessionInv'
  <2> USE <1>7 DEF Sessions!Age, Sessions!Lives
  <2>1. life' \in [Sessions!Tokens -> Sessions!Life]
    BY DEF SessionInv, Sessions!Life
  <2>2. /\ \A u \in Sessions!Tokens : Handed(u)' <=> Handed(u)
        /\ \A u \in Sessions!Tokens : life'[u] = "fresh" => life[u] = "fresh"
    BY DEF SessionInv, Handed
  <2>3. {u \in Sessions!Tokens : Handed(u)'} = {u \in Sessions!Tokens : Handed(u)}
    BY <2>2
  <2> QED BY <2>1, <2>2, <2>3 DEF SessionInv
<1>8. ASSUME NEW t \in Sessions!Tokens, Sessions!Forget(t) PROVE SessionInv'
  BY <1>8 DEF Sessions!Forget, SessionInv, Handed
<1>9. CASE Sessions!SetActive
  BY <1>9 DEF Sessions!SetActive, SessionInv, Handed
<1> QED BY <1>1, <1>3, <1>4, <1>5, <1>6, <1>7, <1>8, <1>9, IssueStep DEF Sessions!Next

\* A token its driver has logged out renews nothing until its last second, however many
\* requests hold it (revoke, _parse_refresh).
THEOREM LogoutHolds == Spec => []LoggedOutStaysOut
<1>1. SessionInv /\ [DriverNext]_<<part, driver>> => SessionInv'
  BY SessionSteps, SessionStepInv
<1>2. SessionInv => LoggedOutStaysOut
  BY DEF SessionInv, LoggedOutStaysOut, Sessions!LoggedOutStaysOut, Sessions!CanRenew, Sessions!Lives
<1> QED BY <1>1, <1>2, SessionInit, DriverBegins, DriverSteps, PTL DEF Spec

----------------------------------------------------------------------------
(* The vehicles.                                                           *)

Slack == IF orderly THEN 0 ELSE Cardinality(Servers) - 1

Busy     == {w \in Servers : task[w] # Garage!Free}
Creating == {w \in Servers : task[w].op = "create"}
Adding(r) == {w \in Servers : task[w].op = "add" /\ task[w].ride = r}

\* What a request remembers.
TaskOK(x) ==
  \/ x = Garage!Free
  \/ x.op \in {"create", "scrap"} /\ x = [op |-> x.op, kind |-> x.kind] /\ x.kind \in Types
  \/ /\ x.op = "update" /\ x = [op |-> x.op, ride |-> x.ride, kind |-> x.kind]
     /\ x.ride \in Garage!Rides /\ x.kind \in Types
  \/ /\ x.op \in {"add", "drop"} /\ x = [op |-> x.op, ride |-> x.ride, pic |-> x.pic, first |-> x.first]
     /\ x.ride \in Garage!Rides
     /\ x.pic \in Pictures /\ x.first \in Pictures \union {Nothing}

\* The vehicle a request is about stays in the table.
RideThere(x) == x.op \in {"update", "add", "drop"} => kind[x.ride] # Nothing

\* While requests do not overlap, the picture that will be the first is still that one.
FirstKnown(x) ==
  orderly => /\ x.op = "add" => x.first = Garage!FirstOf(Append(photos[x.ride], x.pic))
             /\ x.op = "drop" => x.first = Garage!FirstOf(Garage!Without(photos[x.ride], x.pic))

TasksOK ==
  /\ task = [w \in Servers |-> task[w]]
  /\ \A w \in Servers : TaskOK(task[w]) /\ RideThere(task[w]) /\ FirstKnown(task[w])
  /\ orderly => \A v, w \in Busy : v = w
  /\ orderly \in BOOLEAN

\* Rows are inserted in the order of their numbers.
RidesInOrder == \E n \in 0 .. MaxRides : {r \in Garage!Rides : kind[r] # Nothing} = 1 .. n

\* A request that has counted still has its place.
VehiclesReserved == Cardinality(Garage!Owned) + Cardinality(Creating) <= MaxVehicles + Slack
PhotosReserved   ==
  \A r \in Garage!Rides : Len(photos[r]) + Cardinality(Adding(r)) <= MaxPhotos + Slack

GarageInv ==
  /\ Garage!TypeOK /\ TasksOK /\ RidesInOrder
  /\ VehiclesReserved /\ PhotosReserved /\ Garage!PrimaryIsFirst

\* A step of the driver's side is one of the vehicle photos or leaves them alone.
LEMMA GarageSteps == [DriverNext]_<<part, driver>> => Garage!Next \/ UNCHANGED garage
BY DEF DriverNext, SignInStep, SessionStep, PapersStep, GarageStep, driver

\* Requests are few.
LEMMA FewRequests ==
  ASSUME NEW S \in SUBSET Servers
  PROVE  IsFiniteSet(S) /\ Cardinality(S) \in Nat /\ Cardinality(S) <= Cardinality(Servers)
         /\ Cardinality(Servers) \in Nat
BY ServersAssumption, FS_Subset, FS_CardinalityType

\* So are vehicles.
LEMMA FewVehicles ==
  ASSUME NEW S \in SUBSET Garage!Rides
  PROVE  IsFiniteSet(S) /\ Cardinality(S) \in Nat
<1>1. IsFiniteSet(Garage!Rides)
  BY FS_Interval, NumbersAssumption DEF Garage!Rides
<1> QED BY <1>1, FS_Subset, FS_CardinalityType

\* Before the first request there are no photos.
LEMMA GarageInit == DriverInit => GarageInv
<1> SUFFICES ASSUME Garage!Init PROVE GarageInv
  BY DEF DriverInit
<1> USE DEF Garage!Init
<1>1. Garage!TypeOK
  BY DEF Garage!TypeOK, Garage!TypeStatus
<1>2. TasksOK
  BY DEF TasksOK, TaskOK, RideThere, FirstKnown, Garage!Free, Busy
<1>3. RidesInOrder
  <2>1. {r \in Garage!Rides : kind[r] # Nothing} = 1 .. 0 /\ 0 \in 0 .. MaxRides
    BY NumbersAssumption
  <2> QED BY <2>1 DEF RidesInOrder
<1>4. Cardinality({}) = 0 /\ Cardinality(Servers) \in Nat
  BY FS_EmptySet, FewRequests
<1>5. VehiclesReserved
  <2>1. Garage!Owned = {} /\ Creating = {}
    BY DEF Garage!Owned, Creating, Garage!Free
  <2> QED BY <1>4, <2>1, LimitsAssumption DEF VehiclesReserved, Slack
<1>6. PhotosReserved
  <2>1. \A r \in Garage!Rides : Adding(r) = {} /\ Len(photos[r]) = 0
    BY DEF Adding, Garage!Free
  <2>2. MaxPhotos + Slack >= 0
    BY <1>4, LimitsAssumption DEF Slack
  <2>3. \A r \in Garage!Rides : Cardinality(Adding(r)) = 0
    BY <1>4, <2>1
  <2> HIDE DEF Garage!Init
  <2>4. MaxPhotos + Slack \in Int
    BY <1>4, LimitsAssumption DEF Slack
  <2> QED BY <2>1, <2>2, <2>3, <2>4 DEF PhotosReserved
<1>7. Garage!PrimaryIsFirst
  BY DEF Garage!PrimaryIsFirst, Garage!FirstOf
<1> QED BY <1>1, <1>2, <1>3, <1>5, <1>6, <1>7 DEF GarageInv

\* The table of tasks after a step, for a task that is typed and knows its vehicle.
LEMMA TaskStep ==
  ASSUME GarageInv, NEW w \in Servers, NEW x, task' = [task EXCEPT ![w] = x]
  PROVE  /\ task'[w] = x /\ \A v \in Servers \ {w} : task'[v] = task[v]
         /\ task' = [v \in Servers |-> task'[v]]
BY DEF GarageInv, TasksOK

\* A request begins: it has counted, and the rows stay as they are.
LEMMA GarageStart ==
  ASSUME GarageInv, NEW w \in Servers, NEW x, Garage!Start(w, x),
         UNCHANGED <<type, kind, retired, photos, primary, orderly>>,
         TaskOK(x), x # Garage!Free, RideThere(x), FirstKnown(x),
         x.op = "create" => Cardinality(Garage!Owned) < MaxVehicles,
         x.op = "add" => Len(photos[x.ride]) < MaxPhotos
  PROVE  GarageInv'
<1> USE DEF GarageInv
<1>1. task' = [task EXCEPT ![w] = x] /\ task[w] = Garage!Free /\ (orderly => Busy = {})
  BY DEF Garage!Start, Busy
<1>2. /\ task'[w] = x /\ \A v \in Servers \ {w} : task'[v] = task[v]
      /\ task' = [v \in Servers |-> task'[v]]
  BY <1>1, TaskStep
<1>3. TasksOK'
  <2>1. \A v \in Servers : (TaskOK(task[v]) /\ RideThere(task[v]) /\ FirstKnown(task[v]))'
    <3> SUFFICES ASSUME NEW v \in Servers PROVE (TaskOK(task[v]) /\ RideThere(task[v]) /\ FirstKnown(task[v]))'
      OBVIOUS
    <3> QED BY <1>2 DEF TasksOK, TaskOK, RideThere, FirstKnown
  <2>2. orderly' => \A v, u \in Busy' : v = u
    BY <1>1, <1>2 DEF Busy
  <2> QED BY <1>2, <2>1, <2>2 DEF TasksOK
<1>4. Garage!Owned' = Garage!Owned /\ Slack' = Slack
  BY DEF Garage!Owned, Slack
<1>5. VehiclesReserved'
  <2>0. Creating \in SUBSET Servers /\ Creating' \in SUBSET Servers
    BY DEF Creating
  <2>1. CASE x.op = "create"
    <3>1. Creating' = Creating \union {w} /\ w \notin Creating
      BY <1>1, <1>2, <2>1 DEF Creating, Garage!Free
    <3>2. Cardinality(Creating') = Cardinality(Creating) + 1 /\ Cardinality(Creating') <= Cardinality(Servers)
      BY <2>0, <3>1, FewRequests, FS_AddElement
    <3>3. orderly => Creating = {}
      BY <1>1 DEF Creating, Busy, Garage!Free
    <3>4. Cardinality(Creating') <= Slack + 1
      BY <2>0, <3>2, <3>3, FewRequests, FS_EmptySet DEF Slack
    <3>5. Cardinality(Garage!Owned) \in Nat /\ Cardinality(Creating') \in Nat /\ Slack \in Int
      BY <2>0, FewRequests, FewVehicles DEF Garage!Owned, Slack
    <3> QED BY <1>4, <2>1, <3>4, <3>5, LimitsAssumption DEF VehiclesReserved
  <2>2. CASE x.op # "create"
    <3>1. Creating' = Creating
      BY <1>1, <1>2, <2>2 DEF Creating, Garage!Free
    <3> QED BY <1>4, <3>1 DEF VehiclesReserved
  <2> QED BY <2>1, <2>2
<1>6. PhotosReserved'
  <2> SUFFICES ASSUME NEW r \in Garage!Rides
               PROVE  Len(photos[r]) + Cardinality(Adding(r)') <= MaxPhotos + Slack
    BY <1>4 DEF PhotosReserved
  <2>0. Adding(r) \in SUBSET Servers /\ Adding(r)' \in SUBSET Servers /\ Len(photos[r]) \in Nat
    BY DEF Adding, Garage!TypeOK
  <2>1. CASE x.op = "add" /\ x.ride = r
    <3>1. Adding(r)' = Adding(r) \union {w} /\ w \notin Adding(r)
      BY <1>1, <1>2, <2>1 DEF Adding, Garage!Free
    <3>2. Cardinality(Adding(r)') = Cardinality(Adding(r)) + 1 /\ Cardinality(Adding(r)') <= Cardinality(Servers)
      BY <2>0, <3>1, FewRequests, FS_AddElement
    <3>3. orderly => Adding(r) = {}
      BY <1>1 DEF Adding, Busy, Garage!Free
    <3>4. Cardinality(Adding(r)') <= Slack + 1
      BY <2>0, <3>2, <3>3, FewRequests, FS_EmptySet DEF Slack
    <3>5. Cardinality(Adding(r)') \in Nat /\ Slack \in Int
      BY <2>0, FewRequests DEF Slack
    <3> QED BY <2>0, <2>1, <3>4, <3>5, LimitsAssumption
  <2>2. CASE ~(x.op = "add" /\ x.ride = r)
    <3>1. Adding(r)' = Adding(r)
      BY <1>1, <1>2, <2>2 DEF Adding, Garage!Free
    <3> QED BY <3>1 DEF PhotosReserved
  <2> QED BY <2>1, <2>2
<1>7. Garage!TypeOK' /\ RidesInOrder' /\ Garage!PrimaryIsFirst'
  BY DEF Garage!TypeOK, RidesInOrder, Garage!PrimaryIsFirst, Garage!FirstOf
<1> QED BY <1>3, <1>5, <1>6, <1>7

\* A request of a driver is answered: what the others remember still holds.
LEMMA GarageEnd ==
  ASSUME GarageInv, NEW w \in Servers, Garage!Finish(w), task[w] # Garage!Free, orderly' = orderly,
         \A r \in Garage!Rides : kind[r] # Nothing => kind'[r] # Nothing
  PROVE  /\ TasksOK' /\ Slack' = Slack
         /\ Creating' = Creating \ {w} /\ \A r \in Garage!Rides : Adding(r)' = Adding(r) \ {w}
<1>1. task' = [task EXCEPT ![w] = Garage!Free]
  BY DEF Garage!Finish
<1>2. /\ task'[w] = Garage!Free /\ \A v \in Servers \ {w} : task'[v] = task[v]
      /\ task' = [v \in Servers |-> task'[v]]
  BY <1>1, TaskStep
<1>3. w \in Busy /\ (orderly => \A v \in Servers \ {w} : task[v] = Garage!Free)
  BY DEF GarageInv, TasksOK, Busy
<1>4. \A v \in Servers : (TaskOK(task[v]) /\ RideThere(task[v]) /\ FirstKnown(task[v]))'
  <2> SUFFICES ASSUME NEW v \in Servers PROVE (TaskOK(task[v]) /\ RideThere(task[v]) /\ FirstKnown(task[v]))'
    OBVIOUS
  <2>1. CASE task'[v] = Garage!Free
    BY <2>1 DEF TaskOK, RideThere, FirstKnown, Garage!Free
  <2>2. CASE task'[v] # Garage!Free
    <3>1. task'[v] = task[v] /\ ~orderly
      BY <1>2, <1>3, <2>2
    <3> QED BY <3>1 DEF GarageInv, TasksOK, TaskOK, RideThere, FirstKnown, Garage!Free
  <2> QED BY <2>1, <2>2
<1>5. orderly' => \A v, u \in Busy' : v = u
  BY <1>2, <1>3 DEF Busy
<1>6. TasksOK'
  BY <1>2, <1>4, <1>5 DEF TasksOK, GarageInv
<1>7. Creating' = Creating \ {w}
  BY <1>2 DEF Creating, Garage!Free
<1>8. \A r \in Garage!Rides : Adding(r)' = Adding(r) \ {w}
  BY <1>2 DEF Adding, Garage!Free
<1> QED BY <1>6, <1>7, <1>8 DEF Slack

\* A set of requests without one of them.
LEMMA OneLess ==
  ASSUME NEW S \in SUBSET Servers, NEW w \in Servers
  PROVE  /\ Cardinality(S) \in Nat /\ Cardinality(S \ {w}) \in Nat
         /\ Cardinality(S \ {w}) = (IF w \in S THEN Cardinality(S) - 1 ELSE Cardinality(S))
<1>1. IsFiniteSet(S) /\ Cardinality(S) \in Nat /\ Cardinality(S \ {w}) \in Nat
  BY FewRequests
<1> QED BY <1>1, FS_RemoveElement

\* The reserved places after an answer that inserts nothing.
LEMMA NothingInserted ==
  ASSUME GarageInv, NEW w \in Servers, Garage!Finish(w), task[w] # Garage!Free, orderly' = orderly,
         \A r \in Garage!Rides : kind[r] # Nothing <=> kind'[r] # Nothing, retired' = retired
  PROVE  TasksOK' /\ RidesInOrder' /\ VehiclesReserved'
<1>1. /\ TasksOK' /\ Slack' = Slack
      /\ Creating' = Creating \ {w}
  BY GarageEnd
<1>2. {r \in Garage!Rides : kind'[r] # Nothing} = {r \in Garage!Rides : kind[r] # Nothing}
  OBVIOUS
<1>3. RidesInOrder' /\ Garage!Owned' = Garage!Owned
  BY <1>2 DEF GarageInv, RidesInOrder, Garage!Owned
<1>4. Cardinality(Creating') <= Cardinality(Creating) /\ Cardinality(Creating) \in Nat /\ Cardinality(Creating') \in Nat
  <2>1. Creating \in SUBSET Servers
    BY DEF Creating
  <2> QED BY <1>1, <2>1, OneLess
<1>5. Cardinality(Garage!Owned) \in Nat /\ Slack \in Int
  BY FewVehicles, FewRequests DEF Garage!Owned, Slack
<1> QED BY <1>1, <1>3, <1>4, <1>5, LimitsAssumption DEF GarageInv, VehiclesReserved

\* An answer that leaves the pictures alone.
LEMMA PicturesKept ==
  ASSUME GarageInv, NEW w \in Servers, Garage!Finish(w), task[w] # Garage!Free,
         \A r \in Garage!Rides : kind[r] # Nothing => kind'[r] # Nothing,
         UNCHANGED <<photos, primary, orderly>>
  PROVE  PhotosReserved' /\ Garage!PrimaryIsFirst'
<1>1. Slack' = Slack /\ \A r \in Garage!Rides : Adding(r)' = Adding(r) \ {w}
  BY GarageEnd
<1>2. PhotosReserved'
  <2> SUFFICES ASSUME NEW r \in Garage!Rides
               PROVE  Len(photos[r]) + Cardinality(Adding(r)') <= MaxPhotos + Slack
    BY <1>1 DEF PhotosReserved
  <2>1. Cardinality(Adding(r)') <= Cardinality(Adding(r)) /\ Cardinality(Adding(r)) \in Nat /\ Cardinality(Adding(r)') \in Nat
    BY <1>1, OneLess DEF Adding
  <2>2. Len(photos[r]) \in Nat /\ Slack \in Int
    BY FewRequests DEF GarageInv, Garage!TypeOK, Slack
  <2> QED BY <2>1, <2>2, LimitsAssumption DEF GarageInv, PhotosReserved
<1> QED BY <1>2 DEF GarageInv, Garage!PrimaryIsFirst, Garage!FirstOf

\* A request that dies, or changes or deletes a type.
LEMMA GarageAnswer ==
  ASSUME GarageInv, NEW w \in Servers,
         Garage!GiveUp(w) \/ Garage!UpdateWrite(w) \/ Garage!DeleteType(w)
  PROVE  GarageInv'
<1>0. /\ Garage!Finish(w) /\ task[w] # Garage!Free
      /\ UNCHANGED <<retired, photos, primary, orderly>> /\ TaskOK(task[w]) /\ RideThere(task[w])
  BY DEF Garage!GiveUp, Garage!UpdateWrite, Garage!DeleteType, Garage!Free, GarageInv, TasksOK
<1>1. /\ kind' \in [Garage!Rides -> Types \union {Nothing}]
      /\ \A r \in Garage!Rides : kind[r] # Nothing <=> kind'[r] # Nothing
  <2>1. CASE Garage!UpdateWrite(w)
    <3>1. task[w].ride \in Garage!Rides /\ task[w].kind \in Types /\ kind[task[w].ride] # Nothing
      BY <1>0, <2>1 DEF Garage!UpdateWrite, TaskOK, RideThere, Garage!Free
    <3> QED BY <2>1, <3>1, NullAssumption DEF Garage!UpdateWrite, GarageInv, Garage!TypeOK
  <2>2. CASE UNCHANGED kind
    BY <2>2 DEF GarageInv, Garage!TypeOK
  <2> QED BY <2>1, <2>2 DEF Garage!GiveUp, Garage!DeleteType
<1>2. type' \in [Types -> Garage!TypeStatus]
  BY DEF GarageInv, Garage!TypeOK, Garage!GiveUp, Garage!UpdateWrite, Garage!DeleteType, Garage!TypeStatus
<1>3. Garage!TypeOK'
  BY <1>0, <1>1, <1>2 DEF GarageInv, Garage!TypeOK
<1> QED BY <1>0, <1>1, <1>3, NothingInserted, PicturesKept DEF GarageInv

\* create: the vehicle was counted for, and has no pictures but its own.
LEMMA CreateCommitKept ==
  ASSUME GarageInv, NEW w \in Servers, NEW r \in Garage!Rides,
         NEW shots \in {<<>>} \union {<<pic>> : pic \in Pictures}, Garage!CreateCommit(w, r, shots)
  PROVE  GarageInv'
<1> DEFINE there == {v \in Garage!Rides : kind[v] # Nothing}
<1>0. /\ Garage!Finish(w) /\ task[w] # Garage!Free /\ task[w].op = "create" /\ task[w].kind \in Types
      /\ UNCHANGED <<type, retired, orderly>>
      /\ kind' = [kind EXCEPT ![r] = task[w].kind] /\ photos' = [photos EXCEPT ![r] = shots]
      /\ primary' = [primary EXCEPT ![r] = Garage!FirstOf(shots)]
  BY DEF Garage!CreateCommit, Garage!Free, GarageInv, TasksOK, TaskOK
<1>1. PICK n \in 0 .. MaxRides : there = 1 .. n
  BY DEF GarageInv, RidesInOrder
<1>2. r = n + 1
  <2>1. Cardinality(1 .. n) = n
    BY FS_Interval
  <2> QED BY <1>1, <2>1, CountsAgree DEF Garage!CreateCommit
<1>3. kind[r] = Nothing
  BY <1>1, <1>2
<1>4. task[w].kind # Nothing
  BY <1>0, NullAssumption
<1>5. /\ TasksOK' /\ Slack' = Slack
      /\ Creating' = Creating \ {w} /\ \A u \in Garage!Rides : Adding(u)' = Adding(u) \ {w}
  <2>1. \A u \in Garage!Rides : kind[u] # Nothing => kind'[u] # Nothing
    BY <1>0, <1>4 DEF GarageInv, Garage!TypeOK
  <2> QED BY <1>0, <2>1, GarageEnd
<1>6. shots \in Seq(Pictures) /\ Len(shots) \in Nat /\ Len(shots) <= 1 /\ Garage!FirstOf(shots) \in Pictures \union {Nothing}
  <2>1. CASE shots = <<>>
    <3>1. Len(<<>>) = 0 /\ <<>> \in Seq(Pictures)
      OBVIOUS
    <3> QED BY <2>1, <3>1 DEF Garage!FirstOf
  <2>2. ASSUME NEW pic \in Pictures, shots = <<pic>> PROVE shots \in Seq(Pictures) /\ Len(shots) = 1 /\ Head(shots) = pic
    BY <2>2
  <2>3. ASSUME NEW pic \in Pictures, shots = <<pic>>
        PROVE  Len(shots) \in Nat /\ Len(shots) <= 1 /\ Garage!FirstOf(shots) \in Pictures \union {Nothing}
    BY <2>2, <2>3 DEF Garage!FirstOf
  <2>4. CASE shots # <<>>
    <3>1. PICK pic \in Pictures : shots = <<pic>>
      BY <2>4
    <3> QED BY <2>2, <2>3, <3>1
  <2> QED BY <2>1, <2>4
<1>7. Garage!TypeOK'
  BY <1>0, <1>6 DEF GarageInv, Garage!TypeOK
<1>8. RidesInOrder'
  <2>1. {v \in Garage!Rides : kind'[v] # Nothing} = there \union {r}
    BY <1>0, <1>4 DEF GarageInv, Garage!TypeOK
  <2>2. there \union {r} = 1 .. n + 1
    BY <1>1, <1>2
  <2>3. n + 1 \in 0 .. MaxRides
    BY <1>2, NumbersAssumption DEF Garage!Rides
  <2> QED BY <2>1, <2>2, <2>3 DEF RidesInOrder
<1>9. Slack \in Nat
  <2>1. Cardinality({w}) = 1 /\ {w} \in SUBSET Servers
    BY FS_Singleton
  <2> QED BY <2>1, FewRequests DEF Slack
<1>10. VehiclesReserved'
  <2>1. Garage!Owned' \in SUBSET (Garage!Owned \union {r})
    BY <1>0 DEF Garage!Owned, GarageInv, Garage!TypeOK
  <2>2. IsFiniteSet(Garage!Owned) /\ IsFiniteSet(Garage!Owned \union {r})
    BY FewVehicles DEF Garage!Owned
  <2>3. Cardinality(Garage!Owned \union {r}) <= Cardinality(Garage!Owned) + 1
    BY <2>2, FS_AddElement, FS_CardinalityType
  <2>4. Cardinality(Garage!Owned') <= Cardinality(Garage!Owned \union {r})
    BY <2>1, <2>2, FS_Subset
  <2>5. Cardinality(Creating') = Cardinality(Creating) - 1 /\ Cardinality(Creating) \in Nat
    BY <1>0, <1>5, OneLess DEF Creating
  <2>6. /\ Cardinality(Garage!Owned) \in Nat /\ Cardinality(Garage!Owned') \in Nat
        /\ Cardinality(Garage!Owned \union {r}) \in Nat
    BY <2>1, <2>2, FS_CardinalityType, FS_Subset
  <2> QED BY <1>5, <1>9, <2>3, <2>4, <2>5, <2>6, LimitsAssumption DEF GarageInv, VehiclesReserved
<1>11. PhotosReserved'
  <2> SUFFICES ASSUME NEW u \in Garage!Rides
               PROVE  Len(photos'[u]) + Cardinality(Adding(u)') <= MaxPhotos + Slack
    BY <1>5 DEF PhotosReserved
  <2>1. CASE u = r
    <3>1. Adding(u) = {}
      BY <1>3, <2>1 DEF Adding, GarageInv, TasksOK, RideThere
    <3>2. Adding(u)' = {}
      BY <1>5, <3>1
    <3>3. photos'[u] = shots
      BY <1>0, <2>1 DEF GarageInv, Garage!TypeOK
    <3>4. Cardinality(Adding(u)') = 0
      BY <3>2, FS_EmptySet
    <3>6. Len(photos'[u]) \in Nat /\ Len(photos'[u]) <= 1
      BY <1>6, <3>3
    <3>7. MaxPhotos + Slack >= 1 /\ MaxPhotos + Slack \in Nat
      BY <1>9, LimitsAssumption
    <3> QED BY <3>4, <3>6, <3>7
  <2>2. CASE u # r
    <3>1. Cardinality(Adding(u)') <= Cardinality(Adding(u)) /\ Cardinality(Adding(u)) \in Nat /\ Cardinality(Adding(u)') \in Nat
      BY <1>5, OneLess DEF Adding
    <3>2. photos'[u] = photos[u] /\ Len(photos[u]) \in Nat
      BY <1>0, <2>2 DEF GarageInv, Garage!TypeOK
    <3> QED BY <1>9, <3>1, <3>2, LimitsAssumption DEF GarageInv, PhotosReserved
  <2> QED BY <2>1, <2>2
<1>12. Garage!PrimaryIsFirst'
  BY <1>0 DEF GarageInv, Garage!TypeOK, Garage!PrimaryIsFirst, Garage!FirstOf
<1> QED BY <1>5, <1>7, <1>8, <1>10, <1>11, <1>12 DEF GarageInv

\* Taking one row out of a vehicle's pictures.
LEMMA WithoutType ==
  ASSUME NEW S, NEW s \in Seq(S), NEW x
  PROVE  Garage!Without(s, x) \in Seq(S) /\ Len(Garage!Without(s, x)) <= Len(s)
<1>1. CASE ~Garage!Contains(s, x)
  BY <1>1 DEF Garage!Without
<1>2. CASE Garage!Contains(s, x)
  <2> DEFINE i == CHOOSE i \in DOMAIN s : s[i] = x
  <2>1. i \in 1 .. Len(s)
    BY <1>2 DEF Garage!Contains
  <2>2. Garage!Without(s, x) = Garage!RemoveAt(s, i)
    BY <1>2 DEF Garage!Without
  <2> HIDE DEF i
  <2>3. /\ SubSeq(s, 1, i - 1) \in Seq(S) /\ Len(SubSeq(s, 1, i - 1)) = i - 1
        /\ SubSeq(s, i + 1, Len(s)) \in Seq(S) /\ Len(SubSeq(s, i + 1, Len(s))) = Len(s) - i
    BY <2>1, SubSeqProperties
  <2>4. /\ SubSeq(s, 1, i - 1) \o SubSeq(s, i + 1, Len(s)) \in Seq(S)
        /\ Len(SubSeq(s, 1, i - 1) \o SubSeq(s, i + 1, Len(s))) = (i - 1) + (Len(s) - i)
    BY <2>3, ConcatProperties
  <2>5. Garage!RemoveAt(s, i) = SubSeq(s, 1, i - 1) \o SubSeq(s, i + 1, Len(s))
    BY DEF Garage!RemoveAt
  <2>6. (i - 1) + (Len(s) - i) <= Len(s)
    BY <2>1
  <2> QED BY <2>2, <2>4, <2>5, <2>6
<1> QED BY <1>1, <1>2

\* add_photo and remove_photo: a new picture was counted for, and the vehicle's own
\* picture was found among those that are there.
LEMMA PhotoCommitKept ==
  ASSUME GarageInv, NEW w \in Servers, Garage!PhotoCommit(w)
  PROVE  GarageInv'
<1> DEFINE x == task[w]
           new == IF x.op = "add" THEN Append(photos[x.ride], x.pic) ELSE Garage!Without(photos[x.ride], x.pic)
<1>0. /\ Garage!Finish(w) /\ task[w] # Garage!Free /\ UNCHANGED <<type, kind, retired, orderly>>
      /\ x.op \in {"add", "drop"} /\ x.ride \in Garage!Rides /\ x.pic \in Pictures /\ x.first \in Pictures \union {Nothing}
      /\ primary' = [primary EXCEPT ![x.ride] = x.first] /\ FirstKnown(x)
      /\ photos' = [photos EXCEPT ![x.ride] = new]
  <2>1. x.op \in {"add", "drop"} /\ TaskOK(x) /\ FirstKnown(x)
    BY DEF Garage!PhotoCommit, GarageInv, TasksOK
  <2> QED BY <2>1 DEF Garage!PhotoCommit, Garage!Free, TaskOK
<1>1. TasksOK' /\ RidesInOrder' /\ VehiclesReserved'
  BY <1>0, NothingInserted
<1>2. /\ new \in Seq(Pictures)
      /\ Len(new) <= Len(photos[x.ride]) + (IF x.op = "add" THEN 1 ELSE 0)
  <2>1. photos[x.ride] \in Seq(Pictures)
    BY <1>0 DEF GarageInv, Garage!TypeOK
  <2>2. CASE x.op = "add"
    BY <1>0, <2>1, <2>2
  <2>3. CASE x.op # "add"
    BY <2>1, <2>3, WithoutType
  <2> QED BY <2>2, <2>3
<1>3. Slack' = Slack /\ \A r \in Garage!Rides : Adding(r)' = Adding(r) \ {w}
  BY <1>0, GarageEnd
<1>4. /\ photos'[x.ride] = new /\ \A r \in Garage!Rides \ {x.ride} : photos'[r] = photos[r]
      /\ primary'[x.ride] = x.first /\ \A r \in Garage!Rides \ {x.ride} : primary'[r] = primary[r]
  BY <1>0 DEF GarageInv, Garage!TypeOK
<1>5. Garage!TypeOK'
  BY <1>0, <1>2 DEF GarageInv, Garage!TypeOK
<1>6. Garage!PrimaryIsFirst'
  BY <1>0, <1>4 DEF GarageInv, Garage!PrimaryIsFirst, FirstKnown, Garage!FirstOf
<1>7. PhotosReserved'
  <2> SUFFICES ASSUME NEW r \in Garage!Rides
               PROVE  Len(photos'[r]) + Cardinality(Adding(r)') <= MaxPhotos + Slack
    BY <1>3 DEF PhotosReserved
  <2>0. /\ Cardinality(Adding(r)) \in Nat /\ Cardinality(Adding(r)') \in Nat
        /\ Cardinality(Adding(r)') = (IF w \in Adding(r) THEN Cardinality(Adding(r)) - 1 ELSE Cardinality(Adding(r)))
        /\ Len(photos[r]) \in Nat /\ Len(photos'[r]) \in Nat /\ Slack \in Int
    <3>1. Adding(r) \in SUBSET Servers
      BY DEF Adding
    <3>2. Len(photos[r]) \in Nat /\ Len(photos'[r]) \in Nat
      BY <1>5 DEF GarageInv, Garage!TypeOK
    <3>3. Slack \in Int
      BY FewRequests DEF Slack
    <3> QED BY <1>3, <3>1, <3>2, <3>3, OneLess
  <2>1. Len(photos[r]) + Cardinality(Adding(r)) <= MaxPhotos + Slack
    BY DEF GarageInv, PhotosReserved
  <2>2. CASE r = x.ride /\ x.op = "add"
    <3>1. w \in Adding(r)
      BY <2>2 DEF Adding
    <3>2. Len(photos'[r]) <= Len(photos[r]) + 1
      BY <1>2, <1>4, <2>2
    <3> HIDE DEF x, new
    <3> QED BY <2>0, <2>1, <3>1, <3>2, LimitsAssumption
  <2>3. CASE ~(r = x.ride /\ x.op = "add")
    <3>1. Len(photos'[r]) <= Len(photos[r])
      <4>1. CASE r = x.ride
        <5>1. photos'[r] = new /\ x.op # "add"
          BY <1>4, <2>3, <4>1
        <5>2. Len(new) <= Len(photos[r]) + 0
          BY <1>2, <4>1, <5>1
        <5> HIDE DEF new
        <5> QED BY <2>0, <5>1, <5>2
      <4>2. CASE r # x.ride
        BY <1>4, <2>0, <4>2
      <4> QED BY <4>1, <4>2
    <3> HIDE DEF x, new
    <3> QED BY <2>0, <2>1, <3>1, LimitsAssumption
  <2> QED BY <2>2, <2>3
<1> QED BY <1>1, <1>5, <1>6, <1>7 DEF GarageInv

\* The checks before a request counts itself in.
LEMMA CheckKept ==
  ASSUME GarageInv, NEW w \in Servers, NEW k \in Types,
         \/ Garage!CreateCheck(w, k) \/ Garage!DeleteTypeCheck(w, k)
         \/ \E r \in Garage!Rides : Garage!UpdateCheck(w, r, k)
  PROVE  GarageInv'
<1> DEFINE create == [op |-> "create", kind |-> k]
           scrap  == [op |-> "scrap", kind |-> k]
<1>1. CASE Garage!CreateCheck(w, k)
  <2>1. TaskOK(create) /\ create # Garage!Free /\ RideThere(create) /\ FirstKnown(create)
    BY DEF TaskOK, Garage!Free, RideThere, FirstKnown
  <2>2. Cardinality(Garage!Owned) < MaxVehicles
    BY <1>1, CountsAgree DEF Garage!CreateCheck, Garage!Room
  <2>3. /\ Garage!Start(w, create) /\ UNCHANGED <<type, kind, retired, photos, primary, orderly>>
        /\ create.op = "create"
    BY <1>1 DEF Garage!CreateCheck
  <2> HIDE DEF create
  <2> QED BY <2>1, <2>2, <2>3, GarageStart
<1>2. ASSUME NEW r \in Garage!Rides, Garage!UpdateCheck(w, r, k) PROVE GarageInv'
  <2> DEFINE update == [op |-> "update", ride |-> r, kind |-> k]
  <2>1. TaskOK(update) /\ update # Garage!Free /\ FirstKnown(update) /\ update.op = "update"
    BY DEF TaskOK, Garage!Free, FirstKnown
  <2>2. RideThere(update)
    BY <1>2 DEF RideThere, Garage!UpdateCheck, Garage!Owned
  <2>3. Garage!Start(w, update) /\ UNCHANGED <<type, kind, retired, photos, primary, orderly>>
    BY <1>2 DEF Garage!UpdateCheck
  <2> HIDE DEF update
  <2> QED BY <2>1, <2>2, <2>3, GarageStart
<1>3. CASE Garage!DeleteTypeCheck(w, k)
  <2>1. TaskOK(scrap) /\ scrap # Garage!Free /\ RideThere(scrap) /\ FirstKnown(scrap) /\ scrap.op = "scrap"
    BY DEF TaskOK, Garage!Free, RideThere, FirstKnown
  <2>2. Garage!Start(w, scrap) /\ UNCHANGED <<type, kind, retired, photos, primary, orderly>>
    BY <1>3 DEF Garage!DeleteTypeCheck
  <2> HIDE DEF scrap
  <2> QED BY <2>1, <2>2, GarageStart
<1> QED BY <1>1, <1>2, <1>3

\* A request for a picture finds its vehicle, and the picture that will be the first.
LEMMA PhotoCheckKept ==
  ASSUME GarageInv, NEW w \in Servers, NEW r \in Pictured, NEW pic \in Pictures,
         Garage!AddPhotoCheck(w, r, pic) \/ Garage!RemovePhotoCheck(w, r, pic)
  PROVE  GarageInv'
<1> DEFINE add  == [op |-> "add", ride |-> r, pic |-> pic, first |-> Garage!FirstOf(Append(photos[r], pic))]
           drop == [op |-> "drop", ride |-> r, pic |-> pic, first |-> Garage!FirstOf(Garage!Without(photos[r], pic))]
<1>1. r \in Garage!Rides /\ kind[r] # Nothing /\ photos[r] \in Seq(Pictures)
  BY DEF Garage!AddPhotoCheck, Garage!RemovePhotoCheck, Garage!Owned, GarageInv, Garage!TypeOK
<1>2. ASSUME NEW s \in Seq(Pictures) PROVE Garage!FirstOf(s) \in Pictures \union {Nothing}
  BY <1>2 DEF Garage!FirstOf
<1>3. CASE Garage!AddPhotoCheck(w, r, pic)
  <2>1. add.first \in Pictures \union {Nothing}
    <3>1. Append(photos[r], pic) \in Seq(Pictures)
      BY <1>1
    <3> QED BY <1>2, <3>1
  <2>2. TaskOK(add) /\ add # Garage!Free /\ RideThere(add) /\ FirstKnown(add)
    BY <1>1, <2>1 DEF TaskOK, Garage!Free, RideThere, FirstKnown
  <2>3. /\ Garage!Start(w, add) /\ UNCHANGED <<type, kind, retired, photos, primary, orderly>>
        /\ add.op = "add" /\ Len(photos[add.ride]) < MaxPhotos
    BY <1>3 DEF Garage!AddPhotoCheck, Garage!Room
  <2> HIDE DEF add
  <2> QED BY <2>2, <2>3, GarageStart
<1>4. CASE Garage!RemovePhotoCheck(w, r, pic)
  <2>1. drop.first \in Pictures \union {Nothing}
    BY <1>1, <1>2, WithoutType
  <2>2. TaskOK(drop) /\ drop # Garage!Free /\ RideThere(drop) /\ FirstKnown(drop) /\ drop.op = "drop"
    BY <1>1, <2>1 DEF TaskOK, Garage!Free, RideThere, FirstKnown
  <2>3. Garage!Start(w, drop) /\ UNCHANGED <<type, kind, retired, photos, primary, orderly>>
    BY <1>4 DEF Garage!RemovePhotoCheck
  <2> HIDE DEF drop
  <2> QED BY <2>2, <2>3, GarageStart
<1> QED BY <1>3, <1>4

\* A vehicle leaves the driver's list.
LEMMA RetireKept ==
  ASSUME GarageInv, NEW r \in Garage!Rides, Garage!Retire(r)
  PROVE  GarageInv'
<1>0. UNCHANGED <<type, kind, photos, primary, task, orderly>> /\ retired' = retired \union {r}
  BY DEF Garage!Retire
<1>1. Garage!TypeOK' /\ TasksOK' /\ RidesInOrder' /\ Garage!PrimaryIsFirst' /\ PhotosReserved'
  BY <1>0 DEF GarageInv, Garage!TypeOK, TasksOK, TaskOK, RideThere, FirstKnown, Busy, RidesInOrder,
     Garage!PrimaryIsFirst, Garage!FirstOf, PhotosReserved, Adding, Slack
<1>2. VehiclesReserved'
  <2>1. Garage!Owned' \in SUBSET Garage!Owned /\ Creating' = Creating /\ Slack' = Slack
    BY <1>0 DEF Garage!Owned, Creating, Slack
  <2>2. /\ IsFiniteSet(Garage!Owned) /\ Cardinality(Garage!Owned) \in Nat /\ Cardinality(Garage!Owned') \in Nat
        /\ Cardinality(Creating) \in Nat /\ Slack \in Int
    <3>1. Garage!Owned \in SUBSET Garage!Rides /\ Creating \in SUBSET Servers
      BY DEF Garage!Owned, Creating
    <3>2. Garage!Owned' \in SUBSET Garage!Rides
      BY <2>1, <3>1
    <3>3. Slack \in Int
      BY FewRequests DEF Slack
    <3> QED BY <3>1, <3>2, <3>3, FewVehicles, FewRequests
  <2>3. Cardinality(Garage!Owned') <= Cardinality(Garage!Owned)
    BY <2>1, <2>2, FS_Subset
  <2> QED BY <2>1, <2>2, <2>3, LimitsAssumption DEF GarageInv, VehiclesReserved
<1> QED BY <1>1, <1>2 DEF GarageInv

\* The company switches a type, or nothing happens to the vehicles.
LEMMA TypeKept ==
  ASSUME GarageInv, UNCHANGED garage \/ \E k \in Types : Garage!SetTypeStatus(k)
  PROVE  GarageInv'
<1>1. UNCHANGED <<kind, retired, photos, primary, task, orderly>>
  BY DEF garage, Garage!SetTypeStatus
<1>2. type' \in [Types -> Garage!TypeStatus]
  BY DEF garage, Garage!SetTypeStatus, GarageInv, Garage!TypeOK, Garage!TypeStatus
<1>3. Garage!Owned' = Garage!Owned /\ Creating' = Creating /\ Slack' = Slack /\ \A r \in Garage!Rides : Adding(r)' = Adding(r)
  BY <1>1 DEF Garage!Owned, Creating, Slack, Adding
<1> QED BY <1>1, <1>2, <1>3 DEF GarageInv, Garage!TypeOK, TasksOK, TaskOK, RideThere, FirstKnown, Busy, RidesInOrder,
    Garage!PrimaryIsFirst, Garage!FirstOf, PhotosReserved, VehiclesReserved

\* Every step of the vehicles.
LEMMA GarageHolds == GarageInv /\ (Garage!Next \/ UNCHANGED garage) => GarageInv'
<1> SUFFICES ASSUME GarageInv, Garage!Next \/ UNCHANGED garage PROVE GarageInv'
  OBVIOUS
<1>1. ASSUME NEW w \in Servers, Garage!Clerk(w) PROVE GarageInv'
  <2> USE <1>1
  <2>1. ASSUME NEW k \in Types,
               \/ Garage!CreateCheck(w, k) \/ Garage!DeleteTypeCheck(w, k)
               \/ \E r \in Garage!Rides : Garage!UpdateCheck(w, r, k)
        PROVE  GarageInv'
    BY <2>1, CheckKept
  <2> QED BY <2>1, CreateCommitKept, PhotoCheckKept, PhotoCommitKept, GarageAnswer DEF Garage!Clerk
<1>2. ASSUME NEW r \in Garage!Rides, Garage!Retire(r) PROVE GarageInv'
  BY <1>2, RetireKept
<1>3. CASE UNCHANGED garage \/ \E k \in Types : Garage!SetTypeStatus(k)
  BY <1>3, TypeKept
<1> QED BY <1>1, <1>2, <1>3 DEF Garage!Next

\* GarageInv holds of the specification.
LEMMA GarageInductive == Spec => []GarageInv
<1>1. GarageInv /\ [DriverNext]_<<part, driver>> => GarageInv'
  BY GarageSteps, GarageHolds
<1> QED BY <1>1, GarageInit, DriverBegins, DriverSteps, PTL DEF Spec

\* The columns of an account, its documents, its vehicles and their pictures hold what
\* their choices allow, whatever the requests do to each other.
THEOREM ColumnsTyped == Spec => []TypeOK
<1>1. PapersInv /\ GarageInv => TypeOK
  BY DEF PapersInv, GarageInv, TypeOK
<1> QED BY <1>1, PapersHold, GarageInductive, PTL

\* create and add_photo: requests that count at the same moment overshoot a limit by no
\* more than one for every further process that serves them; _sync_primary: while requests
\* do not overlap, Vehicle.photo_url is the oldest picture the vehicle still has.
THEOREM LimitsHold == Spec => []GarageKept
<1>1. ASSUME GarageInv PROVE Cardinality(Garage!Owned) <= MaxVehicles + Slack
  <2>1. Cardinality(Garage!Owned) \in Nat /\ Cardinality(Creating) \in Nat /\ Slack \in Int
    BY FewVehicles, FewRequests DEF Garage!Owned, Creating, Slack
  <2> QED BY <1>1, <2>1, LimitsAssumption DEF GarageInv, VehiclesReserved
<1>2. ASSUME GarageInv, NEW r \in Garage!Rides PROVE Len(photos[r]) <= MaxPhotos + Slack
  <2>1. Cardinality(Adding(r)) \in Nat /\ Slack \in Int
    BY FewRequests DEF Adding, Slack
  <2>2. Len(photos[r]) \in Nat
    BY <1>2 DEF GarageInv, Garage!TypeOK
  <2> QED BY <1>2, <2>1, <2>2, LimitsAssumption DEF GarageInv, PhotosReserved
<1>3. Slack = (IF orderly THEN 0 ELSE Garage!Cardinality(Servers) - 1)
  BY CountsAgree DEF Slack
<1>4. GarageInv => GarageKept
  BY <1>1, <1>2, <1>3, CountsAgree DEF GarageKept, Garage!LimitsNearlyKept, GarageInv
<1> QED BY <1>4, GarageInductive, PTL

----------------------------------------------------------------------------
(* The voice note.                                                         *)

\* A step of the program is one of the recorder and its requests or leaves them alone.
LEMMA VoiceSteps == [Next]_vars => (Voice!Next /\ part' = part) \/ UNCHANGED <<part, voice>>
BY DEF Next, vars, office, DriverNext, SignInStep, SessionStep, PapersStep, GarageStep, ReportStep, VoiceStep, TeamStep,
  ApiStep, EventStep, ListStep, SeedStep, OrderStep

\* The clamp of recorder.js, done again by order_voice, changes nothing.
LEMMA ClampedOnce ==
  ASSUME NEW n \in Int
  PROVE  Voice!Clamp(n) \in Int /\ Voice!Clamp(Voice!Clamp(n)) = Voice!Clamp(n)
<1>1. MaxSeconds \in Int /\ 1 <= MaxSeconds
  BY LengthsAssumption
<1>2. \A a, b \in Int : /\ Voice!Min({a, b}) = IF a <= b THEN a ELSE b
                        /\ Voice!Max({a, b}) = IF a <= b THEN b ELSE a
  BY DEF Voice!Min, Voice!Max
<1>3. \A k \in Int : Voice!Clamp(k) = IF MaxSeconds <= k THEN MaxSeconds ELSE IF 1 <= k THEN k ELSE 1
  BY <1>1, <1>2 DEF Voice!Clamp
<1> QED BY <1>1, <1>3

\* A file and seconds that fit it.
Fits(file, seconds) == file \in Nat /\ seconds = Voice!Clamp(file)

\* While the button is pressed once at a time, what runs is the recording on the page, and
\* its chunks are the time since it began; what is on its way to the trip or arrived there
\* has the seconds of its sound.
VoiceTypes ==
  /\ tick \in Nat /\ asking \in Nat /\ opened \in Nat /\ started \in 0 .. tick
  /\ sheet.recording \in BOOLEAN /\ sheet.form \in BOOLEAN
  /\ sheet = [recording |-> sheet.recording, form |-> sheet.form, file |-> sheet.file, seconds |-> sheet.seconds]
  /\ DOMAIN dispatcher = Dispatchers

OneRecording ==
  /\ asking <= 1 /\ (asking = 1 => ~sheet.recording)
  /\ live = timers /\ live = IF sheet.recording THEN {mic} ELSE {}
  /\ sheet.recording => chunks = tick - started

SecondsFit ==
  /\ sheet.form => Fits(sheet.file, sheet.seconds)
  /\ \A d \in Dispatchers : dispatcher[d] # None /\ dispatcher[d].file # None
                              => Fits(dispatcher[d].file, dispatcher[d].seconds)
  /\ note # None => Fits(note.sound, note.seconds)

VoiceInv == VoiceTypes /\ (once => OneRecording /\ SecondsFit)

\* The recorder begins within its invariant, and each of its steps keeps it.
LEMMA VoiceInit == Init => VoiceInv
BY DEF Init, Voice!Init, VoiceInv, VoiceTypes, OneRecording, SecondsFit, Voice!Blank

\* One microphone adds its tick.
LEMMA OneMicrophone ==
  /\ \A m : Voice!Cardinality({m}) = 1
  /\ Voice!Cardinality({}) = 0
BY FS_Singleton, FS_EmptySet DEF Voice!Cardinality, Cardinality, Voice!IsFiniteSet, IsFiniteSet

\* A press, a timer, the microphone's answer, the form and the request that stores it.
LEMMA VoiceStepInv == VoiceInv /\ Voice!Next => VoiceInv'
<1> SUFFICES ASSUME VoiceInv, Voice!Next PROVE VoiceInv'
  OBVIOUS
<1> USE DEF VoiceInv, VoiceTypes, OneRecording, SecondsFit
<1>1. CASE Voice!Tick
  <2>1. VoiceTypes'
    BY <1>1 DEF Voice!Tick
  <2>2. ASSUME once, sheet.recording PROVE chunks' = chunks + 1
    BY <1>1, <2>2, OneMicrophone DEF Voice!Tick
  <2>3. once' => OneRecording'
    BY <1>1, <2>2 DEF Voice!Tick
  <2>4. once' => SecondsFit'
    BY <1>1 DEF Voice!Tick
  <2> QED BY <2>1, <2>3, <2>4
<1>2. CASE Voice!Start
  BY <1>2 DEF Voice!Start
<1>3. CASE Voice!Granted
  <2>1. VoiceTypes'
    BY <1>3 DEF Voice!Granted
  <2>2. once' => OneRecording'
    BY <1>3 DEF Voice!Granted
  <2>3. once' => SecondsFit'
    BY <1>3 DEF Voice!Granted
  <2> QED BY <2>1, <2>2, <2>3
<1>4. CASE Voice!Denied
  BY <1>4 DEF Voice!Denied
<1>5. CASE Voice!StopPressed \/ Voice!TimeUp
  <2>1. Voice!Finish /\ (once => sheet.recording)
    BY <1>5 DEF Voice!StopPressed, Voice!TimeUp
  <2>2. VoiceTypes'
    BY <2>1 DEF Voice!Finish
  <2>3. once' => OneRecording'
    BY <2>1 DEF Voice!Finish, Voice!StopAll
  <2>4. once' => SecondsFit'
    BY <2>1 DEF Voice!Finish, Fits
  <2> QED BY <2>2, <2>3, <2>4
<1>6. CASE Voice!Discard
  BY <1>6 DEF Voice!Discard
<1>7. ASSUME NEW d \in Dispatchers, Voice!Post(d) PROVE VoiceInv'
  BY <1>7 DEF Voice!Post, Voice!Blank
<1>8. ASSUME NEW d \in Dispatchers, Voice!PostRemove(d) PROVE VoiceInv'
  BY <1>8 DEF Voice!PostRemove, Voice!recorder
<1>9. ASSUME NEW d \in Dispatchers, Voice!Store(d) PROVE VoiceInv'
  <2> DEFINE upload == dispatcher[d]
  <2>1. VoiceTypes' /\ (once' => OneRecording')
    BY <1>9 DEF Voice!Store, Voice!recorder
  <2>2. upload # None /\ dispatcher' = [dispatcher EXCEPT ![d] = None] /\ UNCHANGED <<once, sheet>>
    BY <1>9 DEF Voice!Store, Voice!recorder, Voice!Free
  <2>5. \/ note' = None
        \/ upload.file # None /\ note' = [sound |-> upload.file, seconds |-> Voice!Clamp(upload.seconds)]
        \/ note' = note
    BY <1>9 DEF Voice!Store
  <2>3. ASSUME once, upload.file # None PROVE Fits(upload.file, Voice!Clamp(upload.seconds))
    BY <2>2, <2>3, ClampedOnce DEF Fits
  <2> HIDE DEF upload
  <2>4. once' => SecondsFit'
    BY <2>2, <2>3, <2>5
  <2> QED BY <2>1, <2>4
<1> QED BY <1>1, <1>2, <1>3, <1>4, <1>5, <1>6, <1>7, <1>8, <1>9 DEF Voice!Next

\* recorder.js and order_voice: while the start button is pressed once at a time, no microphone and no timer
\* runs but that of the recording on the page, and the length that is shown, sent and stored is that of the
\* sound, for any lengths and whatever was recorded or thrown away before.
THEOREM VoiceKept == Spec => [](part = "voice" => Voice!VoiceAgrees)
<1>1. VoiceInv /\ [Next]_vars => VoiceInv'
  <2>1. VoiceInv /\ UNCHANGED voice => VoiceInv'
    BY DEF voice, VoiceInv, VoiceTypes, OneRecording, SecondsFit
  <2> QED BY <2>1, VoiceSteps, VoiceStepInv
<1>2. VoiceInv => Voice!VoiceAgrees
  BY DEF VoiceInv, OneRecording, SecondsFit, Voice!VoiceAgrees, Voice!MicrophoneOff, Voice!LengthIsTheSounds, Fits
<1> QED BY <1>1, <1>2, VoiceInit, PTL DEF Spec

----------------------------------------------------------------------------
(* The team.                                                               *)

\* A step of the program is one of the team or leaves it alone.
LEMMA TeamSteps == [Next]_vars => (Team!Next /\ part' = part) \/ UNCHANGED <<part, team>>
BY DEF Next, vars, office, DriverNext, SignInStep, SessionStep, PapersStep, GarageStep, ReportStep, VoiceStep, TeamStep,
  ApiStep, EventStep, ListStep, SeedStep, OrderStep

LoginRows == [role : Team!Roles, active : BOOLEAN, superuser : BOOLEAN]

Active(u) == Team!Exists(u) /\ login[u].active

\* A form that is being saved holds a row of its login.
FormOK(f) == f.login \in Logins /\ f.row \in LoginRows

\* The save to come leaves somebody: the one it saves, or another.
LeavesSomebody(f) == f.row.active \/ \E u \in Logins \ {f.login} : Active(u)

TeamTypes ==
  /\ employer \in [Logins -> Companies]
  /\ login \in [Logins -> LoginRows \union {Out}]
  /\ DOMAIN form = Desks /\ \A d \in Desks : Team!Idle(d) \/ FormOK(form[d])

TeamInv ==
  /\ TeamTypes /\ Team!TenantsApart
  /\ inTurn => /\ \E u \in Logins : Active(u)
               /\ \A d \in Desks : Team!Idle(d) \/ LeavesSomebody(form[d])
               /\ \A d, e \in Desks : Team!Idle(d) \/ Team!Idle(e) \/ d = e

\* The team begins within its invariant.
LEMMA TeamInit == Init => TeamInv
<1> SUFFICES ASSUME Team!Init PROVE TeamInv
  BY DEF Init
<1>1. PICK root \in Logins, other \in Logins :
        login = [u \in Logins |-> IF u = root THEN Team!Login("owner", TRUE)
                                  ELSE IF u = other THEN Team!Login("owner", FALSE) ELSE Out]
  BY DEF Team!Init
<1>2. Team!Login("owner", TRUE) \in LoginRows /\ Team!Login("owner", FALSE) \in LoginRows
  BY DEF Team!Login, LoginRows, Team!Roles
<1>3. login[root] = Team!Login("owner", TRUE) /\ Team!Login("owner", TRUE).active
  BY <1>1 DEF Team!Login
<1>4. Active(root)
  BY <1>2, <1>3, OutAssumption DEF Active, Team!Exists, LoginRows, Team!Roles
<1> QED BY <1>1, <1>2, <1>4 DEF Team!Init, TeamInv, TeamTypes, Team!TenantsApart, Team!Idle

\* A page shows the company of who looks, or it is the platform's.
LEMMA OpenShows ==
  ASSUME TeamInv, NEW u \in Logins, Team!Open(u)
  PROVE  Team!TenantsApart'
<1>1. employer[u] \in Companies /\ employer[u] # All
  BY OutAssumption DEF TeamInv, TeamTypes
<1>2. page' = [of |-> employer[u], platform |-> Team!IsPlatform(u), shows |-> Team!Scope(u)]
  BY DEF Team!Open
<1>3. Team!IsPlatform(u) \/ Team!Scope(u) = {employer[u]}
  BY <1>1 DEF Team!Scope, Team!CompanyFor
<1> QED BY <1>2, <1>3 DEF Team!TenantsApart

\* Each request to the team's page, and each page that is opened, keeps it.
LEMMA TeamStepInv == TeamInv /\ Team!Next => TeamInv'
<1> SUFFICES ASSUME TeamInv, Team!Next PROVE TeamInv'
  OBVIOUS
<1> USE DEF TeamInv, TeamTypes, Team!TenantsApart, Active, Team!Exists, LeavesSomebody, Team!Idle
<1>1. ASSUME NEW u \in Logins, Team!SignIn(u) \/ Team!SignOut(u) \/ \E c \in Companies \union {All} : Team!SwitchCompany(u, c)
      PROVE  TeamInv'
  BY <1>1 DEF Team!SignIn, Team!SignOut, Team!SwitchCompany
<1>2. ASSUME NEW u \in Logins, Team!Open(u) PROVE TeamInv'
  BY <1>2, OpenShows DEF Team!Open
<1>3. ASSUME NEW d \in Desks, NEW u \in Logins, NEW v \in Logins, NEW role \in Team!Roles, NEW active_ \in BOOLEAN,
             NEW password \in BOOLEAN, Team!SaveCheck(d, u, v, role, active_, password)
      PROVE  TeamInv'
  <2> DEFINE f == [login |-> v, password |-> password,
                   row |-> [role |-> role, active |-> active_, superuser |-> login[v].superuser]]
  <2>1. login[v] \in LoginRows /\ Active(u) /\ (v = u => active_) /\ (inTurn => \A e \in Desks : Team!Idle(e))
    BY <1>3 DEF Team!SaveCheck, Team!SignedIn, Team!OwnLoginStays, Team!Alone
  <2>2. FormOK(f) /\ LeavesSomebody(f)
    BY <2>1 DEF FormOK, LoginRows
  <2>3. form' = [form EXCEPT ![d] = f] /\ UNCHANGED <<employer, login, inTurn>> /\ page' = Out
    BY <1>3 DEF Team!SaveCheck
  <2> HIDE DEF f
  <2> QED BY <2>1, <2>2, <2>3
<1>4. ASSUME NEW d \in Desks, Team!SaveWrite(d) PROVE TeamInv'
  <2>1. /\ FormOK(form[d]) /\ ~Team!Idle(d) /\ login' = [login EXCEPT ![form[d].login] = form[d].row]
        /\ form' = [form EXCEPT ![d] = Out] /\ UNCHANGED <<employer, inTurn>> /\ page' = Out
    BY <1>4 DEF Team!SaveWrite
  <2>2. inTurn => \E u \in Logins : Active(u)'
    <3>1. CASE inTurn /\ form[d].row.active
      BY <2>1, <3>1, OutAssumption DEF FormOK, LoginRows, Team!Roles
    <3>2. CASE inTurn /\ ~form[d].row.active
      BY <2>1, <3>2
    <3> QED BY <3>1, <3>2
  <2> QED BY <2>1, <2>2 DEF FormOK
<1>5. ASSUME NEW u \in Logins, NEW v \in Logins, NEW role \in Team!Roles, Team!AddLogin(u, v, role) PROVE TeamInv'
  <2>1. Team!Login(role, FALSE) \in LoginRows /\ Active(u) /\ v # u
    BY <1>5 DEF Team!Login, LoginRows, Team!AddLogin, Team!SignedIn
  <2> QED BY <1>5, <2>1 DEF Team!AddLogin, Team!Alone
<1>6. ASSUME NEW u \in Logins, NEW v \in Logins, NEW superuser \in BOOLEAN, Team!SetPlatform(u, v, superuser)
      PROVE  TeamInv'
  <2> DEFINE r == [login[v] EXCEPT !.superuser = superuser]
  <2>1. /\ login' = [login EXCEPT ![v] = r] /\ UNCHANGED <<employer, form, inTurn>> /\ page' = Out
        /\ login[v] \in LoginRows /\ Active(u) /\ (inTurn => \A e \in Desks : Team!Idle(e))
    BY <1>6 DEF Team!SetPlatform, Team!SignedIn, Team!Alone
  <2>2. r \in LoginRows /\ r.active = login[v].active
    BY <2>1 DEF LoginRows
  <2>3. r # Out
    BY <2>2, OutAssumption DEF LoginRows, Team!Roles
  <2> HIDE DEF r
  <2> QED BY <2>1, <2>2, <2>3
<1> QED BY <1>1, <1>2, <1>3, <1>4, <1>5, <1>6 DEF Team!Next

\* team_save, company_id_for and switch_company: for any number of companies, logins and desks, while requests
\* do not overlap an active login is left, and who is not the platform's sees their own company's rows only.
THEOREM TeamKept == Spec => [](part = "team" => Team!TeamHolds)
<1>1. TeamInv /\ [Next]_vars => TeamInv'
  <2>1. TeamInv /\ UNCHANGED team => TeamInv'
    BY DEF team, TeamInv, TeamTypes, Team!TenantsApart, Active, Team!Exists, LeavesSomebody, Team!Idle
  <2> QED BY <2>1, TeamSteps, TeamStepInv
<1>2. TeamInv => Team!TeamHolds
  BY DEF TeamInv, Team!TeamHolds, Team!SomebodyLeft, Active
<1> QED BY <1>1, <1>2, TeamInit, PTL DEF Spec

----------------------------------------------------------------------------
(* The orders.                                                             *)

\* A step of the program is one of the orders or leaves them alone.
LEMMA OrderSteps == [Next]_vars => (Orders!Next /\ part' = part) \/ UNCHANGED <<part, booked>>
BY DEF Next, vars, office, DriverNext, SignInStep, SessionStep, PapersStep, GarageStep, ReportStep, VoiceStep, TeamStep,
  ApiStep, EventStep, ListStep, SeedStep, OrderStep

\* A row of the table, and what may be said of how it was made.
Kept(o) == o = [asks |-> o.asks, made |-> o.made, driver |-> o.driver, customer |-> o.customer, voice |-> o.voice]

Promised(o) ==
  /\ o.asks.proof # "none" => o.asks.items
  /\ o.asks.otp => o.asks.phone
  /\ command.named = Nobody /\ o.made.by = "command" /\ o.made.quiet /\ o.made.free # {} => o.made.for \in o.made.free

\* What the command holds of a driver whose row it has read is what is so, until somebody
\* else does something.
ReadIsTrue ==
  command.step \in {"customer", "book"} /\ command.named = Nobody /\ command.since = turns /\ Orders!OnDuty # {}
    => command.driver \in Orders!OnDuty

OrdersInv ==
  /\ turns \in Nat /\ command.since \in 0 .. turns
  /\ command = [step |-> command.step, named |-> command.named, left |-> command.left, driver |-> command.driver,
                place |-> command.place, since |-> command.since]
  /\ command.named \in Couriers \union {Nobody}
  /\ order # Nobody \/ command.step \in {"save", "voice"} => Kept(order) /\ Promised(order)
  /\ ReadIsTrue

\* No order has been made yet.
LEMMA OrdersInit == Init => OrdersInv
BY DEF Init, Orders!Init, OrdersInv, ReadIsTrue

\* Whatever is stored is an order that asks for what there is.
LEMMA CreateKept ==
  ASSUME OrdersInv, NEW o \in Orders!ApiForms, NEW made, NEW p, Orders!Valid(o), Orders!Create(o, made, p),
         command'.named = command.named,
         command.named = Nobody /\ made.by = "command" /\ made.quiet /\ made.free # {} => made.for \in made.free
  PROVE  Kept(order)' /\ Promised(order)'
<1>1. PICK d : order' = Orders!Stored(o, made, d)
  BY DEF Orders!Create
<1>2. o.proof \in {"none", "list", "photos"} /\ (o.proof # "none" => o.items) /\ (o.otp => o.phone)
  BY DEF Orders!Valid, Orders!NeedsItems, Orders!ApiForms
<1> QED BY <1>1, <1>2 DEF Orders!Stored, Kept, Promised

\* TripCreateSerializer and TripViewSet.create: what passes has what it asks for.
LEMMA ApiKept ==
  ASSUME OrdersInv, NEW o \in Orders!ApiForms, NEW p \in Places, Orders!ApiOrder(o, p)
  PROVE  OrdersInv'
<1>1. Orders!Valid(o) /\ Orders!Create(o, Orders!ByApi, p) /\ turns' = turns + 1 /\ UNCHANGED <<duty, command>>
  BY DEF Orders!ApiOrder
<1>2. Orders!ByApi.by = "api"
  BY DEF Orders!ByApi
<1>3. Kept(order)' /\ Promised(order)'
  BY <1>1, <1>2, CreateKept
<1>4. turns' \in Nat /\ command.since \in 0 .. turns' /\ command.since # turns'
  BY <1>1 DEF OrdersInv
<1> QED BY <1>1, <1>3, <1>4 DEF OrdersInv, ReadIsTrue

\* A driver whose row was read as on duty, with a place, and who is free is one of those
\* the order could go to.
LEMMA UseKept ==
  ASSUME OrdersInv, NEW d \in Couriers, Orders!Use(d), UNCHANGED <<duty, taken, order, turns>>,
         command.step \notin {"save", "voice"},
         command.named = Nobody => Orders!Free(d) \/ Orders!OnDuty = {}
  PROVE  OrdersInv'
<1>1. Orders!OnDuty' = Orders!OnDuty
  BY DEF Orders!OnDuty, Orders!Free
<1>2. CASE ~duty[d].online
  BY <1>2 DEF Orders!Use, Orders!OnTo, OrdersInv, ReadIsTrue, Promised, Kept
<1>3. CASE duty[d].online
  <2>1. command' = Orders!Placed(d)
    BY <1>3 DEF Orders!Use
  <2>2. /\ command' = [step |-> command'.step, named |-> command'.named, left |-> command'.left,
                       driver |-> command'.driver, place |-> command'.place, since |-> command'.since]
        /\ command'.named = command.named /\ command'.since = turns /\ command'.driver = d
        /\ command'.step = IF duty[d].place = Nobody THEN "CommandError" ELSE "customer"
    BY <2>1 DEF Orders!Placed
  <2>3. command'.step = "customer" /\ Orders!Free(d) => d \in Orders!OnDuty
    BY <1>3, <2>2 DEF Orders!OnDuty
  <2> QED BY <1>1, <2>2, <2>3 DEF OrdersInv, ReadIsTrue, Promised, Kept
<1> QED BY <1>2, <1>3

\* book_test_trip reads a driver and writes nothing.
LEMMA PickKept ==
  ASSUME OrdersInv, Orders!PickDriver \/ Orders!AnyDriver
  PROVE  OrdersInv'
<1>1. UNCHANGED <<duty, taken, order, turns>> /\ command.step \in {"driver", "any"}
  BY DEF Orders!PickDriver, Orders!AnyDriver, Orders!Step
<1>2. CASE Orders!OnTo("any")
  BY <1>1, <1>2 DEF Orders!OnTo, OrdersInv, ReadIsTrue, Promised, Kept
<1>3. CASE \E d \in Couriers : Orders!Use(d) /\ (command.named = Nobody => Orders!Free(d) \/ Orders!OnDuty = {})
  BY <1>1, <1>3, UseKept
<1> QED BY <1>2, <1>3, UsualAssumption DEF Orders!PickDriver, Orders!AnyDriver, Orders!UsualServes, Orders!OnDuty, OrdersInv

\* book_test_trip's create_trip.
LEMMA BookKept ==
  ASSUME OrdersInv, NEW o \in Orders!CommandForms, Orders!Book(o)
  PROVE  OrdersInv'
<1>1. command.step = "book" /\ UNCHANGED <<duty, turns>>
  BY DEF Orders!Book, Orders!Step
<1>2. CASE Orders!NeedsItems(o) /\ ~o.items
  BY <1>1, <1>2 DEF Orders!Book, Orders!OnTo, OrdersInv, ReadIsTrue, Promised, Kept
<1>3. CASE ~(Orders!NeedsItems(o) /\ ~o.items)
  <2>1. o \in Orders!ApiForms /\ Orders!Valid(o)
    BY <1>3 DEF Orders!CommandForms, Orders!Valid
  <2>2. command' = [command EXCEPT !.step = "save"] /\ Orders!Create(o, Orders!ByCommand, command.place)
    BY <1>3 DEF Orders!Book, Orders!OnTo
  <2>3. /\ Orders!ByCommand.for = command.driver /\ Orders!ByCommand.free = Orders!OnDuty
        /\ Orders!ByCommand.quiet = (command.since = turns)
    BY DEF Orders!ByCommand
  <2>4. Kept(order)' /\ Promised(order)'
    BY <1>1, <2>1, <2>2, <2>3, CreateKept DEF OrdersInv, ReadIsTrue
  <2> QED BY <1>1, <2>2, <2>4 DEF OrdersInv, ReadIsTrue
<1> QED BY <1>2, <1>3

\* Its later saves: the customer, and the voice note.
LEMMA SaveKept ==
  ASSUME OrdersInv, NEW wanted \in BOOLEAN, Orders!SaveCustomer(wanted) \/ Orders!AttachVoiceNote(wanted)
  PROVE  OrdersInv'
<1>1. /\ command.step \in {"save", "voice"} /\ UNCHANGED <<duty, taken, turns>>
      /\ Kept(order) /\ Promised(order)
  BY DEF Orders!SaveCustomer, Orders!AttachVoiceNote, Orders!Step, Orders!Saves, OrdersInv
<1>2. /\ command'.named = command.named /\ command'.since = command.since
      /\ command'.step \in {"voice", "driver", "done"}
      /\ command' = [step |-> command'.step, named |-> command'.named, left |-> command'.left,
                     driver |-> command'.driver, place |-> command'.place, since |-> command'.since]
  BY DEF Orders!SaveCustomer, Orders!AttachVoiceNote, Orders!Step, Orders!Saves, OrdersInv
<1>3. order' \in {order, [order EXCEPT !.customer = wanted], [order EXCEPT !.voice = wanted]}
  BY DEF Orders!SaveCustomer, Orders!AttachVoiceNote, Orders!Saves
<1>4. Kept(order)' /\ order'.asks = order.asks /\ order'.made = order.made
  BY <1>1, <1>3 DEF Kept
<1> QED BY <1>1, <1>2, <1>4 DEF OrdersInv, ReadIsTrue, Promised

\* Every step of the API and of the command keeps what is known of the order.
LEMMA OrdersStepInv == OrdersInv /\ Orders!Next => OrdersInv'
<1> SUFFICES ASSUME OrdersInv, Orders!Next PROVE OrdersInv'
  OBVIOUS
<1>1. ASSUME NEW o \in Orders!ApiForms, NEW p \in Places, Orders!ApiOrder(o, p) PROVE OrdersInv'
  BY <1>1, ApiKept
<1>2. CASE Orders!PickDriver \/ Orders!AnyDriver
  BY <1>2, PickKept
<1>3. CASE Orders!Customer \/ Orders!Fails
  <2>1. Orders!OnDuty' = Orders!OnDuty
    BY <1>3 DEF Orders!Customer, Orders!Fails, Orders!OnDuty, Orders!Free
  <2> QED BY <1>3, <2>1 DEF Orders!Customer, Orders!Fails, Orders!Step, Orders!OnTo, OrdersInv, ReadIsTrue, Promised, Kept
<1>4. ASSUME NEW o \in Orders!CommandForms, Orders!Book(o) PROVE OrdersInv'
  BY <1>4, BookKept
<1>5. ASSUME NEW wanted \in BOOLEAN, Orders!SaveCustomer(wanted) \/ Orders!AttachVoiceNote(wanted) PROVE OrdersInv'
  BY <1>5, SaveKept
<1>6. ASSUME NEW d \in Couriers, NEW r, Orders!Turn(d, r) PROVE OrdersInv'
  BY <1>6 DEF Orders!Turn, OrdersInv, ReadIsTrue, Promised, Kept
<1> QED BY <1>1, <1>2, <1>3, <1>4, <1>5, <1>6 DEF Orders!Next

\* TripCreateSerializer.validate and book_test_trip: for any drivers and places, no order asks for proof of
\* items it does not have nor for a code that goes nowhere, and one without a named driver is placed where
\* somebody is free whenever somebody is and nothing changed since the driver was read.
THEOREM OrdersKept == Spec => [](part = "orders" => Orders!OrdersHold)
<1>1. OrdersInv /\ [Next]_vars => OrdersInv'
  <2>1. OrdersInv /\ UNCHANGED booked => OrdersInv'
    BY DEF booked, OrdersInv, ReadIsTrue, Promised, Kept, Orders!OnDuty, Orders!Free
  <2> QED BY <2>1, OrderSteps, OrdersStepInv
<1>2. OrdersInv => Orders!OrdersHold
  BY DEF OrdersInv, Promised, Orders!OrdersHold, Orders!AsksForWhatThereIs, Orders!PlacedWhereSomebodyIsFree
<1> QED BY <1>1, <1>2, OrdersInit, PTL DEF Spec

----------------------------------------------------------------------------
(* The commands.                                                           *)

\* A step of the program is one of the commands or leaves what they write alone.
LEMMA SeedSteps == [Next]_vars => (Seed!Next /\ part' = part) \/ UNCHANGED <<part, seed>>
BY DEF Next, vars, office, DriverNext, SignInStep, SessionStep, PapersStep, GarageStep, ReportStep, VoiceStep, TeamStep,
  ApiStep, EventStep, ListStep, SeedStep, OrderStep

JobRows == [command : Seed!Commands \union {"none"}, step : Nat,
            end : {"none", "done", "died", "CommandError", "IntegrityError"}]

Running(o) == job[o].command # "none" /\ job[o].end = "none"

SeedTypes ==
  /\ companies \in Nat
  /\ cards \in [1 .. FleetTypes -> {"none", "seeded", "edited"}]
  /\ drivers \in [Seed!Indexes -> {"none", "whole"}]
  /\ job \in [Operators -> JobRows] /\ \A o \in Operators : Running(o) => job[o].step # 0


\* Until two overlap, one command runs at a time.
OneRuns == clashed \/ \A o, p \in Operators : Running(o) /\ Running(p) => o = p

\* A seeded driver is whole; a plate without one is of a driver who got another number.
DriversKept ==
  \A i \in Seed!Indexes : /\ drivers[i] = "whole" => i \in plates
                          /\ drivers[i] = "none" /\ i \in plates => moved

\* What is edited stays; seed_vehicle_types has done the types before the one it is at.
CardsKept ==
  /\ edited \subseteq 1 .. FleetTypes /\ \A i \in edited : cards[i] = "edited"
  /\ \A o \in Operators, i \in 1 .. FleetTypes :
       job[o].command = "types" /\ ((job[o].end = "none" /\ i < job[o].step) \/ job[o].end = "done") => cards[i] # "none"

\* approve_driver has approved the papers before the one it is at.
PapersKept ==
  /\ signedUp \subseteq {Seed!Papers[i] : i \in DOMAIN Seed!Papers}
  /\ \A o \in Operators, i \in DOMAIN Seed!Papers :
       job[o].command = "approve" /\ ((job[o].end = "none" /\ i < job[o].step) \/ job[o].end = "done")
         => Seed!Papers[i] \in signedUp

\* seed_drivers takes two steps for a number: those before have a driver, and the one it
\* has looked for has none yet, unless somebody else was at it.
NumbersOf(o) ==
  job[o].command = "drivers" =>
    /\ job[o].end = "none" => \/ job[o].step = 1
                              \/ \E i \in Nat \ {0} : job[o].step = 2 * i
                              \/ \E i \in Seed!Indexes : /\ job[o].step = 2 * i + 1
                                                         /\ moved \/ clashed \/ drivers[i] = "none"
    /\ \A i \in Seed!Indexes : (job[o].end = "none" /\ 2 * i + 2 <= job[o].step) \/ job[o].end = "done"
                                 => moved \/ drivers[i] # "none"
    /\ job[o].end = "IntegrityError" => moved \/ clashed

NumbersKept == \A o \in Operators : NumbersOf(o)

\* bootstrap_company finds no company and makes one, and then its owner.
OwnerKept ==
  crashed \/ clashed \/
    /\ \A o \in Operators : /\ Seed!Runs(o, "bootstrap", 2) => companies = 0 /\ ~owned
                            /\ Seed!Runs(o, "bootstrap", 3) => companies = 1 /\ ~owned
    /\ companies > (IF owned THEN 1 ELSE 0) => \E o \in Operators : Seed!Runs(o, "bootstrap", 3)

SeedInv == SeedTypes /\ OneRuns /\ DriversKept /\ CardsKept /\ PapersKept /\ NumbersKept /\ OwnerKept

\* Before any command is typed.
LEMMA SeedInit == Init => SeedInv
<1> SUFFICES ASSUME Seed!Init PROVE SeedInv
  BY DEF Init
<1>1. \A o \in Operators : job[o] = [command |-> "none", step |-> 0, end |-> "none"]
  BY DEF Seed!Init, Seed!Idle
<1>2. SeedTypes
  <2>1. job \in [Operators -> JobRows]
    BY <1>1 DEF Seed!Init, JobRows
  <2> QED BY <1>1, <2>1 DEF Seed!Init, SeedTypes, Running
<1>3. OneRuns /\ NumbersKept /\ CardsKept /\ PapersKept
  BY <1>1 DEF Seed!Init, OneRuns, Running, NumbersKept, NumbersOf, CardsKept, PapersKept
<1>4. DriversKept
  BY DEF Seed!Init, DriversKept
<1>5. OwnerKept
  <2>1. companies = (IF owned THEN 1 ELSE 0)
    BY DEF Seed!Init
  <2>2. companies \in Nat
    BY DEF Seed!Init
  <2> QED BY <1>1, <2>1, <2>2 DEF OwnerKept, Seed!Runs
<1> QED BY <1>2, <1>3, <1>4, <1>5 DEF SeedInv

\* A command that runs is at a step, and has ended or not.
At(o, step, how) ==
  /\ Running(o)
  /\ job' = [job EXCEPT ![o] = [command |-> job[o].command, step |-> step, end |-> how]]

Ways == {"none", "done", "died", "CommandError", "IntegrityError"}

\* Where a command is after one of its steps, and after it ends.
LEMMA Goes ==
  ASSUME SeedTypes, NEW o \in Operators, Running(o)
  PROVE  /\ Seed!OnTo(o) => At(o, job[o].step + 1, "none")
         /\ \A how \in Ways : Seed!End(o, how) => At(o, job[o].step, how)
BY DEF SeedTypes, JobRows, Running, At, Seed!OnTo, Seed!End

\* Where a command is that begins a step.
LEMMA GoesTo ==
  ASSUME SeedTypes, NEW o \in Operators, Running(o), NEW k \in Nat, job' = [job EXCEPT ![o].step = k]
  PROVE  At(o, k, "none")
<1>1. [job[o] EXCEPT !.step = k] = [command |-> job[o].command, step |-> k, end |-> "none"]
  BY DEF SeedTypes, JobRows, Running
<1>2. job' = [job EXCEPT ![o] = [job[o] EXCEPT !.step = k]]
  OBVIOUS
<1> QED BY <1>1, <1>2 DEF At

\* What a step of a command leaves as it was.
LEMMA OthersGoOn ==
  ASSUME SeedInv, NEW o \in Operators, NEW k \in Nat \ {0}, NEW how \in Ways, At(o, k, how), clashed' = clashed
  PROVE  job' \in [Operators -> JobRows] /\ (\A p \in Operators : Running(p)' => job'[p].step # 0) /\ OneRuns'
BY DEF SeedInv, SeedTypes, JobRows, At, Ways, OneRuns, Running

\* seed_vehicle_types: what a step leaves of the fare cards.
LEMMA CardsGoOn ==
  ASSUME SeedInv, NEW o \in Operators, NEW k \in Nat \ {0}, NEW how \in Ways, At(o, k, how), edited' = edited,
         \A i \in 1 .. FleetTypes : cards'[i] = cards[i] \/ (cards[i] = "none" /\ cards'[i] # "none"),
         job[o].command = "types" => \A i \in 1 .. FleetTypes :
                                       (how = "none" /\ i < k) \/ how = "done" => i < job[o].step \/ cards'[i] # "none"
  PROVE  CardsKept'
<1>1. job[o].end = "none"
  BY DEF At, Running
<1> QED BY <1>1 DEF SeedInv, SeedTypes, JobRows, At, CardsKept

\* approve_driver: what a step leaves of the papers.
LEMMA PapersGoOn ==
  ASSUME SeedInv, NEW o \in Operators, NEW k \in Nat \ {0}, NEW how \in Ways, At(o, k, how),
         signedUp \subseteq signedUp', signedUp' \subseteq {Seed!Papers[i] : i \in DOMAIN Seed!Papers},
         job[o].command = "approve" => \A i \in DOMAIN Seed!Papers :
                                         (how = "none" /\ i < k) \/ how = "done" => i < job[o].step \/ Seed!Papers[i] \in signedUp'
  PROVE  PapersKept'
<1>1. job[o].end = "none"
  BY DEF At, Running
<1> QED BY <1>1 DEF SeedInv, SeedTypes, JobRows, At, PapersKept

\* Who is no seed_drivers leaves drivers and their numbers alone.
LEMMA NumbersGoOn ==
  ASSUME SeedInv, NEW o \in Operators, NEW k \in Nat \ {0}, NEW how \in Ways, At(o, k, how), drivers' = drivers,
         UNCHANGED <<moved, clashed>>, job[o].command # "drivers"
  PROVE  NumbersKept'
BY DEF SeedInv, SeedTypes, JobRows, At, NumbersKept, NumbersOf

\* Who is no bootstrap_company leaves companies and owners alone.
LEMMA OwnerGoesOn ==
  ASSUME SeedInv, NEW o \in Operators, NEW k \in Nat \ {0}, NEW how \in Ways, At(o, k, how),
         UNCHANGED <<companies, owned, crashed, clashed>>, job[o].command # "bootstrap"
  PROVE  OwnerKept'
<1>1. \A p \in Operators, n \in {2, 3} : Seed!Runs(p, "bootstrap", n)' <=> Seed!Runs(p, "bootstrap", n)
  BY DEF SeedInv, SeedTypes, JobRows, At, Seed!Runs
<1> QED BY <1>1 DEF SeedInv, OwnerKept


\* A command is typed.
LEMMA TypeStep ==
  ASSUME SeedInv, NEW o \in Operators, NEW c \in Seed!Commands, Seed!Type(o, c)
  PROVE  SeedInv'
<1>1. /\ job' = [job EXCEPT ![o] = [command |-> c, step |-> 1, end |-> "none"]] /\ ~Running(o)
      /\ clashed' = (clashed \/ \E p \in Operators \ {o} : Running(p))
      /\ UNCHANGED <<companies, owned, cards, drivers, plates, signedUp, edited, crashed, moved>>
  BY DEF Seed!Type, Seed!Job, Seed!rows, Running
<1>2. SeedTypes'
  BY <1>1 DEF SeedInv, SeedTypes, JobRows, Running
<1>3. OneRuns'
  BY <1>1 DEF SeedInv, SeedTypes, OneRuns, Running
<1>4. DriversKept' /\ CardsKept' /\ PapersKept'
  <2>1. DriversKept'
    BY <1>1 DEF SeedInv, DriversKept
  <2>2. CardsKept'
    BY <1>1 DEF SeedInv, SeedTypes, JobRows, CardsKept
  <2>3. PapersKept'
    BY <1>1 DEF SeedInv, SeedTypes, JobRows, PapersKept, Seed!Papers
  <2> QED BY <2>1, <2>2, <2>3
<1>5. NumbersKept'
  <2>1. clashed => clashed'
    BY <1>1
  <2>2. \A i \in Seed!Indexes : ~(2 * i + 2 <= 1)
    BY LengthsAssumption DEF Seed!Indexes
  <2>3. /\ job'[o] = [command |-> c, step |-> 1, end |-> "none"] /\ \A p \in Operators \ {o} : job'[p] = job[p]
        /\ UNCHANGED <<moved, drivers>>
    BY <1>1 DEF SeedInv, SeedTypes
  <2> QED BY <2>1, <2>2, <2>3 DEF SeedInv, NumbersKept, NumbersOf
<1>6. OwnerKept'
  <2>1. clashed => clashed'
    BY <1>1
  <2>2. \A p \in Operators, n \in {2, 3} : Seed!Runs(p, "bootstrap", n)' <=> Seed!Runs(p, "bootstrap", n)
    BY <1>1 DEF SeedInv, SeedTypes, JobRows, Seed!Runs, Running
  <2> QED BY <1>1, <2>1, <2>2 DEF SeedInv, OwnerKept
<1> QED BY <1>2, <1>3, <1>4, <1>5, <1>6 DEF SeedInv

\* A command dies.
LEMMA DieStep ==
  ASSUME SeedInv, NEW o \in Operators, Seed!Die(o)
  PROVE  SeedInv'
<1>1. /\ At(o, job[o].step, "died") /\ job[o].step \in Nat \ {0}
      /\ crashed' /\ UNCHANGED <<companies, owned, cards, drivers, plates, signedUp, edited, clashed, moved>>
  BY Goes DEF Seed!Die, Seed!rows, Running, Ways, SeedInv, SeedTypes, JobRows
<1>2. SeedTypes' /\ OneRuns'
  BY <1>1, OthersGoOn DEF SeedInv, SeedTypes, Ways
<1>3. DriversKept' /\ CardsKept' /\ PapersKept'
  BY <1>1, CardsGoOn, PapersGoOn DEF SeedInv, DriversKept, PapersKept, Ways
<1>4. NumbersKept'
  BY <1>1 DEF SeedInv, SeedTypes, JobRows, At, NumbersKept, NumbersOf
<1>5. OwnerKept'
  BY <1>1 DEF OwnerKept
<1> QED BY <1>2, <1>3, <1>4, <1>5 DEF SeedInv

\* bootstrap_company, statement by statement.
LEMMA BootstrapStep ==
  ASSUME SeedInv, NEW o \in Operators,
         Seed!BootstrapLook(o) \/ Seed!BootstrapCompany(o) \/ Seed!BootstrapOwner(o)
  PROVE  SeedInv'
<1>1. /\ job[o].command = "bootstrap" /\ Running(o) /\ job[o].step \in Nat \ {0}
      /\ UNCHANGED <<cards, drivers, plates, signedUp, edited, crashed, clashed, moved>> /\ companies' \in Nat
  BY DEF Seed!BootstrapLook, Seed!BootstrapCompany, Seed!BootstrapOwner, Seed!Runs, Seed!rows, Seed!Counters, Running,
     SeedInv, SeedTypes, JobRows
<1>2. PICK k \in Nat \ {0}, how \in Ways : At(o, k, how)
  BY <1>1, Goes DEF Seed!BootstrapLook, Seed!BootstrapCompany, Seed!BootstrapOwner, Seed!Runs, Ways, SeedInv
<1>3. SeedTypes' /\ OneRuns'
  BY <1>1, <1>2, OthersGoOn DEF SeedInv, SeedTypes
<1>4. DriversKept' /\ CardsKept' /\ PapersKept'
  BY <1>1, <1>2, CardsGoOn, PapersGoOn DEF SeedInv, DriversKept, PapersKept
<1>5. NumbersKept'
  BY <1>1, <1>2, NumbersGoOn
<1>6. OwnerKept'
  <2>1. CASE Seed!BootstrapLook(o)
    BY <2>1, <1>1, Goes DEF Seed!BootstrapLook, Seed!Runs, Seed!rows, At, Ways, SeedInv, SeedTypes, JobRows, OwnerKept
  <2>2. CASE Seed!BootstrapCompany(o)
    <3>1. Seed!Runs(o, "bootstrap", 2) /\ At(o, 3, "none") /\ companies' = companies + 1 /\ owned' = owned
      BY <2>2, <1>1, Goes DEF Seed!BootstrapCompany, Seed!Runs, SeedInv
    <3>2. CASE crashed \/ clashed
      BY <3>2, <1>1 DEF OwnerKept
    <3>3. CASE ~(crashed \/ clashed)
      <4>1. companies' = 1 /\ ~owned'
        BY <3>1, <3>3 DEF SeedInv, OwnerKept
      <4>2. Seed!Runs(o, "bootstrap", 3)' /\ \A p \in Operators : ~Seed!Runs(p, "bootstrap", 2)'
        BY <1>1, <3>1, <3>3 DEF SeedInv, SeedTypes, JobRows, OneRuns, Running, At, Seed!Runs
      <4> QED BY <4>1, <4>2 DEF OwnerKept
    <3> QED BY <3>2, <3>3
  <2>3. CASE Seed!BootstrapOwner(o)
    <3>1. Seed!Runs(o, "bootstrap", 3) /\ companies' = companies /\ owned' = TRUE /\ \E end \in Ways \ {"none"} : At(o, 3, end)
      BY <2>3, <1>1, Goes DEF Seed!BootstrapOwner, Seed!Runs, SeedInv, Ways
    <3>2. CASE crashed \/ clashed
      BY <3>2, <1>1 DEF OwnerKept
    <3>3. CASE ~(crashed \/ clashed)
      <4>1. companies' = 1 /\ owned'
        BY <3>1, <3>3 DEF SeedInv, OwnerKept
      <4>2. \A p \in Operators, n \in {2, 3} : ~Seed!Runs(p, "bootstrap", n)'
        BY <1>1, <3>1, <3>3 DEF SeedInv, SeedTypes, JobRows, OneRuns, Running, At, Seed!Runs
      <4> QED BY <4>1, <4>2 DEF OwnerKept
    <3> QED BY <3>2, <3>3
  <2> QED BY <2>1, <2>2, <2>3
<1> QED BY <1>3, <1>4, <1>5, <1>6 DEF SeedInv

\* seed_vehicle_types and the start of seed_drivers.
LEMMA CardsStep ==
  ASSUME SeedInv, NEW o \in Operators, Seed!SeedType(o) \/ Seed!SeedStart(o)
  PROVE  SeedInv'
<1>1. /\ Running(o) /\ job[o].step \in Nat \ {0}
      /\ UNCHANGED <<companies, owned, drivers, plates, signedUp, edited, crashed, clashed, moved>>
      /\ job[o].command \in {"types", "drivers"}
  BY DEF Seed!SeedType, Seed!SeedStart, Seed!Runs, Seed!Counters, Running, SeedInv, SeedTypes, JobRows
<1>2. PICK k \in Nat \ {0}, how \in Ways \ {"died", "IntegrityError"} :
        /\ At(o, k, how)
        /\ \/ how # "none" /\ cards' = cards /\ (how = "done" => job[o].command = "types" /\ job[o].step > FleetTypes)
           \/ /\ how = "none" /\ k = job[o].step + 1
              /\ \E i \in Nat : cards' = Seed!WithCard(i) /\ (job[o].command = "types" => i = job[o].step)
              /\ job[o].command = "drivers" => job[o].step = 1
  BY <1>1, Goes DEF Seed!SeedType, Seed!SeedStart, Seed!Runs, Ways, SeedInv
<1>3. SeedTypes' /\ OneRuns'
  <2>1. cards' \in [1 .. FleetTypes -> {"none", "seeded", "edited"}]
    BY <1>2 DEF SeedInv, SeedTypes, Seed!WithCard
  <2> QED BY <1>1, <1>2, <2>1, OthersGoOn DEF SeedInv, SeedTypes
<1>4. DriversKept' /\ PapersKept'
  BY <1>1, <1>2, PapersGoOn DEF SeedInv, DriversKept, PapersKept
<1>5. CardsKept'
  <2>1. \A i \in 1 .. FleetTypes : cards'[i] = cards[i] \/ (cards[i] = "none" /\ cards'[i] # "none")
    BY <1>2 DEF Seed!WithCard, SeedInv, SeedTypes
  <2>2. job[o].command = "types" => \A i \in 1 .. FleetTypes :
          (how = "none" /\ i < k) \/ how = "done" => i < job[o].step \/ cards'[i] # "none"
    <3> SUFFICES ASSUME job[o].command = "types", NEW i \in 1 .. FleetTypes, (how = "none" /\ i < k) \/ how = "done",
                        ~(i < job[o].step)
                 PROVE  cards'[i] # "none"
      OBVIOUS
    <3>1. FleetTypes \in Nat
      BY LengthsAssumption
    <3>2. how = "none" /\ i = job[o].step /\ cards' = Seed!WithCard(i)
      BY <1>1, <1>2, <3>1
    <3> QED BY <3>2 DEF Seed!WithCard, SeedInv, SeedTypes
  <2> QED BY <1>1, <1>2, <2>1, <2>2, CardsGoOn
<1>6. NumbersKept'
  <2>1. CASE job[o].command = "types"
    BY <1>1, <1>2, <2>1, NumbersGoOn
  <2>2. CASE job[o].command = "drivers"
    <3>1. how = "CommandError" \/ (how = "none" /\ k = 2)
      BY <1>2, <2>2 DEF Ways
    <3>2. 2 = 2 * 1 /\ \A i \in Seed!Indexes : ~(2 * i + 2 <= 2)
      BY LengthsAssumption DEF Seed!Indexes
    <3>3. job'[o] = [command |-> "drivers", step |-> k, end |-> how] /\ \A p \in Operators \ {o} : job'[p] = job[p]
      BY <1>2, <2>2 DEF At, SeedInv, SeedTypes
    <3> QED BY <1>1, <3>1, <3>2, <3>3 DEF SeedInv, NumbersKept, NumbersOf
  <2> QED BY <1>1, <2>1, <2>2
<1>7. OwnerKept'
  BY <1>1, <1>2, OwnerGoesOn
<1> QED BY <1>3, <1>4, <1>5, <1>6, <1>7 DEF SeedInv

\* approve_driver, one paper after the other.
LEMMA ApproveStep ==
  ASSUME SeedInv, NEW o \in Operators, Seed!Approve(o)
  PROVE  SeedInv'
<1>1. /\ Running(o) /\ job[o].step \in Nat \ {0} /\ job[o].command = "approve"
      /\ UNCHANGED <<companies, owned, cards, drivers, plates, edited, crashed, clashed, moved>>
  BY DEF Seed!Approve, Seed!Counters, Running, SeedInv, SeedTypes, JobRows
<1>2. PICK k \in Nat \ {0}, how \in {"none", "done"} :
        /\ At(o, k, how)
        /\ \/ how = "done" /\ signedUp' = signedUp /\ job[o].step > 3
           \/ how = "none" /\ k = job[o].step + 1 /\ job[o].step <= 3 /\ signedUp' = signedUp \union {Seed!Papers[job[o].step]}
  BY <1>1, Goes DEF Seed!Approve, Seed!Papers, Ways, SeedInv
<1>3. SeedTypes' /\ OneRuns'
  BY <1>1, <1>2, OthersGoOn DEF SeedInv, SeedTypes, Ways
<1>4. DriversKept' /\ CardsKept'
  BY <1>1, <1>2, CardsGoOn DEF SeedInv, DriversKept, Ways
<1>5. PapersKept'
  <2>1. DOMAIN Seed!Papers = 1 .. 3
    BY DEF Seed!Papers
  <2>2. signedUp \subseteq signedUp' /\ signedUp' \subseteq {Seed!Papers[i] : i \in DOMAIN Seed!Papers}
    BY <1>1, <1>2, <2>1 DEF SeedInv, PapersKept
  <2>3. \A i \in DOMAIN Seed!Papers : (how = "none" /\ i < k) \/ how = "done" => i < job[o].step \/ Seed!Papers[i] \in signedUp'
    BY <1>1, <1>2, <2>1
  <2> QED BY <1>1, <1>2, <2>2, <2>3, PapersGoOn DEF Ways
<1>6. NumbersKept' /\ OwnerKept'
  BY <1>1, <1>2, NumbersGoOn, OwnerGoesOn DEF Ways
<1> QED BY <1>3, <1>4, <1>5, <1>6 DEF SeedInv

\* seed_drivers looks for a number.
LEMMA LookStep ==
  ASSUME SeedInv, NEW o \in Operators, Seed!SeedLook(o)
  PROVE  SeedInv'
<1>1. /\ Running(o) /\ job[o].step \in Nat \ {0} /\ job[o].command = "drivers" /\ job[o].end = "none"
      /\ UNCHANGED <<companies, owned, cards, drivers, plates, signedUp, edited, crashed, clashed, moved>>
  BY DEF Seed!SeedLook, Seed!Seeding, Seed!rows, Seed!Counters, Running, SeedInv, SeedTypes, JobRows
<1>2. PICK i \in Nat \ {0} : job[o].step = 2 * i
  <2>1. job[o].step # 1 /\ job[o].step % 2 = 0
    BY <1>1 DEF Seed!SeedLook, Seed!Seeding
  <2>2. \A j \in Nat : (2 * j + 1) % 2 # 0
    OBVIOUS
  <2>3. Seed!Indexes \subseteq Nat
    BY DEF Seed!Indexes
  <2> QED BY <1>1, <2>1, <2>2, <2>3 DEF SeedInv, NumbersKept, NumbersOf
<1>3. Seed!Index(o) = i
  <2>1. (2 * i) \div 2 = i
    OBVIOUS
  <2> QED BY <1>2, <2>1 DEF Seed!Index
<1>4. PICK k \in Nat \ {0}, how \in {"none", "done"} :
        /\ At(o, k, how)
        /\ \/ how = "done" /\ i > SeedCount
           \/ how = "none" /\ i \in Seed!Indexes /\ k = 2 * i + 2 /\ drivers[i] # "none"
           \/ how = "none" /\ i \in Seed!Indexes /\ k = 2 * i + 1 /\ drivers[i] = "none"
  <2>1. CASE i > SeedCount
    BY <1>1, <1>2, <1>3, <2>1, Goes DEF Seed!SeedLook, SeedInv, Ways
  <2>2. CASE ~(i > SeedCount)
    <3>1. i \in Seed!Indexes
      BY <2>2, LengthsAssumption DEF Seed!Indexes
    <3>2. job' = [job EXCEPT ![o].step = @ + IF drivers[i] # "none" THEN 2 ELSE 1]
      BY <1>3, <2>2 DEF Seed!SeedLook
    <3>3. CASE drivers[i] # "none"
      <4>1. job' = [job EXCEPT ![o].step = 2 * i + 2]
        BY <1>2, <3>2, <3>3
      <4>2. 2 * i + 2 \in Nat
        OBVIOUS
      <4>3. At(o, 2 * i + 2, "none")
        BY <1>1, <4>1, <4>2, GoesTo DEF SeedInv
      <4> QED BY <3>1, <3>3, <4>2, <4>3
    <3>4. CASE drivers[i] = "none"
      <4>1. job' = [job EXCEPT ![o].step = 2 * i + 1]
        BY <1>2, <3>2, <3>4
      <4>2. 2 * i + 1 \in Nat
        OBVIOUS
      <4>3. At(o, 2 * i + 1, "none")
        BY <1>1, <4>1, <4>2, GoesTo DEF SeedInv
      <4> QED BY <3>1, <3>4, <4>2, <4>3
    <3> QED BY <3>3, <3>4
  <2> QED BY <2>1, <2>2
<1>5. SeedTypes' /\ OneRuns'
  BY <1>1, <1>4, OthersGoOn DEF SeedInv, SeedTypes, Ways
<1>6. DriversKept' /\ CardsKept' /\ PapersKept' /\ OwnerKept'
  BY <1>1, <1>4, CardsGoOn, PapersGoOn, OwnerGoesOn DEF SeedInv, DriversKept, PapersKept, Ways
<1>7. NumbersKept'
  <2>1. job'[o] = [command |-> "drivers", step |-> k, end |-> how] /\ \A p \in Operators \ {o} : job'[p] = job[p]
    BY <1>1, <1>4 DEF At, SeedInv, SeedTypes
  <2>2. \A j \in Seed!Indexes : (how = "none" /\ 2 * j + 2 <= k) \/ how = "done" => moved \/ drivers[j] # "none"
    <3> SUFFICES ASSUME NEW j \in Seed!Indexes, (how = "none" /\ 2 * j + 2 <= k) \/ how = "done"
                 PROVE  moved \/ drivers[j] # "none"
      OBVIOUS
    <3>1. j \in Nat /\ (j < i \/ (j = i /\ drivers[i] # "none"))
      BY <1>4, LengthsAssumption DEF Seed!Indexes
    <3>2. j < i => 2 * j + 2 <= 2 * i
      BY <3>1
    <3> QED BY <1>1, <1>2, <3>1, <3>2 DEF SeedInv, NumbersKept, NumbersOf
  <2>3. how = "none" => \/ k = 2 * (i + 1) /\ i + 1 \in Nat \ {0}
                        \/ i \in Seed!Indexes /\ k = 2 * i + 1 /\ drivers[i] = "none"
    BY <1>4
  <2>4. how \in {"none", "done"} /\ UNCHANGED <<drivers, moved, clashed>>
    BY <1>1, <1>4
  <2>5. \A p \in Operators \ {o} : NumbersOf(p)'
    BY <2>1, <2>4 DEF SeedInv, NumbersKept, NumbersOf
  <2>6. how = "none" => \/ \E j \in Nat \ {0} : k = 2 * j
                        \/ \E j \in Seed!Indexes : k = 2 * j + 1 /\ drivers[j] = "none"
    BY <2>3
  <2>7. NumbersOf(o)'
    BY <2>1, <2>2, <2>4, <2>6 DEF NumbersOf
  <2> QED BY <2>5, <2>7 DEF NumbersKept
<1> QED BY <1>5, <1>6, <1>7 DEF SeedInv

\* and makes the driver with it.
LEMMA OneStep ==
  ASSUME SeedInv, NEW o \in Operators, Seed!SeedOne(o)
  PROVE  SeedInv'
<1>1. /\ Running(o) /\ job[o].step \in Nat \ {0} /\ job[o].command = "drivers" /\ job[o].end = "none"
      /\ UNCHANGED <<companies, owned, cards, signedUp, edited, crashed, clashed, moved>>
  BY DEF Seed!SeedOne, Seed!Seeding, Seed!Counters, Running, SeedInv, SeedTypes, JobRows
<1>2. PICK i \in Seed!Indexes : job[o].step = 2 * i + 1 /\ (moved \/ clashed \/ drivers[i] = "none")
  <2>1. job[o].step # 1 /\ job[o].step % 2 = 1
    BY <1>1 DEF Seed!SeedOne, Seed!Seeding
  <2>2. \A j \in Nat : (2 * j) % 2 = 0
    OBVIOUS
  <2> QED BY <1>1, <2>1, <2>2 DEF SeedInv, NumbersKept, NumbersOf
<1>3. Seed!Index(o) = i /\ i \in Nat \ {0}
  <2>1. i \in Nat \ {0} /\ (2 * i + 1) \div 2 = i
    BY LengthsAssumption DEF Seed!Indexes
  <2> QED BY <1>2, <2>1 DEF Seed!Index
<1>4. PICK k \in Nat \ {0}, how \in {"none", "IntegrityError"} :
        /\ At(o, k, how)
        /\ \/ /\ how = "IntegrityError" /\ UNCHANGED <<drivers, plates>> /\ (moved \/ clashed)
           \/ /\ how = "none" /\ k = 2 * (i + 1) /\ drivers[i] = "none"
              /\ drivers' = [drivers EXCEPT ![i] = "whole"] /\ plates' = plates \union {i}
  <2>1. CASE drivers[i] # "none" \/ i \in plates
    <3>1. moved \/ clashed
      BY <1>2, <2>1 DEF SeedInv, DriversKept
    <3> QED BY <1>1, <1>3, <2>1, <3>1, Goes DEF Seed!SeedOne, Seed!AfterClash, SeedInv, Ways
  <2>2. CASE ~(drivers[i] # "none" \/ i \in plates)
    <3>1. Seed!OnTo(o) /\ drivers' = [drivers EXCEPT ![i] = "whole"] /\ plates' = plates \union {i}
      BY <1>3, <2>2 DEF Seed!SeedOne
    <3>2. At(o, 2 * (i + 1), "none")
      BY <1>1, <1>2, <1>3, <3>1, Goes DEF SeedInv
    <3> QED BY <1>3, <2>2, <3>1, <3>2
  <2> QED BY <2>1, <2>2
<1>5. SeedTypes' /\ OneRuns'
  BY <1>1, <1>4, OthersGoOn DEF SeedInv, SeedTypes, Ways
<1>6. CardsKept' /\ PapersKept' /\ OwnerKept'
  BY <1>1, <1>4, CardsGoOn, PapersGoOn, OwnerGoesOn DEF SeedInv, PapersKept, Ways
<1>7. DriversKept'
  BY <1>1, <1>4 DEF SeedInv, SeedTypes, DriversKept
<1>8. NumbersKept'
  <2>1. job'[o] = [command |-> "drivers", step |-> k, end |-> how] /\ \A p \in Operators \ {o} : job'[p] = job[p]
    BY <1>1, <1>4 DEF At, SeedInv, SeedTypes
  <2>2. \A j \in Seed!Indexes : drivers[j] # "none" => drivers'[j] # "none"
    BY <1>4 DEF SeedInv, SeedTypes
  <2>3. how = "none" => k = 2 * (i + 1) /\ i + 1 \in Nat \ {0} /\ drivers'[i] # "none"
    BY <1>3, <1>4 DEF SeedInv, SeedTypes
  <2>4. \A j \in Seed!Indexes : how = "none" /\ 2 * j + 2 <= k => moved \/ drivers'[j] # "none"
    <3> SUFFICES ASSUME NEW j \in Seed!Indexes, how = "none", 2 * j + 2 <= k
                 PROVE  moved \/ drivers'[j] # "none"
      OBVIOUS
    <3>1. j \in Nat /\ (j = i \/ 2 * j + 2 <= 2 * i + 1)
      BY <1>3, <2>3 DEF Seed!Indexes
    <3> QED BY <1>1, <1>2, <2>2, <2>3, <3>1 DEF SeedInv, NumbersKept, NumbersOf
  <2>5. \A p \in Operators \ {o} :
          job[p].command = "drivers" /\ job[p].end = "none" => moved \/ clashed \/ FALSE
    BY <1>1, <1>4 DEF SeedInv, OneRuns, Running
  <2> QED BY <1>1, <1>4, <2>1, <2>2, <2>3, <2>4, <2>5 DEF SeedInv, NumbersKept, NumbersOf
<1> QED BY <1>5, <1>6, <1>7, <1>8 DEF SeedInv

\* What people change.
LEMMA PeopleStep ==
  ASSUME SeedInv, \/ \E i \in 1 .. FleetTypes : Seed!EditCard(i)
                  \/ \E i \in Seed!Indexes : Seed!ChangeNumber(i)
  PROVE  SeedInv'
<1>1. CASE \E i \in 1 .. FleetTypes : Seed!EditCard(i)
  <2>1. PICK i \in 1 .. FleetTypes :
          /\ cards[i] # "none" /\ cards' = [cards EXCEPT ![i] = "edited"] /\ edited' = edited \union {i}
          /\ UNCHANGED <<companies, owned, drivers, plates, signedUp, job, crashed, clashed, moved>>
    BY <1>1 DEF Seed!EditCard
  <2>2. SeedTypes' /\ CardsKept'
    BY <2>1 DEF SeedInv, SeedTypes, CardsKept, Running
  <2>3. OneRuns' /\ DriversKept' /\ PapersKept' /\ NumbersKept'
    BY <2>1 DEF SeedInv, OneRuns, Running, DriversKept, PapersKept, NumbersKept, NumbersOf
  <2>4. OwnerKept'
    BY <2>1 DEF SeedInv, OwnerKept, Seed!Runs
  <2> QED BY <2>2, <2>3, <2>4 DEF SeedInv
<1>2. CASE \E i \in Seed!Indexes : Seed!ChangeNumber(i)
  <2>1. PICK i \in Seed!Indexes :
          /\ drivers' = [drivers EXCEPT ![i] = "none"] /\ moved' = TRUE
          /\ UNCHANGED <<companies, owned, cards, plates, signedUp, job, edited, crashed, clashed>>
    BY <1>2 DEF Seed!ChangeNumber
  <2>2. SeedTypes' /\ DriversKept'
    BY <2>1 DEF SeedInv, SeedTypes, DriversKept, Running
  <2>3. OneRuns' /\ CardsKept' /\ PapersKept' /\ NumbersKept'
    BY <2>1 DEF SeedInv, OneRuns, Running, CardsKept, PapersKept, NumbersKept, NumbersOf
  <2>4. OwnerKept'
    BY <2>1 DEF SeedInv, OwnerKept, Seed!Runs
  <2> QED BY <2>2, <2>3, <2>4 DEF SeedInv
<1> QED BY <1>1, <1>2

\* Every step of every command keeps the invariant.
LEMMA SeedStepInv == SeedInv /\ Seed!Next => SeedInv'
<1> SUFFICES ASSUME SeedInv, Seed!Next PROVE SeedInv'
  OBVIOUS
<1> QED BY TypeStep, DieStep, BootstrapStep, CardsStep, ApproveStep, LookStep, OneStep, PeopleStep DEF Seed!Next

\* bootstrap_company, seed_vehicle_types, seed_drivers and approve_driver: wherever commands of any number of
\* operators die and however they overlap, a seeded driver is whole; a command typed again completes what one
\* that died left, but for the two ways in which it may fail; and what people edited stays.
THEOREM SeedHolds == Spec => [](part = "seed" => Seed!SeedKept)
<1>1. SeedInv /\ [Next]_vars => SeedInv'
  <2>1. ASSUME SeedInv, UNCHANGED seed PROVE SeedInv'
    <3>1. UNCHANGED <<companies, owned, cards, drivers, plates, signedUp, job, edited, crashed, clashed, moved>>
      BY <2>1 DEF seed
    <3>2. SeedTypes' /\ OneRuns' /\ DriversKept' /\ CardsKept'
      BY <2>1, <3>1 DEF SeedInv, SeedTypes, Running, OneRuns, DriversKept, CardsKept
    <3>3. PapersKept' /\ NumbersKept' /\ OwnerKept'
      BY <2>1, <3>1 DEF SeedInv, PapersKept, NumbersKept, NumbersOf, OwnerKept, Seed!Runs
    <3> QED BY <3>2, <3>3 DEF SeedInv
  <2> QED BY <2>1, SeedSteps, SeedStepInv
<1>2. ASSUME SeedInv PROVE Seed!SeedKept
  <2>1. Seed!SeededWhole
    BY <1>2 DEF SeedInv, SeedTypes, DriversKept, Seed!SeededWhole
  <2>2. Seed!ReRunCompletes
    BY <1>2 DEF SeedInv, CardsKept, PapersKept, NumbersKept, NumbersOf, Seed!ReRunCompletes, Seed!Ended
  <2>3. Seed!OwnerFollows
    BY <1>2 DEF SeedInv, OwnerKept, Seed!OwnerFollows
  <2> QED BY <2>1, <2>2, <2>3 DEF Seed!SeedKept
<1> QED BY <1>1, <1>2, SeedInit, PTL DEF Spec

----------------------------------------------------------------------------
(* The events.                                                             *)

\* A step of the program is one of the events or leaves them alone.
LEMMA EventSteps == [Next]_vars => (Events!Next /\ part' = part) \/ UNCHANGED <<part, events>>
BY DEF Next, vars, office, DriverNext, SignInStep, SessionStep, PapersStep, GarageStep, ReportStep, VoiceStep, TeamStep,
  ApiStep, EventStep, ListStep, SeedStep, OrderStep

\* g counts how much of s the first n of t hold.
Takes(g, s, t, n) ==
  g[n] = IF n = 0 THEN 0
         ELSE IF g[n - 1] < Len(s) /\ s[g[n - 1] + 1] = t[n] THEN g[n - 1] + 1 ELSE g[n - 1]

TakesAll(g, s, t) == \A n \in 0 .. Len(t) : Takes(g, s, t, n)

\* There is such a count, and IsPart asks for its last value.
LEMMA PartTakes ==
  ASSUME NEW V, NEW s \in Seq(V), NEW t \in Seq(V)
  PROVE  \E g \in [0 .. Len(t) -> 0 .. Len(s)] : TakesAll(g, s, t) /\ (Events!IsPart(s, t) <=> g[Len(t)] = Len(s))
<1> DEFINE N == 0 .. Len(s)
           D == [x \in N \X (1 .. Len(t)) |-> IF x[1] < Len(s) /\ s[x[1] + 1] = t[x[2]] THEN x[1] + 1 ELSE x[1]]
           step(h) == [n \in 0 .. Len(t) |-> IF n = 0 THEN 0
                         ELSE IF h[n - 1] < Len(s) /\ s[h[n - 1] + 1] = t[n] THEN h[n - 1] + 1 ELSE h[n - 1]]
           take == CHOOSE h : h = step(h)
<1>1. Len(s) \in Nat /\ Len(t) \in Nat
  OBVIOUS
<1>2. D \in [N \X (1 .. Len(t)) -> N] /\ 0 \in N
  BY <1>1
<1>3. PICK g \in [0 .. Len(t) -> N] : WalksUp(g, Len(t), 0, D)
  <2> HIDE DEF D, N
  <2> QED BY <1>1, <1>2, FromTheOneBefore
<1>4. TakesAll(g, s, t)
  BY <1>1, <1>3 DEF WalksUp, TakesAll, Takes
<1>5. g = step(g)
  BY <1>1, <1>3, <1>4 DEF TakesAll, Takes
<1>6. take = step(take)
  <2> HIDE DEF step
  <2> QED BY <1>5
<1>7. \A n \in 0 .. Len(t) : take[n] = g[n]
  <2> DEFINE T == {n \in Nat : n <= Len(t) => take[n] = g[n]}
  <2>1. 0 \in T
    <3>1. take[0] = step(take)[0] /\ g[0] = step(g)[0]
      <4> HIDE DEF step, take
      <4> QED BY <1>5, <1>6
    <3> HIDE DEF take
    <3>2. step(take)[0] = 0 /\ step(g)[0] = 0
      BY <1>1
    <3> QED BY <3>1, <3>2
  <2>2. ASSUME NEW n \in Nat, n \in T PROVE n + 1 \in T
    <3>1. CASE n + 1 <= Len(t)
      <4>1. n + 1 \in 0 .. Len(t) /\ n + 1 # 0 /\ (n + 1) - 1 = n /\ take[n] = g[n]
        BY <1>1, <2>2, <3>1
      <4>2. take[n + 1] = step(take)[n + 1] /\ g[n + 1] = step(g)[n + 1]
        <5> HIDE DEF step, take
        <5> QED BY <1>5, <1>6
      <4> HIDE DEF take
      <4>3. step(take)[n + 1] = step(g)[n + 1]
        BY <4>1
      <4> QED BY <4>2, <4>3
    <3>2. CASE ~(n + 1 <= Len(t))
      BY <3>2
    <3> QED BY <3>1, <3>2
  <2> HIDE DEF T
  <2>3. Nat \subseteq T
    BY <2>1, <2>2, Induction
  <2> USE DEF T
  <2> HIDE DEF take
  <2> QED BY <2>3
<1>8. Events!IsPart(s, t) <=> take[Len(t)] = Len(s)
  BY DEF Events!IsPart
<1> HIDE DEF take
<1> QED BY <1>1, <1>3, <1>4, <1>7, <1>8

\* The count h of r is the count g of s, or one more when s is all taken.
Near(h, g, s, r, n) == h[n] = g[n] \/ (g[n] = Len(s) /\ h[n] = Len(s) + 1 /\ r # s)

\* One more element of t leaves the count of the others.
LEMMA TakesOn ==
  ASSUME NEW V, NEW s \in Seq(V), NEW t \in Seq(V), NEW x \in V,
         NEW g \in [0 .. Len(t) -> 0 .. Len(s)], TakesAll(g, s, t),
         NEW r \in Seq(V), r = s \/ r = Append(s, x),
         NEW h \in [0 .. Len(t) + 1 -> 0 .. Len(r)], TakesAll(h, r, Append(t, x))
  PROVE  \A n \in 0 .. Len(t) : Near(h, g, s, r, n)
<1> DEFINE T == {n \in Nat : n <= Len(t) => Near(h, g, s, r, n)}
<1>1. Len(s) \in Nat /\ Len(t) \in Nat /\ Len(Append(t, x)) = Len(t) + 1 /\ \A n \in 1 .. Len(t) : Append(t, x)[n] = t[n]
  OBVIOUS
<1>2. r = s \/ (r # s /\ Len(r) = Len(s) + 1 /\ \A i \in 1 .. Len(s) : r[i] = s[i])
  OBVIOUS
<1>3. 0 \in T
  BY <1>1 DEF TakesAll, Takes, Near
<1>4. ASSUME NEW n \in Nat, n \in T PROVE n + 1 \in T
  <2> SUFFICES ASSUME n + 1 <= Len(t) PROVE Near(h, g, s, r, n + 1)
    OBVIOUS
  <2>1. /\ n + 1 \in 1 .. Len(t) /\ n \in 0 .. Len(t) /\ (n + 1) - 1 = n /\ n + 1 # 0
        /\ Near(h, g, s, r, n) /\ g[n] \in 0 .. Len(s) /\ h[n] \in 0 .. Len(r) /\ Len(r) \in Nat
        /\ n + 1 \in 0 .. Len(Append(t, x)) /\ Append(t, x)[n + 1] = t[n + 1]
    <3>1. n \in 0 .. Len(t) /\ n \in 0 .. Len(t) + 1 /\ Len(r) \in Nat
      BY <1>1
    <3> QED BY <1>1, <1>4, <3>1
  <2>2. g[n + 1] = IF g[n] < Len(s) /\ s[g[n] + 1] = t[n + 1] THEN g[n] + 1 ELSE g[n]
    <3>1. n + 1 \in 0 .. Len(t)
      BY <2>1
    <3> QED BY <2>1, <3>1 DEF TakesAll, Takes
  <2>3. h[n + 1] = IF h[n] < Len(r) /\ r[h[n] + 1] = t[n + 1] THEN h[n] + 1 ELSE h[n]
    BY <1>1, <2>1 DEF TakesAll, Takes
  <2>4. CASE r = s
    BY <2>1, <2>2, <2>3, <2>4 DEF Near
  <2>5. CASE r # s
    <3>1. Len(r) = Len(s) + 1 /\ \A i \in 1 .. Len(s) : r[i] = s[i]
      BY <1>2, <2>5
    <3>2. CASE h[n] = g[n] /\ g[n] < Len(s)
      BY <1>1, <2>1, <2>2, <2>3, <3>1, <3>2 DEF Near
    <3>3. CASE g[n] = Len(s)
      BY <1>1, <2>1, <2>2, <2>3, <2>5, <3>1, <3>3 DEF Near
    <3> QED BY <1>1, <2>1, <3>2, <3>3 DEF Near
  <2> QED BY <2>4, <2>5
<1> HIDE DEF T
<1>5. Nat \subseteq T
  BY <1>3, <1>4, Induction
<1> USE DEF T
<1> QED BY <1>5

\* A part stays one when the whole grows, or both grow alike.
LEMMA PartGrows ==
  ASSUME NEW V, NEW s \in Seq(V), NEW t \in Seq(V), NEW x \in V, Events!IsPart(s, t)
  PROVE  Events!IsPart(s, Append(t, x)) /\ Events!IsPart(Append(s, x), Append(t, x))
<1>1. PICK g \in [0 .. Len(t) -> 0 .. Len(s)] : TakesAll(g, s, t) /\ g[Len(t)] = Len(s)
  BY PartTakes
<1>2. ASSUME NEW r \in Seq(V), r = s \/ r = Append(s, x) PROVE Events!IsPart(r, Append(t, x))
  <2> DEFINE u == Append(t, x)
             m == Len(t)
  <2>1. u \in Seq(V) /\ Len(u) = m + 1 /\ u[m + 1] = x /\ m \in Nat /\ Len(s) \in Nat
    OBVIOUS
  <2>2. r = s \/ (Len(r) = Len(s) + 1 /\ r[Len(s) + 1] = x)
    BY <1>2
  <2> HIDE DEF u
  <2>3. PICK h \in [0 .. m + 1 -> 0 .. Len(r)] : TakesAll(h, r, u) /\ (Events!IsPart(r, u) <=> h[m + 1] = Len(r))
    BY <2>1, <1>2, PartTakes
  <2>4. h[m] = g[m] \/ (g[m] = Len(s) /\ h[m] = Len(s) + 1 /\ r # s)
    <3>1. TakesAll(h, r, Append(t, x)) /\ h \in [0 .. Len(t) + 1 -> 0 .. Len(r)]
      BY <2>3 DEF u
    <3>2. \A n \in 0 .. Len(t) : Near(h, g, s, r, n)
      BY <1>1, <1>2, <3>1, TakesOn
    <3> QED BY <2>1, <3>2 DEF Near
  <2>5. h[m + 1] = IF h[m] < Len(r) /\ r[h[m] + 1] = x THEN h[m] + 1 ELSE h[m]
    <3>1. Takes(h, r, u, m + 1)
      BY <2>1, <2>3 DEF TakesAll
    <3> QED BY <2>1, <3>1 DEF Takes
  <2>6. h[m + 1] = Len(r)
    BY <1>1, <2>1, <2>2, <2>4, <2>5
  <2> QED BY <2>3, <2>6 DEF u
<1> QED BY <1>2

\* Nothing is part of nothing.
LEMMA NothingIsPart == Events!IsPart(<<>>, <<>>)
<1>1. <<>> \in Seq({}) /\ Len(<<>>) = 0
  OBVIOUS
<1>2. PICK g \in [0 .. 0 -> 0 .. 0] : Events!IsPart(<<>>, <<>>) <=> g[0] = 0
  BY <1>1, PartTakes
<1> QED BY <1>2

\* What a history is worth: its pushes, and an invoice for its completion.
PushedOf(h) == {n \in DOMAIN h : /\ Events!EventOf(h[n]) \in Events!Notifiable
                                 /\ \E m \in 1 .. n : h[m] \in Events!Driven}
Completes(h) == \E n \in DOMAIN h : h[n] = "completed"

\* The world heard of a trip's steps so far.
HeardOf(h) ==
  /\ Events!IsPart(topic, h)
  /\ pushed = Cardinality(PushedOf(h))
  /\ invoices = IF Completes(h) THEN 1 ELSE 0

\* A history ends with the trip's status, and goes on after each but the last.
HistoryOf(t, h) ==
  /\ h # <<>> /\ t = h[Len(h)]
  /\ \A n \in 1 .. Len(h) - 1 : h[n] # "completed"

\* create_trip tells of the booking, and then of what matching found.
Books ==
  /\ trip = Nothing /\ history = <<>>
  /\ \/ request.found = Nothing /\ request.tell = "requested" /\ HeardOf(<<>>)
     \/ request.found = Nothing /\ request.tell = Nothing /\ HeardOf(<<"requested">>)
     \/ /\ request.found \in {"assigned", "no_driver_available"}
        /\ \/ request.tell = request.found /\ HeardOf(<<"requested">>)
           \/ request.tell = Nothing /\ HeardOf(<<"requested", request.found>>)

\* A later step tells of the status it saved.
Tells ==
  /\ HistoryOf(trip, history)
  /\ \/ request.tell = Nothing /\ HeardOf(history)
     \/ /\ request.tell = trip
        /\ \E h \in Seq(Events!Statuses) : history = Append(h, trip) /\ ~Completes(h) /\ HeardOf(h)

EventTypes ==
  /\ topic \in Seq(Events!Statuses) /\ history \in Seq(Events!Statuses)
  /\ request \in Events!Requests \union {Nothing}

EventsInv ==
  /\ EventTypes
  /\ sound => CASE request = Nothing               -> /\ HeardOf(history)
                                                      /\ (trip = Nothing /\ history = <<>>) \/ HistoryOf(trip, history)
                [] request # Nothing /\ request.books  -> Books /\ ~request.failed
                [] request # Nothing /\ ~request.books -> Tells /\ ~request.failed

\* Telling of one more step, of a driver who is or was there.
LEMMA Telling ==
  ASSUME NEW h \in Seq(Events!Statuses), NEW x \in Events!Statuses, HeardOf(h), ~Completes(h),
         topic \in Seq(Events!Statuses),
         topic' = topic \/ topic' = Append(topic, x),
         pushed' = (IF /\ Events!EventOf(x) \in Events!Notifiable
                       /\ x \in Events!Driven \/ \E n \in DOMAIN h : h[n] \in Events!Driven
                    THEN pushed + 1 ELSE pushed),
         invoices' = (IF Events!EventOf(x) = "trip.completed" THEN invoices + 1 ELSE invoices)
  PROVE  HeardOf(Append(h, x))' /\ topic' \in Seq(Events!Statuses)
<1> DEFINE k == Append(h, x)
<1>1. /\ Len(h) \in Nat /\ DOMAIN h = 1 .. Len(h) /\ DOMAIN k = 1 .. Len(h) + 1 /\ k[Len(h) + 1] = x
      /\ \A n \in 1 .. Len(h) : k[n] = h[n]
  OBVIOUS
<1>2. Events!IsPart(topic', k)
  BY PartGrows DEF HeardOf
<1> HIDE DEF k
<1>3. pushed' = Cardinality(PushedOf(k))
  <2> DEFINE last == Len(h) + 1
             more == /\ Events!EventOf(x) \in Events!Notifiable
                     /\ x \in Events!Driven \/ \E n \in DOMAIN h : h[n] \in Events!Driven
  <2>1. PushedOf(k) = IF more THEN PushedOf(h) \union {last} ELSE PushedOf(h)
    <3>1. \A n \in 1 .. Len(h) : n \in PushedOf(k) <=> n \in PushedOf(h)
      BY <1>1 DEF PushedOf
    <3>2. last \in PushedOf(k) <=> more
      BY <1>1 DEF PushedOf
    <3>3. PushedOf(h) \subseteq 1 .. Len(h) /\ PushedOf(k) \subseteq 1 .. Len(h) + 1
      BY <1>1 DEF PushedOf
    <3>4. \A n \in 1 .. Len(h) + 1 : n \in 1 .. Len(h) \/ n = last
      BY <1>1
    <3>5. 1 .. Len(h) \subseteq 1 .. Len(h) + 1 /\ last \in 1 .. Len(h) + 1
      BY <1>1
    <3> HIDE DEF more, last
    <3>6. CASE more
      BY <3>1, <3>2, <3>3, <3>4, <3>5, <3>6
    <3>7. CASE ~more
      BY <3>1, <3>2, <3>3, <3>4, <3>5, <3>7
    <3> QED BY <3>6, <3>7
  <2>2. IsFiniteSet(PushedOf(h)) /\ last \notin PushedOf(h)
    <3>1. IsFiniteSet(1 .. Len(h))
      BY <1>1, FS_Interval
    <3>2. PushedOf(h) \in SUBSET (1 .. Len(h)) /\ last \notin 1 .. Len(h)
      BY <1>1 DEF PushedOf
    <3> HIDE DEF last
    <3> QED BY <3>1, <3>2, FS_Subset
  <2>3. Cardinality(PushedOf(h) \union {last}) = Cardinality(PushedOf(h)) + 1
    BY <2>2, FS_AddElement
  <2> QED BY <2>1, <2>3 DEF HeardOf
<1>4. invoices' = IF Completes(k) THEN 1 ELSE 0
  <2>1. Completes(k) <=> x = "completed"
    BY <1>1 DEF Completes
  <2>2. Events!EventOf(x) = "trip.completed" <=> x = "completed"
    BY DEF Events!EventOf, Events!Statuses, Events!Driven, Events!Ends
  <2> QED BY <2>1, <2>2 DEF HeardOf
<1>5. topic' \in Seq(Events!Statuses)
  OBVIOUS
<1> QED BY <1>2, <1>3, <1>4, <1>5 DEF HeardOf, k

\* A driver is on the trip at x, or was before.
Rides(h, x) == x \in Events!Driven \/ \E n \in DOMAIN h : h[n] \in Events!Driven

\* A process publishes what it tells of, or what it published stays.
LEMMA Notified ==
  ASSUME EventTypes, request # Nothing, Events!Notify
  PROVE  /\ topic' = topic \/ topic' = Append(topic, request.tell)
         /\ request' = [request EXCEPT !.tell = Nothing]
         /\ UNCHANGED <<sound, trip, history, retries>>
BY DEF Events!Notify, Events!Send, Events!trip, EventTypes

\* The statuses one by one; none of them is nothing.
LEMMA StatusNames ==
  /\ Events!Statuses = {"requested", "no_driver_available", "assigned", "arrived_at_pickup", "in_progress", "completed",
                        "cancelled"}
  /\ Nothing \notin Events!Statuses /\ Nothing \notin Events!Requests
BY NothingAssumption DEF Events!Statuses, Events!Driven, Events!Ends

\* Subject.notify.
LEMMA NotifyStep ==
  ASSUME EventsInv, Events!Notify
  PROVE  EventsInv'
<1>1. request \in Events!Requests /\ request # Nothing /\ request.tell \in Events!Statuses
  BY DEF EventsInv, EventTypes, Events!Notify, Events!Idle, Events!Told, Events!Requests
<1>2. /\ topic' = topic \/ topic' = Append(topic, request.tell)
      /\ request' = [request EXCEPT !.tell = Nothing]
      /\ UNCHANGED <<sound, trip, history, retries>>
  BY <1>1, Notified DEF EventsInv
<1>3. /\ request' \in Events!Requests /\ request' # Nothing /\ request'.tell = Nothing /\ request'.found = request.found
      /\ request'.books = request.books /\ request'.failed = request.failed
  BY <1>1, <1>2, StatusNames DEF Events!Requests
<1>4. EventTypes'
  BY <1>1, <1>2, <1>3 DEF EventsInv, EventTypes
<1>5. PICK x \in Events!Statuses : x = request.tell
  BY <1>1
<1>6. ASSUME NEW h \in Seq(Events!Statuses), HeardOf(h), ~Completes(h), Rides(h, x) <=> Events!HasDriver
      PROVE  HeardOf(Append(h, x))'
  <2>1. /\ pushed' = (IF /\ Events!EventOf(x) \in Events!Notifiable
                         /\ x \in Events!Driven \/ \E n \in DOMAIN h : h[n] \in Events!Driven
                      THEN pushed + 1 ELSE pushed)
        /\ invoices' = (IF Events!EventOf(x) = "trip.completed" THEN invoices + 1 ELSE invoices)
    BY <1>5, <1>6 DEF Events!Notify, Rides
  <2>2. topic \in Seq(Events!Statuses) /\ (topic' = topic \/ topic' = Append(topic, x))
    BY <1>2, <1>5 DEF EventsInv, EventTypes
  <2> QED BY <1>6, <2>1, <2>2, Telling
<1>7. ASSUME sound, request.books PROVE EventsInv'
  <2>1. Books /\ ~request.failed
    BY <1>1, <1>7 DEF EventsInv
  <2>2. history = <<>> /\ trip' = Nothing /\ history' = <<>>
    BY <1>2, <2>1 DEF Books
  <2>3. CASE x = "requested"
    <3>1. HeardOf(<<>>) /\ request.found = Nothing
      BY <1>5, <2>1, <2>3, StatusNames DEF Books
    <3>2. <<>> \in Seq(Events!Statuses) /\ ~Completes(<<>>) /\ (Rides(<<>>, x) <=> Events!HasDriver)
      BY <1>5, <2>2 DEF Completes, Rides, Events!HasDriver
    <3>3. HeardOf(Append(<<>>, x))'
      BY <1>6, <3>1, <3>2
    <3>4. HeardOf(<<"requested">>)'
      BY <2>3, <3>3
    <3>5. Books'
      BY <1>3, <2>2, <3>1, <3>4 DEF Books
    <3> QED BY <1>3, <1>4, <1>7, <2>1, <3>5 DEF EventsInv
  <2>4. CASE x # "requested"
    <3>1. HeardOf(<<"requested">>) /\ request.found = x /\ x \in {"assigned", "no_driver_available"}
      BY <1>5, <2>1, <2>4, StatusNames DEF Books
    <3>2. /\ <<"requested">> \in Seq(Events!Statuses) /\ ~Completes(<<"requested">>)
          /\ Rides(<<"requested">>, x) <=> Events!HasDriver
      <4>1. "requested" \in Events!Statuses /\ <<"requested">>[1] = "requested" /\ DOMAIN <<"requested">> = {1}
        BY StatusNames
      <4>2. ~Completes(<<"requested">>)
        BY <4>1 DEF Completes
      <4>3. Rides(<<"requested">>, x) <=> x \in Events!Driven
        BY <4>1 DEF Rides, Events!Driven
      <4>4. Events!HasDriver <=> x \in Events!Driven
        BY <1>5, <2>2 DEF Events!HasDriver
      <4> QED BY <4>1, <4>2, <4>3, <4>4
    <3>3. HeardOf(Append(<<"requested">>, x))'
      BY <1>6, <3>1, <3>2
    <3>4. Append(<<"requested">>, x) = <<"requested", x>>
      <4> DEFINE k == Append(<<"requested">>, x)
      <4>1. k \in Seq({"requested", x}) /\ Len(k) = 2 /\ k[1] = "requested" /\ k[2] = x
        OBVIOUS
      <4> HIDE DEF k
      <4>2. k = <<"requested", x>>
        BY <4>1
      <4> QED BY <4>2 DEF k
    <3>5. HeardOf(<<"requested", x>>)'
      BY <3>3, <3>4
    <3>6. Books'
      BY <1>3, <2>2, <3>1, <3>5 DEF Books
    <3> QED BY <1>3, <1>4, <1>7, <2>1, <3>6 DEF EventsInv
  <2> QED BY <2>3, <2>4
<1>8. ASSUME sound, ~request.books PROVE EventsInv'
  <2>1. Tells /\ ~request.failed
    BY <1>1, <1>8 DEF EventsInv
  <2>2. x = trip
    BY <1>1, <1>5, <2>1, StatusNames DEF Tells, Events!Notify, Events!Idle, Events!Told
  <2>3. PICK h \in Seq(Events!Statuses) : history = Append(h, x) /\ ~Completes(h) /\ HeardOf(h)
    BY <1>1, <1>5, <2>1, <2>2, StatusNames DEF Tells, Events!Notify, Events!Idle, Events!Told
  <2>4. Rides(h, x) <=> Events!HasDriver
    <3>1. /\ Len(h) \in Nat /\ DOMAIN h = 1 .. Len(h) /\ DOMAIN history = 1 .. Len(h) + 1 /\ history[Len(h) + 1] = x
          /\ \A n \in 1 .. Len(h) : history[n] = h[n]
      BY <2>3
    <3> QED BY <1>5, <3>1 DEF Rides, Events!HasDriver
  <2>8. HeardOf(Append(h, x))'
    BY <1>6, <2>3, <2>4
  <2>9. PICK k \in Seq(Events!Statuses) : k = history /\ k = Append(h, x)
    BY <2>3
  <2>10. HeardOf(k)' /\ history' = k
    BY <1>2, <2>8, <2>9
  <2>11. HeardOf(history)'
    BY <2>10
  <2>12. HistoryOf(trip, history)'
    BY <1>2, <2>1 DEF Tells, HistoryOf
  <2>13. Tells'
    BY <1>3, <2>11, <2>12 DEF Tells
  <2> QED BY <1>3, <1>4, <1>8, <2>1, <2>13 DEF EventsInv
<1> QED BY <1>1, <1>2, <1>4, <1>7, <1>8 DEF EventsInv

\* What ends a history is a status.
LEMMA EndsWith ==
  ASSUME history \in Seq(Events!Statuses), HistoryOf(trip, history)
  PROVE  trip \in Events!Statuses
<1>1. Len(history) \in Nat /\ Len(history) # 0 /\ trip = history[Len(history)]
  BY DEF HistoryOf
<1> QED BY <1>1

\* Before the trip is made, nobody has heard of it.
LEMMA EventsInit ==
  ASSUME Init
  PROVE  EventsInv
<1>1. request = Nothing /\ trip = Nothing /\ history = <<>> /\ topic = <<>> /\ pushed = 0 /\ invoices = 0
  BY DEF Init, Events!Init
<1>2. PushedOf(<<>>) = {} /\ ~Completes(<<>>) /\ Cardinality({}) = 0
  BY FS_EmptySet DEF PushedOf, Completes
<1>3. HeardOf(history)
  BY <1>1, <1>2, NothingIsPart DEF HeardOf
<1> QED BY <1>1, <1>3 DEF EventsInv, EventTypes

\* create_trip: the row, inside its transaction.
LEMMA CreateStep ==
  ASSUME EventsInv, NEW p \in Servers, Events!Create(p)
  PROVE  EventsInv'
<1>1. /\ request = Nothing /\ trip = Nothing /\ UNCHANGED <<trip, history, sound, topic, pushed, invoices>>
      /\ request' = [by |-> p, books |-> TRUE, found |-> Nothing, tell |-> "requested", failed |-> FALSE]
  BY DEF Events!Create, Events!Idle, Events!trip, Events!heard
<1>2. request' \in Events!Requests /\ request' # Nothing
  <2>1. request' \in Events!Requests
    BY <1>1, StatusNames DEF Events!Requests
  <2> QED BY <2>1, StatusNames
<1>3. EventTypes'
  BY <1>1, <1>2 DEF EventsInv, EventTypes
<1>4. ASSUME sound PROVE Books'
  <2>1. HeardOf(history) /\ history = <<>>
    BY <1>1, <1>4, StatusNames DEF EventsInv, HistoryOf, EventTypes
  <2>2. HeardOf(<<>>)'
    BY <1>1, <2>1 DEF HeardOf
  <2> QED BY <1>1, <2>1, <2>2 DEF Books
<1> QED BY <1>1, <1>2, <1>3, <1>4 DEF EventsInv

\* A later handler: the row is saved, and its message is next.
LEMMA LaterStep ==
  ASSUME EventsInv, NEW p \in Servers, NEW x \in Events!Driven \union {"no_driver_available", "cancelled"},
         Events!Step(p, x)
  PROVE  EventsInv'
<1>1. /\ request = Nothing /\ trip # Nothing /\ trip' = x /\ history' = Append(history, x) /\ x \in Events!Follows(trip)
      /\ UNCHANGED <<sound, topic, pushed, invoices>>
      /\ request' = [by |-> p, books |-> FALSE, found |-> Nothing, tell |-> x, failed |-> FALSE]
  BY DEF Events!Step, Events!Idle, Events!heard
<1>2. request' \in Events!Requests /\ request' # Nothing /\ x \in Events!Statuses
  <2>1. x \in Events!Statuses
    BY StatusNames DEF Events!Driven
  <2>2. request' \in Events!Requests
    BY <1>1, <2>1 DEF Events!Requests
  <2> QED BY <2>1, <2>2, StatusNames
<1>3. EventTypes'
  BY <1>1, <1>2 DEF EventsInv, EventTypes
<1>4. ASSUME sound PROVE Tells'
  <2>1. HeardOf(history) /\ HistoryOf(trip, history) /\ history \in Seq(Events!Statuses)
    BY <1>1, <1>4 DEF EventsInv, EventTypes
  <2>2. PICK h \in Seq(Events!Statuses) : h = history
    BY <2>1
  <2>3. Len(h) \in Nat /\ DOMAIN h = 1 .. Len(h) /\ Len(h) > 0 /\ trip = h[Len(h)] /\ history' = Append(h, x)
    BY <1>1, <2>1, <2>2 DEF HistoryOf
  <2>4. trip # "completed"
    BY <1>1 DEF Events!Follows
  <2>5. ~Completes(h)
    BY <2>1, <2>2, <2>3, <2>4 DEF HistoryOf, Completes
  <2>6. HeardOf(h)'
    BY <1>1, <2>1, <2>2 DEF HeardOf
  <2>7. HistoryOf(trip, history)'
    BY <1>1, <2>3, <2>5 DEF HistoryOf, Completes
  <2>8. request'.tell = trip'
    BY <1>1
  <2> QED BY <1>1, <2>3, <2>5, <2>6, <2>7, <2>8 DEF Tells
<1> QED BY <1>1, <1>2, <1>3, <1>4 DEF EventsInv

\* The match inside create_trip.
LEMMA MatchStep ==
  ASSUME EventsInv, NEW x \in {"assigned", "no_driver_available"}, Events!Match(x)
  PROVE  EventsInv'
<1>1. /\ request # Nothing /\ request.tell = Nothing /\ request.books /\ request.found = Nothing
      /\ request' = [request EXCEPT !.tell = x, !.found = x]
      /\ UNCHANGED <<trip, history, sound, topic, pushed, invoices>>
  BY DEF Events!Match, Events!Idle, Events!Told, Events!trip, Events!heard
<1>2. /\ request' \in Events!Requests /\ request' # Nothing /\ request'.tell = x /\ request'.found = x /\ request'.books
      /\ request'.failed = request.failed
  BY <1>1, StatusNames DEF EventsInv, EventTypes, Events!Requests, Events!Driven
<1>3. EventTypes'
  BY <1>1, <1>2 DEF EventsInv, EventTypes
<1>4. ASSUME sound PROVE Books' /\ ~request'.failed
  <2>1. HeardOf(<<"requested">>) /\ trip = Nothing /\ history = <<>> /\ ~request.failed
    BY <1>1, <1>4, StatusNames DEF EventsInv, Books
  <2>2. HeardOf(<<"requested">>)'
    BY <1>1, <2>1 DEF HeardOf
  <2> QED BY <1>1, <1>2, <2>1, <2>2 DEF Books
<1> QED BY <1>1, <1>2, <1>3, <1>4 DEF EventsInv

\* The answer of the request, after which its transaction has committed.
LEMMA AnswerStep ==
  ASSUME EventsInv, Events!Answer
  PROVE  EventsInv'
<1>1. /\ request # Nothing /\ request.tell = Nothing /\ request' = Nothing
      /\ request.books => request.found # Nothing
      /\ UNCHANGED <<sound, topic, pushed, invoices>> /\ request \in Events!Requests
      /\ IF request.books THEN trip' = request.found /\ history' = <<"requested", request.found>>
                          ELSE UNCHANGED <<trip, history>>
  BY DEF Events!Answer, Events!Idle, Events!Told, Events!heard, EventsInv, EventTypes
<1>2. EventTypes'
  <2>1. request.books => request.found \in Events!Statuses
    BY <1>1 DEF Events!Requests
  <2>2. "requested" \in Events!Statuses
    BY StatusNames
  <2>3. history' \in Seq(Events!Statuses)
    <3>1. ASSUME NEW x \in Events!Statuses PROVE <<"requested", x>> \in Seq(Events!Statuses)
      BY <2>2
    <3>2. CASE request.books
      BY <1>1, <2>1, <3>1, <3>2
    <3>3. CASE ~request.books
      BY <1>1, <3>3 DEF EventsInv, EventTypes
    <3> QED BY <3>2, <3>3
  <2> QED BY <1>1, <2>3 DEF EventsInv, EventTypes
<1>3. ASSUME sound PROVE HeardOf(history)' /\ HistoryOf(trip, history)'
  <2>1. CASE request.books
    <3>1. PICK x \in {"assigned", "no_driver_available"} : x = request.found /\ HeardOf(<<"requested", x>>)
      BY <1>1, <1>3, <2>1, StatusNames DEF EventsInv, Books, Events!Driven
    <3>2. HeardOf(<<"requested", x>>)' /\ history' = <<"requested", x>> /\ trip' = x
      BY <1>1, <2>1, <3>1 DEF HeardOf
    <3> QED BY <3>2 DEF HistoryOf
  <2>2. CASE ~request.books
    <3>1. HeardOf(history) /\ HistoryOf(trip, history)
      <4>1. Tells /\ history \in Seq(Events!Statuses)
        BY <1>1, <1>3, <2>2 DEF EventsInv, EventTypes
      <4>2. trip \in Events!Statuses
        BY <4>1, EndsWith DEF Tells
      <4> QED BY <1>1, <4>1, <4>2, StatusNames DEF Tells
    <3> QED BY <1>1, <2>2, <3>1 DEF HeardOf, HistoryOf
  <2> QED BY <2>1, <2>2
<1> QED BY <1>1, <1>2, <1>3 DEF EventsInv

\* A request that fails: its transaction takes the row back.
LEMMA FailsStep ==
  ASSUME EventsInv, Events!Fails
  PROVE  EventsInv'
<1>1. request # Nothing /\ request' = Nothing /\ UNCHANGED <<sound, topic, history>>
  BY DEF Events!Fails, Events!Idle, Events!trip, Events!heard
<1>2. ~sound
  BY <1>1 DEF Events!Fails, EventsInv
<1> QED BY <1>1, <1>2 DEF EventsInv, EventTypes

\* Every step of the handlers, the broker and the producers keeps the invariant.
LEMMA EventsStepInv ==
  ASSUME EventsInv, [Next]_vars
  PROVE  EventsInv'
<1>1. CASE UNCHANGED <<part, events>>
  BY <1>1 DEF events, EventsInv, EventTypes, HeardOf, HistoryOf, Books, Tells
<1>2. CASE Events!Next
  <2>1. ASSUME UNCHANGED <<request, trip, history, sound, topic, pushed, invoices>> PROVE EventsInv'
    BY <2>1 DEF EventsInv, EventTypes, HeardOf, HistoryOf, Books, Tells
  <2>2. ASSUME Events!Broker \/ \E p \in Servers : Events!Restart(p) PROVE EventsInv'
    BY <2>1, <2>2 DEF Events!Broker, Events!Restart, Events!trip, Events!heard
  <2> QED BY <1>2, <2>2, NotifyStep, CreateStep, LaterStep, MatchStep, AnswerStep, FailsStep DEF Events!Next
<1> QED BY <1>1, <1>2, EventSteps

\* What the world heard is what the module's properties ask.
LEMMA EventsHold ==
  ASSUME EventsInv
  PROVE  Events!EventsFollow
<1>1. SUFFICES ASSUME sound, request = Nothing PROVE Events!EventsFollow
  BY DEF Events!EventsFollow, Events!RecordsFollow, Events!NothingTakenBack, Events!Idle
<1>2. /\ HeardOf(history) /\ history \in Seq(Events!Statuses)
      /\ (trip = Nothing /\ history = <<>>) \/ HistoryOf(trip, history)
  BY <1>1 DEF EventsInv, EventTypes
<1>3. trip = "completed" <=> Completes(history)
  <2>1. CASE HistoryOf(trip, history)
    <3>1. Len(history) \in Nat /\ Len(history) # 0 /\ trip = history[Len(history)] /\ DOMAIN history = 1 .. Len(history)
      BY <1>2, <2>1 DEF HistoryOf
    <3> QED BY <2>1, <3>1 DEF HistoryOf, Completes
  <2>2. CASE trip = Nothing /\ history = <<>>
    BY <2>2, StatusNames DEF Completes
  <2> QED BY <1>2, <2>1, <2>2
<1>4. trip = "taken back" => HeardOf(<<>>)
  <2>1. "taken back" \notin Events!Statuses
    BY StatusNames
  <2>2. HistoryOf(trip, history) => trip \in Events!Statuses
    BY <1>2, EndsWith
  <2> QED BY <1>2, <2>1, <2>2
<1>5. ASSUME HeardOf(<<>>) PROVE topic = <<>> /\ pushed = 0 /\ invoices = 0
  <2>1. PushedOf(<<>>) = {} /\ ~Completes(<<>>) /\ Cardinality({}) = 0
    BY FS_EmptySet DEF PushedOf, Completes
  <2>2. topic \in Seq(Events!Statuses) /\ <<>> \in Seq(Events!Statuses)
    BY DEF EventsInv, EventTypes
  <2>3. Events!IsPart(topic, <<>>)
    BY <1>5 DEF HeardOf
  <2>4. PICK g \in [0 .. 0 -> 0 .. Len(topic)] : TakesAll(g, topic, <<>>) /\ g[0] = Len(topic)
    <3>1. Len(<<>>) = 0
      OBVIOUS
    <3> QED BY <2>2, <2>3, <3>1, PartTakes
  <2>5. g[0] = 0
    BY <2>4 DEF TakesAll, Takes
  <2> QED BY <1>5, <2>1, <2>2, <2>4, <2>5 DEF HeardOf
<1>6. Events!Cardinality(PushedOf(history)) = Cardinality(PushedOf(history))
  BY DEF Cardinality, IsFiniteSet, Events!Cardinality, Events!IsFiniteSet
<1>7. pushed = Events!Cardinality(PushedOf(history)) /\ invoices = (IF trip = "completed" THEN 1 ELSE 0)
  BY <1>2, <1>3, <1>6 DEF HeardOf
<1>8. trip = "taken back" => Events!heard = <<<<>>, 0, 0>>
  BY <1>4, <1>5 DEF Events!heard
<1>9. Events!RecordsFollow
  BY <1>2 DEF Events!RecordsFollow, HeardOf
<1>10. Events!NothingTakenBack
  BY <1>7, <1>8 DEF Events!NothingTakenBack, PushedOf
<1> QED BY <1>9, <1>10 DEF Events!EventsFollow

\* KafkaEventObserver and Subject.notify: while transactions commit, the records published
\* of a trip are statuses it had, in that order, with some left out while the broker was
\* away; the pushes and the invoice are those of what was done, however often it was
\* offered again, and a failed send never takes a trip back.
THEOREM EventsKept == Spec => [](part = "events" => Events!EventsFollow)
<1>1. Init => EventsInv
  BY EventsInit
<1>2. EventsInv /\ [Next]_vars => EventsInv'
  BY EventsStepInv
<1>3. EventsInv => (part = "events" => Events!EventsFollow)
  BY EventsHold
<1> QED BY <1>1, <1>2, <1>3, PTL DEF Spec

----------------------------------------------------------------------------
(* The lists.                                                              *)

\* A step of the program is one of the lists or leaves them alone.
LEMMA ListSteps == [Next]_vars => (Lists!Next /\ part' = part) \/ UNCHANGED <<part, lists>>
BY DEF Next, vars, office, DriverNext, SignInStep, SessionStep, PapersStep, GarageStep, ReportStep, VoiceStep, TeamStep,
  ApiStep, EventStep, ListStep, SeedStep, OrderStep

\* Cardinality, Min and sums of the module are the library's.
LEMMA ListNumbers ==
  ASSUME NEW S
  PROVE  Lists!Cardinality(S) = Cardinality(S)
BY DEF Cardinality, IsFiniteSet, Lists!Cardinality, Lists!IsFiniteSet

\* A sum of the module is the library's.
LEMMA ListSums ==
  ASSUME NEW f, NEW S
  PROVE  Lists!SumFunctionOnSet(f, S) = SumFunctionOnSet(f, S)
BY DEF SumFunctionOnSet, FoldFunctionOnSet, MapThenFoldSet, Lists!SumFunctionOnSet, Lists!FoldFunctionOnSet,
  Lists!MapThenFoldSet

\* The smaller of two numbers.
LEMMA ListMin ==
  ASSUME NEW a \in Int, NEW b \in Int
  PROVE  Lists!Min({a, b}) = IF a <= b THEN a ELSE b
BY DEF Lists!Min

\* How many rows a page holds of n, when those before it hold a.
OnPage(n, a) == IF n <= a THEN 0 ELSE IF n - a <= Size THEN n - a ELSE Size
\* How many there are from it on.
From(n, a)   == IF n <= a THEN 0 ELSE n - a

\* The rows before a page.
Before(p) == (p - 1) * Size

\* paginate: the pages hold all rows, the last of them at least one.
LEMMA PagesFit ==
  ASSUME NEW n \in Nat
  PROVE  /\ Lists!Pages(n) \in Nat \ {0}
         /\ \A p \in Nat \ {0} : p < Lists!Pages(n) <=> Before(p) + Size < n
<1> DEFINE m == n + Size - 1
           q == m \div Size
<1>1. Size \in Nat /\ Size > 0 /\ m \in Nat
  BY LengthsAssumption
<1>2. q \in Int /\ Size * q <= m /\ m < Size * q + Size
  BY <1>1
<1>3. CASE n = 0
  <2>1. \A p \in Nat \ {0} : Before(p) \in Nat
    BY <1>1 DEF Before
  <2> QED BY <1>1, <1>3, <2>1 DEF Lists!Pages
<1>4. CASE n # 0
  <2>1. Lists!Pages(n) = q
    BY <1>4 DEF Lists!Pages
  <2>2. q \in Nat /\ q # 0
    BY <1>1, <1>2, <1>4
  <2>3. ASSUME NEW p \in Nat \ {0} PROVE p < q <=> Before(p) + Size < n
    <3>1. Before(p) + Size = Size * p
      BY <1>1 DEF Before
    <3>2. p < q => Size * p + Size <= Size * q
      BY <1>1, <2>2
    <3>3. q <= p => Size * q <= Size * p
      BY <1>1, <2>2
    <3> QED BY <1>1, <1>2, <2>2, <3>1, <3>2, <3>3
  <2> QED BY <2>1, <2>2, <2>3
<1> QED BY <1>3, <1>4

NumberNames == {"orders", "delivered", "cancelled", "active", "unassigned", "over3Hours", "notDelivered", "found",
                "kyc", "expiring", "owed", "balances"}
DriverNames == {"kyc", "expiring", "owed", "balances"}

\* The rows that a number links to.
RowsOf(link) == Lists!Listed(Lists!Link(link))

Statuses == {"requested", "no_driver_available", "assigned", "arrived_at_pickup", "in_progress", "completed", "cancelled"}

PersonTypes == [online : BOOLEAN, licence : {"none", "pending", "rejected", "soon", "later"},
                report : {"none", "pending", "decided"}, balance : Int]

\* A trip has a driver while it is under way; only a trip in progress is late.
TripTypes == [status : Statuses, driver : People \union {0}, missing : Nat, late : BOOLEAN]
RowFits(r) == /\ r.status \in Lists!Active => r.driver \in People
              /\ r.status \in Lists!Waiting => r.driver = 0
              /\ r.late => r.status = "in_progress"

ListRows ==
  /\ trips \in Seq(TripTypes)
  /\ \A t \in DOMAIN trips : RowFits(trips[t])
  /\ people \in [People -> PersonTypes]
  /\ about \in {"orders", "papers", "payouts", "live"}

\* What each list holds.
LEMMA ListedSets ==
  /\ \A link \in {"orders", "notDelivered", "delivered", "cancelled", "active", "unassigned", "over3Hours", "found"} :
       Lists!Link(link).list = "orders"
  /\ \A link \in DriverNames : Lists!Link(link).list = link
  /\ \A link \in {"orders", "notDelivered", "found"} : Lists!Link(link).tab = "all"
  /\ Lists!Link("delivered").tab = "completed" /\ Lists!Link("cancelled").tab = "cancelled"
  /\ Lists!Link("active").tab = "active" /\ Lists!Link("unassigned").tab = "unassigned"
  /\ Lists!Link("over3Hours").tab = "in_progress"
  /\ \A link \in {"orders", "delivered", "cancelled", "notDelivered"} : Lists!Link(link).span = TRUE
  /\ \A link \in {"active", "unassigned", "over3Hours", "found"} : Lists!Link(link).span = FALSE
  /\ \A link \in {"orders", "delivered", "cancelled", "active", "unassigned", "over3Hours", "found"} :
       Lists!Link(link).issues = FALSE
  /\ Lists!Link("notDelivered").issues = TRUE
BY DEF Lists!Link, Lists!Orders, Lists!Drivers, DriverNames

\* The list a number of the dashboard links to.
LEMMA NumberLists ==
  ASSUME NEW link \in NumberNames
  PROVE  \/ Lists!Link(link).list = "orders" /\ link \notin DriverNames /\ Lists!Link(link).tab \in Lists!Tabs
         \/ Lists!Link(link).list = link /\ link \in DriverNames
BY ListedSets DEF NumberNames, DriverNames, Lists!Tabs

\* The rows of a list are finitely many numbers.
LEMMA RowsFinite ==
  ASSUME ListRows, NEW link \in NumberNames
  PROVE  /\ RowsOf(link) \subseteq Nat /\ IsFiniteSet(RowsOf(link)) /\ Cardinality(RowsOf(link)) \in Nat
         /\ link \notin DriverNames => RowsOf(link) \subseteq 1 .. Len(trips)
         /\ link \in DriverNames => RowsOf(link) \subseteq People
<1>1. Len(trips) \in Nat /\ DOMAIN trips = 1 .. Len(trips) /\ IsFiniteSet(1 .. Len(trips)) /\ IsFiniteSet(People)
  BY FS_Interval, RowsAssumption DEF ListRows
<1>2. CASE link \notin DriverNames
  <2>1. Lists!Link(link).list = "orders"
    BY <1>2, NumberLists
  <2>2. RowsOf(link) \subseteq 1 .. Len(trips)
    BY <1>1, <2>1 DEF RowsOf, Lists!Listed, Lists!Having, Lists!Booked
  <2> QED BY <1>1, <1>2, <2>2, FS_Subset, FS_CardinalityType
<1>3. CASE link \in DriverNames
  <2>1. Lists!Link(link).list = link
    BY <1>3, NumberLists
  <2>2. RowsOf(link) \subseteq People
    BY <1>3, <2>1 DEF RowsOf, Lists!Listed, Lists!PendingKyc, Lists!Expiring, DriverNames
  <2> QED BY <1>1, <1>3, <2>2, FS_Subset, FS_CardinalityType, RowsAssumption
<1> QED BY <1>2, <1>3

\* Sets that differ in one element at most.
LEMMA OneApart ==
  ASSUME NEW A, NEW B, IsFiniteSet(A), IsFiniteSet(B), NEW x, A \ {x} = B \ {x}
  PROVE  /\ Cardinality(A) <= Cardinality(B) + 1 /\ Cardinality(B) <= Cardinality(A) + 1
<1> DEFINE C == A \ {x}
<1>1. IsFiniteSet(C) /\ Cardinality(C) \in Nat
  BY FS_Subset, FS_CardinalityType
<1>2. Cardinality(A) = Cardinality(C) \/ Cardinality(A) = Cardinality(C) + 1
  <2>1. CASE x \in A
    BY <1>1, <2>1, FS_RemoveElement, FS_CardinalityType
  <2>2. CASE x \notin A
    <3>1. C = A
      BY <2>2
    <3> QED BY <3>1
  <2> QED BY <2>1, <2>2
<1>3. Cardinality(B) = Cardinality(C) \/ Cardinality(B) = Cardinality(C) + 1
  <2>1. CASE x \in B
    <3>1. C = B \ {x}
      OBVIOUS
    <3> HIDE DEF C
    <3> QED BY <1>1, <2>1, <3>1, FS_RemoveElement, FS_CardinalityType
  <2>2. CASE x \notin B
    <3>1. C = B
      BY <2>2
    <3> QED BY <3>1
  <2> QED BY <2>1, <2>2
<1> HIDE DEF C
<1> QED BY <1>1, <1>2, <1>3

\* A trip's next row fits too.
LEMMA NextRow ==
  ASSUME ListRows, NEW r \in TripTypes, RowFits(r), NEW q \in Lists!After(r)
  PROVE  q \in TripTypes /\ RowFits(q)
<1>1. r.driver \in People \union {0} /\ r.missing \in Nat /\ r.late \in BOOLEAN /\ r.status \in Statuses
      /\ 0 \notin People
  BY RowsAssumption DEF TripTypes
<1>2. /\ r.status \in Lists!Waiting => r.late = FALSE /\ r.driver = 0
      /\ r.status \in {"assigned", "arrived_at_pickup"} => r.late = FALSE /\ r.driver \in People
      /\ r.status = "in_progress" => r.driver \in People
  BY DEF RowFits, Lists!Active, Lists!Waiting, TripTypes
<1>3. CASE r.status \in Lists!Waiting
  <2>1. \/ \E d \in People \ Lists!Busy : q = [r EXCEPT !.status = "assigned", !.driver = d]
        \/ \E s \in (Lists!Waiting \union {"cancelled"}) \ {r.status} : q = [r EXCEPT !.status = s]
    BY <1>3 DEF Lists!After, Lists!Waiting
  <2>2. ASSUME NEW d \in People, q = [r EXCEPT !.status = "assigned", !.driver = d] PROVE q \in TripTypes /\ RowFits(q)
    BY <1>1, <1>2, <1>3, <2>2 DEF TripTypes, RowFits, Statuses, Lists!Active, Lists!Waiting
  <2>3. ASSUME NEW s \in Lists!Waiting \union {"cancelled"}, q = [r EXCEPT !.status = s] PROVE q \in TripTypes /\ RowFits(q)
    BY <1>1, <1>2, <1>3, <2>3 DEF TripTypes, RowFits, Statuses, Lists!Active, Lists!Waiting
  <2> QED BY <2>1, <2>2, <2>3
<1>4. CASE r.status \in {"assigned", "arrived_at_pickup"}
  <2>1. \E s \in {"arrived_at_pickup", "in_progress", "cancelled"} : q = [r EXCEPT !.status = s]
    BY <1>4 DEF Lists!After, Lists!Waiting
  <2>2. ASSUME NEW s \in {"arrived_at_pickup", "in_progress", "cancelled"}, q = [r EXCEPT !.status = s]
        PROVE  q \in TripTypes /\ RowFits(q)
    BY <1>1, <1>2, <1>4, <2>2 DEF TripTypes, RowFits, Statuses, Lists!Active, Lists!Waiting
  <2> QED BY <2>1, <2>2
<1>5. CASE r.status = "in_progress"
  <2>1. \/ q = [r EXCEPT !.late = TRUE]
        \/ q = [r EXCEPT !.status = "completed", !.late = FALSE]
        \/ \E m \in Nat : q = [r EXCEPT !.missing = m]
    <3>1. Lists!Min({r.missing + 1, 2}) \in Nat
      BY <1>1, ListMin
    <3>2. \/ q = [r EXCEPT !.late = TRUE]
          \/ q = [r EXCEPT !.status = "completed", !.late = FALSE]
          \/ q = [r EXCEPT !.missing = Lists!Min({r.missing + 1, 2})]
      BY <1>5 DEF Lists!After, Lists!Waiting
    <3> QED BY <3>1, <3>2
  <2>2. CASE q = [r EXCEPT !.late = TRUE]
    BY <1>1, <1>2, <1>5, <2>2 DEF TripTypes, RowFits, Statuses, Lists!Active, Lists!Waiting
  <2>3. CASE q = [r EXCEPT !.status = "completed", !.late = FALSE]
    BY <1>1, <1>2, <1>5, <2>3 DEF TripTypes, RowFits, Statuses, Lists!Active, Lists!Waiting
  <2>4. ASSUME NEW m \in Nat, q = [r EXCEPT !.missing = m] PROVE q \in TripTypes /\ RowFits(q)
    BY <1>1, <1>2, <1>5, <2>4 DEF TripTypes, RowFits, Statuses, Lists!Active, Lists!Waiting
  <2> QED BY <2>1, <2>2, <2>3, <2>4
<1>6. r.status \in Lists!Waiting \union {"assigned", "arrived_at_pickup", "in_progress"}
  BY <1>1 DEF Lists!After, Lists!Waiting, Statuses
<1> QED BY <1>3, <1>4, <1>5, <1>6

\* A list after a change has as many rows, but for one.
CloseRows == \A link \in NumberNames : /\ Cardinality(RowsOf(link)) <= Cardinality(RowsOf(link))' + 1
                                       /\ Cardinality(RowsOf(link))' <= Cardinality(RowsOf(link)) + 1

\* Lists differ by one row at most where one row was changed.
LEMMA RowsApart ==
  ASSUME ListRows, ListRows', \A link \in NumberNames : \E x \in Nat : RowsOf(link) \ {x} = RowsOf(link)' \ {x}
  PROVE  CloseRows
<1> SUFFICES ASSUME NEW link \in NumberNames
             PROVE  /\ Cardinality(RowsOf(link)) <= Cardinality(RowsOf(link))' + 1
                    /\ Cardinality(RowsOf(link))' <= Cardinality(RowsOf(link)) + 1
  BY DEF CloseRows
<1>1. PICK x \in Nat : RowsOf(link) \ {x} = RowsOf(link)' \ {x}
  OBVIOUS
<1>2. IsFiniteSet(RowsOf(link)) /\ IsFiniteSet(RowsOf(link)')
  <2>1. IsFiniteSet(RowsOf(link))
    BY RowsFinite
  <2>2. IsFiniteSet(RowsOf(link))'
    BY RowsFinite, PTL
  <2> QED BY <2>1, <2>2
<1> QED BY <1>1, <1>2, OneApart

\* A trip that changes moves in and out of lists by itself.
LEMMA MoveTripRows ==
  ASSUME ListRows, NEW t \in DOMAIN trips, Lists!MoveTrip(t)
  PROVE  ListRows' /\ CloseRows
<1>1. PICK r \in Lists!After(trips[t]) : trips' = [trips EXCEPT ![t] = r] /\ people' = people /\ about' = about
  BY DEF Lists!MoveTrip, Lists!Changing
<1>2. trips[t] \in TripTypes /\ RowFits(trips[t]) /\ DOMAIN trips' = DOMAIN trips /\ t \in Nat
      /\ DOMAIN trips = 1 .. Len(trips)
  BY <1>1 DEF ListRows
<1>3. r \in TripTypes /\ RowFits(r)
  BY <1>2, NextRow
<1>4. ListRows'
  <2>1. trips' \in Seq(TripTypes)
    BY <1>1, <1>2, <1>3 DEF ListRows
  <2>2. \A u \in DOMAIN trips' : RowFits(trips'[u])
    BY <1>1, <1>2, <1>3 DEF ListRows
  <2> QED BY <1>1, <2>1, <2>2 DEF ListRows
<1>5. ASSUME NEW link \in NumberNames PROVE RowsOf(link) \ {t} = RowsOf(link)' \ {t}
  <2>1. CASE link \notin DriverNames
    <3>1. Lists!Link(link).list = "orders"
      BY <2>1, NumberLists
    <3>2. \A u \in DOMAIN trips : u # t => trips'[u] = trips[u]
      BY <1>1
    <3> QED BY <1>2, <3>1, <3>2 DEF RowsOf, Lists!Listed, Lists!Filtered, Lists!Within, Lists!Having, Lists!Booked
  <2>2. CASE link \in DriverNames
    <3>1. Lists!Link(link).list = link /\ link # "orders"
      BY <2>2, NumberLists DEF DriverNames
    <3> QED BY <1>1, <2>2, <3>1 DEF RowsOf, Lists!Listed, Lists!PendingKyc, Lists!Expiring, DriverNames
  <2> QED BY <2>1, <2>2
<1> QED BY <1>2, <1>4, <1>5, RowsApart

\* A new trip comes into lists by itself.
LEMMA BookRows ==
  ASSUME ListRows, Lists!Book
  PROVE  ListRows' /\ CloseRows
<1> DEFINE r == [status |-> "requested", driver |-> 0, missing |-> 0, late |-> FALSE]
           t == Len(trips) + 1
<1>1. trips' = Append(trips, r) /\ people' = people /\ about' = about
  BY DEF Lists!Book, Lists!Changing, Lists!NoDriver
<1>2. r \in TripTypes /\ RowFits(r)
  BY DEF TripTypes, RowFits, Statuses, Lists!Active, Lists!Waiting
<1> HIDE DEF r
<1>3. /\ t \in Nat /\ DOMAIN trips = 1 .. Len(trips) /\ DOMAIN trips' = 1 .. t /\ trips'[t] = r
      /\ \A u \in DOMAIN trips : trips'[u] = trips[u]
      /\ trips' \in Seq(TripTypes)
  BY <1>1, <1>2 DEF ListRows
<1>4. ListRows'
  <2>1. \A u \in DOMAIN trips' : RowFits(trips'[u])
    BY <1>2, <1>3 DEF ListRows
  <2> QED BY <1>1, <1>3, <2>1 DEF ListRows
<1>5. ASSUME NEW link \in NumberNames PROVE RowsOf(link) \ {t} = RowsOf(link)' \ {t}
  <2>1. CASE link \notin DriverNames
    <3>1. Lists!Link(link).list = "orders"
      BY <2>1, NumberLists
    <3>2. \A u : u \in DOMAIN trips' /\ u # t <=> u \in DOMAIN trips
      BY <1>3 DEF ListRows
    <3> HIDE DEF t
    <3> QED BY <1>3, <3>1, <3>2 DEF RowsOf, Lists!Listed, Lists!Filtered, Lists!Within, Lists!Having, Lists!Booked
  <2>2. CASE link \in DriverNames
    <3>1. Lists!Link(link).list = link /\ link # "orders"
      BY <2>2, NumberLists DEF DriverNames
    <3> QED BY <1>1, <2>2, <3>1 DEF RowsOf, Lists!Listed, Lists!PendingKyc, Lists!Expiring, DriverNames
  <2> QED BY <2>1, <2>2
<1> QED BY <1>3, <1>4, <1>5, RowsApart

\* The drivers' rows of each kind of list are drivers' rows.
LEMMA PersonFits ==
  ASSUME about \in {"orders", "papers", "payouts", "live"}
  PROVE  Lists!PersonRows \subseteq PersonTypes
<1> SUFFICES ASSUME NEW r \in Lists!PersonRows PROVE r \in PersonTypes
  OBVIOUS
<1>0. ASSUME NEW o \in BOOLEAN, NEW l \in {"none", "pending", "rejected", "soon", "later"},
             NEW k \in {"none", "pending", "decided"}, NEW b \in Int,
             r = [online |-> o, licence |-> l, report |-> k, balance |-> b]
      PROVE  r \in PersonTypes
  BY <1>0 DEF PersonTypes
<1>1. CASE about = "papers"
  <2>1. r \in [online : {TRUE}, licence : {"none", "pending", "rejected", "soon", "later"},
               report : {"none", "pending", "decided"}, balance : {0}]
    BY <1>1 DEF Lists!PersonRows
  <2>2. r = [online |-> r.online, licence |-> r.licence, report |-> r.report, balance |-> r.balance]
    BY <2>1
  <2>3. r.online = TRUE /\ r.balance = 0 /\ r.licence \in {"none", "pending", "rejected", "soon", "later"}
        /\ r.report \in {"none", "pending", "decided"}
    BY <2>1
  <2>4. r.balance \in Int
    BY <2>3
  <2>5. r.online \in BOOLEAN
    <3>1. r.online = TRUE
      BY <2>3
    <3> QED BY <3>1
  <2> QED BY <1>0, <2>2, <2>3, <2>4, <2>5
<1>2. CASE about = "payouts"
  <2>1. r \in [online : {TRUE}, licence : {"later"}, report : {"decided"}, balance : -1 .. 1]
    BY <1>2 DEF Lists!PersonRows
  <2>2. r = [online |-> r.online, licence |-> r.licence, report |-> r.report, balance |-> r.balance]
    BY <2>1
  <2>3. r.online = TRUE /\ r.licence = "later" /\ r.report = "decided" /\ r.balance \in -1 .. 1
    BY <2>1
  <2>4. r.balance \in Int
    BY <2>3
  <2> QED BY <1>0, <2>2, <2>3, <2>4
<1>3. CASE about = "live"
  <2>1. r \in [online : BOOLEAN, licence : {"later"}, report : {"decided"}, balance : {0}]
    BY <1>3 DEF Lists!PersonRows
  <2>2. r = [online |-> r.online, licence |-> r.licence, report |-> r.report, balance |-> r.balance]
    BY <2>1
  <2>3. r.online \in BOOLEAN /\ r.licence = "later" /\ r.report = "decided" /\ r.balance = 0
    BY <2>1
  <2> QED BY <1>0, <2>2, <2>3
<1>4. CASE about = "orders"
  <2>1. r = [online |-> TRUE, licence |-> "later", report |-> "decided", balance |-> 0]
    BY <1>4 DEF Lists!PersonRows, Lists!Quiet
  <2>2. /\ TRUE \in BOOLEAN /\ "later" \in {"none", "pending", "rejected", "soon", "later"}
        /\ "decided" \in {"none", "pending", "decided"} /\ 0 \in Int
    OBVIOUS
  <2> HIDE <1>4
  <2> QED BY <1>0, <2>1, <2>2
<1> QED BY <1>1, <1>2, <1>3, <1>4

\* So does a driver.
LEMMA MovePersonRows ==
  ASSUME ListRows, NEW d \in People, Lists!MovePerson(d)
  PROVE  ListRows' /\ CloseRows
<1>1. PICK r \in PersonTypes : people' = [people EXCEPT ![d] = r] /\ trips' = trips /\ about' = about
  BY PersonFits DEF Lists!MovePerson, Lists!Changing, ListRows
<1>2. people \in [People -> PersonTypes] /\ d \in Nat
  BY RowsAssumption DEF ListRows
<1>3. ListRows'
  BY <1>1, <1>2 DEF ListRows
<1>4. ASSUME NEW link \in NumberNames PROVE RowsOf(link) \ {d} = RowsOf(link)' \ {d}
  <2>1. CASE link \notin DriverNames
    <3>1. Lists!Link(link).list = "orders"
      BY <2>1, NumberLists
    <3> QED BY <1>1, <3>1 DEF RowsOf, Lists!Listed, Lists!Filtered, Lists!Within, Lists!Having, Lists!Booked
  <2>2. CASE link \in DriverNames
    <3>1. Lists!Link(link).list = link /\ link # "orders"
      BY <2>2, NumberLists DEF DriverNames
    <3>2. \A e \in People : e # d => people'[e] = people[e]
      BY <1>1, <1>2
    <3> QED BY <2>2, <3>1, <3>2 DEF RowsOf, Lists!Listed, Lists!PendingKyc, Lists!Expiring, DriverNames
  <2> QED BY <2>1, <2>2
<1> QED BY <1>2, <1>3, <1>4, RowsApart

\* The tables of the lists as they begin.
LEMMA ListRowsInit ==
  ASSUME Init
  PROVE  ListRows
<1>1. PICK n \in Nat : trips \in [1 .. n -> Lists!TripRows]
  <2>1. \E n \in 0 .. MaxTrips : trips \in {rows_ \in [1 .. n -> Lists!TripRows] : Lists!OneEach(rows_) /\ (about = "live" => Lists!Plain(rows_))}
    BY DEF Init, Lists!Init
  <2>2. 0 .. MaxTrips \subseteq Nat
    BY LengthsAssumption
  <2> QED BY <2>1, <2>2
<1>2. \A r \in Lists!TripRows : r \in TripTypes /\ RowFits(r)
  <2> SUFFICES ASSUME NEW r \in Lists!TripRows PROVE r \in TripTypes /\ RowFits(r)
    OBVIOUS
  <2>0. ASSUME NEW st \in Statuses, NEW d \in People \union {0}, NEW m \in Nat, NEW l \in BOOLEAN,
               r = [status |-> st, driver |-> d, missing |-> m, late |-> l],
               st \in Lists!Active => d \in People, st \in Lists!Waiting => d = 0, l => st = "in_progress"
        PROVE  r \in TripTypes /\ RowFits(r)
    BY <2>0 DEF TripTypes, RowFits
  <2>1. CASE r \in [status : Lists!Waiting, driver : {Lists!NoDriver}, missing : {0}, late : {FALSE}]
    <3>1. r = [status |-> r.status, driver |-> 0, missing |-> 0, late |-> FALSE] /\ r.status \in Lists!Waiting
      BY <2>1 DEF Lists!NoDriver
    <3> QED BY <2>0, <3>1 DEF Statuses, Lists!Active, Lists!Waiting
  <2>2. CASE r \in [status : {"assigned", "arrived_at_pickup"}, driver : People, missing : {0}, late : {FALSE}]
    <3>1. /\ r = [status |-> r.status, driver |-> r.driver, missing |-> 0, late |-> FALSE] /\ r.driver \in People
          /\ r.status \in {"assigned", "arrived_at_pickup"}
      BY <2>2
    <3> QED BY <2>0, <3>1 DEF Statuses, Lists!Active, Lists!Waiting
  <2>3. CASE r \in [status : {"in_progress"}, driver : People, missing : 0 .. 2, late : BOOLEAN]
    <3>1. /\ r = [status |-> "in_progress", driver |-> r.driver, missing |-> r.missing, late |-> r.late]
          /\ r.driver \in People /\ r.missing \in Nat /\ r.late \in BOOLEAN
      BY <2>3
    <3> QED BY <2>0, <3>1 DEF Statuses, Lists!Active, Lists!Waiting
  <2>4. CASE r \in [status : {"completed"}, driver : People, missing : 0 .. 2, late : {FALSE}]
    <3>1. r = [status |-> r.status, driver |-> r.driver, missing |-> r.missing, late |-> r.late]
      BY <2>4
    <3>2. r.status = "completed" /\ r.driver \in People /\ r.missing \in 0 .. 2 /\ r.late = FALSE
      BY <2>4
    <3>3. r.missing \in Nat
      BY <3>2
    <3> QED BY <2>0, <3>1, <3>2, <3>3 DEF Statuses, Lists!Active, Lists!Waiting
  <2>5. CASE r \in [status : {"cancelled"}, driver : People \union {Lists!NoDriver}, missing : {0}, late : {FALSE}]
    <3>1. /\ r = [status |-> "cancelled", driver |-> r.driver, missing |-> 0, late |-> FALSE]
          /\ r.driver \in People \union {0}
      BY <2>5 DEF Lists!NoDriver
    <3> QED BY <2>0, <3>1 DEF Statuses, Lists!Active, Lists!Waiting
  <2> QED BY <2>1, <2>2, <2>3, <2>4, <2>5 DEF Lists!TripRows
<1>3. trips \in Seq(TripTypes) /\ \A t \in DOMAIN trips : RowFits(trips[t])
  BY <1>1, <1>2
<1>4. about \in {"orders", "papers", "payouts", "live"} /\ people \in [People -> Lists!PersonRows]
  BY DEF Init, Lists!Init
<1>5. Lists!PersonRows \subseteq PersonTypes
  BY <1>4, PersonFits
<1> QED BY <1>3, <1>4, <1>5 DEF ListRows

\* A change of the rows; any other step leaves them.
RowsChange == /\ ListRows' /\ CloseRows /\ moves' = moves + 1
              /\ UNCHANGED <<about, walk, polls, map>>
              /\ walk.step # "none" \/ polls # <<>>

\* Any of these changes the rows by one.
LEMMA ChangeRows ==
  ASSUME ListRows,
         \/ Lists!Book
         \/ \E t \in Lists!Booked : Lists!MoveTrip(t)
         \/ \E d \in People : Lists!MovePerson(d)
  PROVE  RowsChange
<1>1. ListRows' /\ CloseRows
  BY BookRows, MoveTripRows, MovePersonRows DEF Lists!Booked
<1>2. moves' = moves + 1 /\ UNCHANGED <<about, walk, polls, map>> /\ (walk.step # "none" \/ polls # <<>>)
  BY DEF Lists!Book, Lists!MoveTrip, Lists!MovePerson, Lists!Changing
<1> QED BY <1>1, <1>2 DEF RowsChange

\* Lists that nothing touches stay as they are.
LEMMA SameRows ==
  ASSUME ListRows, UNCHANGED <<trips, people, about>>
  PROVE  ListRows' /\ \A link \in NumberNames : RowsOf(link)' = RowsOf(link)
<1>1. ListRows'
  BY DEF ListRows
<1>2. ASSUME NEW link \in NumberNames PROVE RowsOf(link)' = RowsOf(link)
  BY DEF RowsOf, Lists!Listed, Lists!Filtered, Lists!Within, Lists!Having, Lists!Booked, Lists!PendingKyc, Lists!Expiring
<1> QED BY <1>1, <1>2

----------------------------------------------------------------------------
(* Walking a list.                                                         *)

WalkTypes == [step : {"shown", "counted", "read"}, name : NumberNames, number : Int, page : Nat, count : Nat, sum : Int,
              tabs : [Lists!Tabs -> Nat], seen : Seq(Nat)]

\* There are pages after the one that was counted.
More(w) == w.page < Lists!Pages(w.count)

\* What a walk shows from now on, of n rows that do not change any more.
Rest(w, n) ==
  IF w.step = "shown" THEN n
  ELSE IF w.step = "counted" THEN IF More(w) THEN From(n, Before(w.page)) ELSE OnPage(n, Before(w.page))
  ELSE IF More(w) THEN From(n, Before(w.page) + Size) ELSE 0
Shows(w, n) == Len(w.seen) + Rest(w, n)

Repeats(m) == IF m = 0 THEN 0 ELSE Size - 1
OnLast(w)  == w.step # "shown" /\ ~More(w)

\* After m changes a walk will have shown as many rows as its number says, but for one each
\* and, once it is on its last page, for that page being shown again.
AtMost(w, m, n) == Shows(w, n) <= w.number + m + (IF OnLast(w) THEN Repeats(m) ELSE 0)
\* A page that is not the last stays full, or rows were lost after it was counted.
Lost(w, m, n) == w.step # "shown" /\ More(w) => n > Before(w.page) + Size \/ Shows(w, n) <= w.number + m - 2
Least(w, m, n) == w.number <= Shows(w, n) + m

WalkKept(w, m, n) ==
  /\ w.step = "shown" => w.page = 0 /\ w.seen = <<>>
  /\ w.step # "shown" => w.page # 0
  /\ w.name \notin {"over3Hours", "found"} => AtMost(w, m, n) /\ Lost(w, m, n)
  /\ w.name # "notDelivered" => Least(w, m, n)
  /\ m = 0 => /\ w.step # "shown" => w.count = n
              /\ w.name = "notDelivered" /\ w.number > 0 => Shows(w, n) > 0

\* A page has rows.
LEMMA PageSize == Size \in Nat /\ Size > 0
BY LengthsAssumption

\* The rows before a page are those of the pages before it.
LEMMA BeforePage ==
  ASSUME NEW p \in Nat \ {0}
  PROVE  Before(p) \in Nat /\ Before(p + 1) = Before(p) + Size /\ Before(1) = 0
<1>1. Size \in Nat /\ p - 1 \in Nat
  BY LengthsAssumption
<1>2. (p - 1) * Size \in Nat /\ ((p + 1) - 1) * Size = (p - 1) * Size + Size /\ (1 - 1) * Size = 0
  BY <1>1
<1> QED BY <1>2 DEF Before

\* One more change.
LEMMA WalkChanges ==
  ASSUME NEW w \in WalkTypes, NEW m \in Nat, NEW n \in Nat, NEW k \in Nat, n <= k + 1, k <= n + 1, WalkKept(w, m, n)
  PROVE  WalkKept(w, m + 1, k)
<1>0. Size \in Nat /\ Size > 0
  BY PageSize
<1>1. w.number \in Int /\ Len(w.seen) \in Nat /\ w.step \in {"shown", "counted", "read"} /\ w.page \in Nat
  <2>1. w.seen \in Seq(Nat) /\ w.number \in Int /\ w.step \in {"shown", "counted", "read"} /\ w.page \in Nat
    BY DEF WalkTypes
  <2> QED BY <2>1
<1>2. w.step # "shown" => Before(w.page) \in Nat
  BY <1>1, BeforePage DEF WalkKept
<1>3. Rest(w, n) <= Rest(w, k) + 1 /\ Rest(w, k) <= Rest(w, n) + 1 /\ Rest(w, n) \in Nat /\ Rest(w, k) \in Nat
  <2>1. ASSUME NEW a \in Nat PROVE /\ From(n, a) \in Nat /\ From(k, a) \in Nat
                                   /\ From(n, a) <= From(k, a) + 1 /\ From(k, a) <= From(n, a) + 1
    BY DEF From
  <2>2. ASSUME NEW a \in Nat PROVE /\ OnPage(n, a) \in Nat /\ OnPage(k, a) \in Nat
                                   /\ OnPage(n, a) <= OnPage(k, a) + 1 /\ OnPage(k, a) <= OnPage(n, a) + 1
    BY <1>0 DEF OnPage
  <2>3. CASE w.step = "shown"
    BY <2>3 DEF Rest
  <2>4. CASE w.step # "shown"
    <3>1. Before(w.page) \in Nat /\ Before(w.page) + Size \in Nat
      BY <1>0, <1>2, <2>4
    <3> QED BY <2>1, <2>2, <2>4, <3>1 DEF Rest
  <2> QED BY <2>3, <2>4
<1>4. AtMost(w, m, n) => AtMost(w, m + 1, k)
  <2>1. Repeats(m) <= Repeats(m + 1) /\ Repeats(m) \in Int /\ Repeats(m + 1) \in Int
    BY <1>0 DEF Repeats
  <2>2. PICK a \in Int, b \in Int : /\ a <= b
                                    /\ AtMost(w, m, n) <=> Shows(w, n) <= w.number + m + a
                                    /\ AtMost(w, m + 1, k) <=> Shows(w, k) <= w.number + (m + 1) + b
    <3>1. CASE OnLast(w)
      BY <2>1, <3>1 DEF AtMost
    <3>2. CASE ~OnLast(w)
      BY <3>2 DEF AtMost
    <3> QED BY <3>1, <3>2
  <2>3. Shows(w, k) <= Shows(w, n) + 1 /\ Shows(w, k) \in Int /\ Shows(w, n) \in Int
    BY <1>1, <1>3 DEF Shows
  <2> QED BY <1>1, <2>2, <2>3
<1>5. Lost(w, m, n) /\ AtMost(w, m, n) => Lost(w, m + 1, k)
  <2> SUFFICES ASSUME Lost(w, m, n), AtMost(w, m, n), w.step # "shown", More(w), ~(k > Before(w.page) + Size)
               PROVE  Shows(w, k) <= w.number + (m + 1) - 2
    BY DEF Lost
  <2>1. CASE n > Before(w.page) + Size
    <3>1. Rest(w, k) = Rest(w, n) - 1
      <4>1. PICK a \in Nat : a = Before(w.page)
        BY <1>2
      <4>2. n = a + Size + 1 /\ k = a + Size
        BY <1>0, <2>1, <4>1
      <4>3. From(n, a) = From(k, a) + 1 /\ From(n, a + Size) = From(k, a + Size) + 1 /\ From(k, a) \in Nat
            /\ From(k, a + Size) \in Nat
        BY <1>0, <4>2 DEF From
      <4> QED BY <1>1, <4>1, <4>3 DEF Rest
    <3> QED BY <1>1, <1>3, <3>1 DEF AtMost, Shows, OnLast
  <2>2. CASE ~(n > Before(w.page) + Size)
    BY <1>1, <1>3, <2>2 DEF Lost, Shows
  <2> QED BY <2>1, <2>2
<1>6. Least(w, m, n) => Least(w, m + 1, k)
  BY <1>1, <1>3 DEF Least, Shows
<1> QED BY <1>4, <1>5, <1>6 DEF WalkKept

\* The next page is counted: it is a new one, or the last one again.
LEMMA WalkCounts ==
  ASSUME NEW w \in WalkTypes, NEW m \in Nat, NEW n \in Nat, WalkKept(w, m, n),
         NEW v \in WalkTypes, v.step = "counted", v.name = w.name, v.number = w.number, v.seen = w.seen, v.count = n,
         NEW next \in Nat \ {0},
         v.page = (IF next <= Lists!Pages(n) THEN next ELSE Lists!Pages(n)),
         \/ w.step = "shown" /\ next = 1
         \/ w.step = "read" /\ More(w) /\ next = w.page + 1
  PROVE  WalkKept(v, m, n)
<1>0. Size \in Nat /\ Size > 0
  BY PageSize
<1>1. w.number \in Int /\ Len(w.seen) \in Nat /\ w.step \in {"shown", "counted", "read"} /\ w.page \in Nat
  <2>1. w.seen \in Seq(Nat) /\ w.number \in Int /\ w.step \in {"shown", "counted", "read"} /\ w.page \in Nat
    BY DEF WalkTypes
  <2> QED BY <2>1
<1>2. /\ Lists!Pages(n) \in Nat \ {0}
      /\ \A p \in Nat \ {0} : p < Lists!Pages(n) <=> Before(p) + Size < n
  BY PagesFit
<1>3. v.page \in Nat \ {0} /\ v.page <= Lists!Pages(n) /\ Before(v.page) \in Nat
  <2>1. v.page \in Nat \ {0} /\ v.page <= Lists!Pages(n)
    BY <1>2
  <2> QED BY <2>1, BeforePage
<1>4. More(v) <=> Before(v.page) + Size < n
  BY <1>2, <1>3 DEF More
<1>5. Rest(v, n) = IF More(v) THEN From(n, Before(v.page)) ELSE OnPage(n, Before(v.page))
  BY DEF Rest
<1>6. CASE next <= Lists!Pages(n)
  <2>1. Rest(v, n) = From(n, Before(next))
    <3>1. v.page = next
      BY <1>6
    <3> QED BY <1>0, <1>3, <1>4, <1>5, <3>1 DEF From, OnPage
  <2>2. Rest(w, n) = From(n, Before(next))
    <3>1. CASE w.step = "shown"
      BY <3>1, BeforePage DEF Rest, From
    <3>2. CASE w.step = "read"
      <4>1. w.page \in Nat \ {0} /\ Before(next) = Before(w.page) + Size
        BY <1>1, <3>2, BeforePage DEF WalkKept
      <4> QED BY <3>2, <4>1 DEF Rest
    <3> QED BY <3>1, <3>2
  <2>3. Shows(v, n) = Shows(w, n) /\ Shows(w, n) \in Int
    <3>1. Before(next) \in Nat
      BY BeforePage
    <3> QED BY <1>1, <2>1, <2>2, <3>1 DEF Shows, From
  <2>4. AtMost(w, m, n) => AtMost(v, m, n)
    <3>1. ~OnLast(w)
      BY DEF OnLast
    <3>2. AtMost(w, m, n) <=> Shows(w, n) <= w.number + m
      BY <1>1, <2>3, <3>1 DEF AtMost
    <3>3. Repeats(m) \in Nat
      BY <1>0 DEF Repeats
    <3>4. AtMost(v, m, n) <=> Shows(v, n) <= v.number + m + (IF OnLast(v) THEN Repeats(m) ELSE 0)
      BY DEF AtMost
    <3>5. CASE OnLast(v)
      BY <1>1, <2>3, <3>2, <3>3, <3>4, <3>5
    <3>6. CASE ~OnLast(v)
      BY <1>1, <2>3, <3>2, <3>4, <3>6
    <3> QED BY <3>5, <3>6
  <2>5. Lost(v, m, n)
    BY <1>4 DEF Lost
  <2>6. Least(w, m, n) => Least(v, m, n)
    BY <2>3 DEF Least
  <2> QED BY <1>3, <2>3, <2>4, <2>5, <2>6 DEF WalkKept
<1>7. CASE ~(next <= Lists!Pages(n))
  <2>1. w.step = "read" /\ More(w) /\ next = w.page + 1 /\ w.page \in Nat \ {0} /\ ~(w.page < Lists!Pages(n))
    BY <1>1, <1>2, <1>7 DEF WalkKept
  <2>2. ~(n > Before(w.page) + Size) /\ Before(w.page) \in Nat
    BY <1>0, <1>2, <2>1, BeforePage
  <2>3. Rest(w, n) = 0
    BY <1>0, <2>1, <2>2 DEF Rest, From
  <2>4. ~More(v)
    BY <1>2, <1>7 DEF More
  <2>5. Rest(v, n) \in 0 .. Size
    BY <1>0, <1>3, <1>5, <2>4 DEF OnPage
  <2>6. m # 0
    BY <2>1 DEF WalkKept, More
  <2>7. Shows(w, n) = Len(w.seen) /\ Len(w.seen) <= Shows(v, n) /\ Shows(v, n) <= Len(w.seen) + Size
    BY <1>0, <1>1, <2>3, <2>5 DEF Shows
  <2>8. AtMost(w, m, n) /\ Lost(w, m, n) => AtMost(v, m, n)
    <3> SUFFICES ASSUME Lost(w, m, n) PROVE AtMost(v, m, n)
      OBVIOUS
    <3>1. Shows(w, n) <= w.number + m - 2
      BY <2>1, <2>2 DEF Lost
    <3>2. OnLast(v) /\ Repeats(m) = Size - 1
      BY <2>4, <2>6 DEF OnLast, Repeats
    <3>3. Shows(v, n) \in Int
      BY <1>0, <1>1, <2>5 DEF Shows
    <3> QED BY <1>0, <1>1, <2>7, <3>1, <3>2, <3>3 DEF AtMost
  <2>9. Lost(v, m, n)
    BY <2>4 DEF Lost
  <2>10. Least(w, m, n) => Least(v, m, n)
    <3>1. Shows(v, n) \in Int
      BY <1>0, <1>1, <2>5 DEF Shows
    <3> QED BY <1>1, <2>7, <3>1 DEF Least
  <2> QED BY <1>3, <2>6, <2>8, <2>9, <2>10 DEF WalkKept
<1> QED BY <1>6, <1>7

\* The rows of the page are read.
LEMMA WalkReads ==
  ASSUME NEW w \in WalkTypes, NEW m \in Nat, NEW n \in Nat, WalkKept(w, m, n), w.step = "counted",
         NEW v \in WalkTypes, v.step = "read", v.name = w.name, v.number = w.number, v.count = w.count, v.page = w.page,
         Len(v.seen) = Len(w.seen) + OnPage(n, Before(w.page))
  PROVE  WalkKept(v, m, n)
<1>0. Size \in Nat /\ Size > 0
  BY PageSize
<1>1. w.number \in Int /\ Len(w.seen) \in Nat /\ w.page \in Nat \ {0}
  <2>1. w.seen \in Seq(Nat) /\ w.number \in Int /\ w.page \in Nat
    BY DEF WalkTypes
  <2> QED BY <2>1 DEF WalkKept
<1>2. PICK a \in Nat : a = Before(w.page) /\ a = Before(v.page)
  BY <1>1, BeforePage
<1>3. More(v) <=> More(w)
  BY DEF More
<1>4. Shows(v, n) = Shows(w, n)
  <2>1. OnPage(n, a) \in Nat /\ OnPage(n, a) + From(n, a + Size) = From(n, a) /\ From(n, a + Size) \in Nat
    BY <1>0 DEF OnPage, From
  <2>2. CASE More(w)
    BY <1>1, <1>2, <1>3, <2>1, <2>2 DEF Shows, Rest
  <2>3. CASE ~More(w)
    BY <1>1, <1>2, <1>3, <2>1, <2>3 DEF Shows, Rest
  <2> QED BY <2>2, <2>3
<1>5. OnLast(v) <=> OnLast(w)
  BY <1>3 DEF OnLast
<1>6. /\ AtMost(w, m, n) => AtMost(v, m, n)
      /\ Lost(w, m, n) => Lost(v, m, n)
      /\ Least(w, m, n) => Least(v, m, n)
  BY <1>2, <1>3, <1>4, <1>5 DEF AtMost, Lost, Least
<1> QED BY <1>1, <1>4, <1>6 DEF WalkKept

\* A trip's row.
LEMMA TripRow ==
  ASSUME ListRows, NEW t \in Lists!Booked
  PROVE  /\ trips[t] \in TripTypes /\ RowFits(trips[t]) /\ trips[t].status \in Statuses /\ trips[t].missing \in Nat
         /\ trips[t].driver \in People \union {0} /\ trips[t].late \in BOOLEAN /\ t \in Nat
<1>1. t \in DOMAIN trips /\ trips \in Seq(TripTypes)
  BY DEF ListRows, Lists!Booked
<1>2. trips[t] \in TripTypes /\ t \in Nat
  BY <1>1
<1>3. RowFits(trips[t])
  BY <1>1 DEF ListRows
<1> QED BY <1>2, <1>3 DEF TripTypes

\* What the lists hold, told apart by the numbers that link to them.
LEMMA RowSets ==
  ASSUME ListRows
  PROVE  /\ RowsOf("orders") = Lists!Within(Lists!Booked)
         /\ RowsOf("delivered") = Lists!Within(Lists!Having({"completed"}))
         /\ RowsOf("cancelled") = Lists!Within(Lists!Having({"cancelled"}))
         /\ RowsOf("active") = Lists!Having(Lists!Active)
         /\ RowsOf("unassigned") = Lists!Having(Lists!Waiting)
         /\ RowsOf("over3Hours") = Lists!Having({"in_progress"})
         /\ RowsOf("notDelivered") = {t \in Lists!Within(Lists!Booked) : trips[t].missing > 0}
         /\ RowsOf("found") = Lists!Booked
         /\ RowsOf("kyc") = Lists!PendingKyc
         /\ RowsOf("expiring") = Lists!Expiring
<1>1. \A t \in Lists!Booked : trips[t].status \in Statuses
  BY TripRow
<1>2. /\ Lists!Statuses("all") = Statuses /\ Lists!Statuses("unassigned") = Lists!Waiting
      /\ Lists!Statuses("active") = Lists!Active /\ Lists!Statuses("completed") = {"completed"}
      /\ Lists!Statuses("cancelled") = {"cancelled"} /\ Lists!Statuses("in_progress") = {"in_progress"}
  BY DEF Lists!Statuses, Statuses, Lists!Waiting, Lists!Active, Lists!Ended
<1>3. \A link \in {"orders", "notDelivered", "delivered", "cancelled", "active", "unassigned", "over3Hours", "found"} :
        RowsOf(link) = {t \in Lists!Booked :
                          /\ Lists!Link(link).span => t \in Lists!Within(Lists!Booked)
                          /\ Lists!Link(link).issues => trips[t].missing > 0
                          /\ trips[t].status \in Lists!Statuses(Lists!Link(link).tab)}
  <2> SUFFICES ASSUME NEW link \in {"orders", "notDelivered", "delivered", "cancelled", "active", "unassigned",
                                    "over3Hours", "found"}
               PROVE  RowsOf(link) = {t \in Lists!Booked :
                          /\ Lists!Link(link).span => t \in Lists!Within(Lists!Booked)
                          /\ Lists!Link(link).issues => trips[t].missing > 0
                          /\ trips[t].status \in Lists!Statuses(Lists!Link(link).tab)}
    OBVIOUS
  <2>1. Lists!Link(link).list = "orders"
    BY ListedSets
  <2>2. CASE Lists!Link(link).span
    BY <2>1, <2>2 DEF RowsOf, Lists!Listed, Lists!Filtered, Lists!Within, Lists!Having
  <2>3. CASE ~Lists!Link(link).span
    BY <2>1, <2>3 DEF RowsOf, Lists!Listed, Lists!Filtered, Lists!Within, Lists!Having
  <2> QED BY <2>2, <2>3
<1>4. RowsOf("orders") = Lists!Within(Lists!Booked)
  BY <1>1, <1>2, <1>3, ListedSets DEF Lists!Within
<1>5. RowsOf("delivered") = Lists!Within(Lists!Having({"completed"}))
  BY <1>2, <1>3, ListedSets DEF Lists!Within, Lists!Having
<1>6. RowsOf("cancelled") = Lists!Within(Lists!Having({"cancelled"}))
  BY <1>2, <1>3, ListedSets DEF Lists!Within, Lists!Having
<1>7. RowsOf("active") = Lists!Having(Lists!Active)
  BY <1>2, <1>3, ListedSets DEF Lists!Having
<1>8. RowsOf("unassigned") = Lists!Having(Lists!Waiting)
  BY <1>2, <1>3, ListedSets DEF Lists!Having
<1>9. RowsOf("over3Hours") = Lists!Having({"in_progress"})
  BY <1>2, <1>3, ListedSets DEF Lists!Having
<1>10. RowsOf("notDelivered") = {t \in Lists!Within(Lists!Booked) : trips[t].missing > 0}
  BY <1>1, <1>2, <1>3, ListedSets DEF Lists!Within
<1>11. RowsOf("found") = Lists!Booked
  BY <1>1, <1>2, <1>3, ListedSets
<1>12. RowsOf("kyc") = Lists!PendingKyc /\ RowsOf("expiring") = Lists!Expiring
  BY ListedSets DEF RowsOf, Lists!Listed, DriverNames
<1> QED BY <1>4, <1>5, <1>6, <1>7, <1>8, <1>9, <1>10, <1>11, <1>12

\* A number beside the rows behind it.
NumberFits(n, link, k) ==
  /\ n \in Int
  /\ link \notin {"over3Hours", "found"} => k <= n
  /\ link # "notDelivered" => n <= k
  /\ link = "notDelivered" /\ n > 0 => k > 0

\* The count of a set of booked trips is the library's, and a part counts no more.
LEMMA TripCounts ==
  ASSUME ListRows, NEW S \in SUBSET Lists!Booked, NEW R \in SUBSET S
  PROVE  /\ IsFiniteSet(S) /\ S \in SUBSET Nat
         /\ Lists!Cardinality(S) = Cardinality(S) /\ Lists!Cardinality(R) = Cardinality(R)
         /\ Cardinality(S) \in Nat /\ Cardinality(R) \in Nat /\ Cardinality(R) <= Cardinality(S)
<1>1. Len(trips) \in Nat /\ Lists!Booked = 1 .. Len(trips) /\ IsFiniteSet(1 .. Len(trips))
  BY FS_Interval DEF ListRows, Lists!Booked
<1>2. IsFiniteSet(S) /\ S \in SUBSET Nat
  <2>1. S \in SUBSET (1 .. Len(trips))
    BY <1>1
  <2>2. IsFiniteSet(S)
    BY <1>1, <2>1, FS_Subset
  <2>3. 1 .. Len(trips) \subseteq Nat
    BY <1>1
  <2> QED BY <2>1, <2>2, <2>3
<1> QED BY <1>2, FS_Subset, FS_CardinalityType, ListNumbers

\* Undelivered items: at least one for each trip that is listed, and none without one.
LEMMA MissingRows ==
  ASSUME ListRows
  PROVE  NumberFits(Lists!Missing(Lists!Within(Lists!Booked)), "notDelivered", Cardinality(RowsOf("notDelivered")))
<1> DEFINE f == [t \in Lists!Booked |-> trips[t].missing]
           S == Lists!Within(Lists!Booked)
           R == RowsOf("notDelivered")
<1>1. f \in [Lists!Booked -> Int] /\ \A t \in Lists!Booked : f[t] = trips[t].missing /\ f[t] \in Nat
  <2>1. \A t \in Lists!Booked : trips[t].missing \in Nat
    BY TripRow
  <2> QED BY <2>1
<1>2. Lists!Missing(S) = SumFunctionOnSet(f, S)
  BY ListSums DEF Lists!Missing
<1>3. S \in SUBSET Lists!Booked /\ R = {t \in S : trips[t].missing > 0} /\ R \in SUBSET S
  BY RowSets DEF Lists!Within
<1> HIDE DEF f, S, R
<1>4. IsFiniteSet(S) /\ IsFiniteSet(R) /\ Cardinality(R) \in Nat /\ R \in SUBSET Lists!Booked
  BY <1>3, TripCounts, FS_Subset
<1>5. SumFunctionOnSet(f, S) \in Int /\ SumFunctionOnSet(f, R) \in Int
  BY <1>1, <1>3, <1>4, SumOne
<1>6. SumFunctionOnSet(f, R) <= SumFunctionOnSet(f, S)
  <2>1. \A x \in S \ R : 0 <= f[x]
    BY <1>1, <1>3
  <2> QED BY <1>1, <1>3, <1>4, <2>1, SumOfPart
<1>7. 1 * Cardinality(R) <= SumFunctionOnSet(f, R)
  <2>1. \A x \in R : 1 <= f[x]
    BY <1>1, <1>3
  <2> QED BY <1>1, <1>4, <2>1, SumAtLeast
<1>8. Cardinality(R) <= SumFunctionOnSet(f, S)
  BY <1>4, <1>5, <1>6, <1>7
<1>9. SumFunctionOnSet(f, S) > 0 => Cardinality(R) > 0
  <2> SUFFICES ASSUME Cardinality(R) = 0 PROVE SumFunctionOnSet(f, S) = 0
    BY <1>4
  <2>1. R = {}
    BY <1>4, FS_EmptySet
  <2> DEFINE z == [t \in Lists!Booked |-> 0]
             P == {s \in SUBSET S : SumFunctionOnSet(f, s) = 0}
  <2>2. \A x \in S : f[x] = 0
    BY <1>1, <1>3, <2>1
  <2>3. {} \in P
    <3>1. SumFunctionOnSet(f, {}) = 0
      BY <1>1, <1>3, <1>4, SumOne
    <3> QED BY <3>1
  <2>4. ASSUME NEW s \in SUBSET S, NEW x \in S, s \in P, x \notin s PROVE s \union {x} \in P
    <3>1. IsFiniteSet(s \union {x}) /\ s \union {x} \in SUBSET Lists!Booked
      BY <1>3, <1>4, FS_Subset
    <3>2. SumFunctionOnSet(f, s \union {x}) = f[x] + SumFunctionOnSet(f, (s \union {x}) \ {x})
      BY <1>1, <3>1, SumOne
    <3>3. (s \union {x}) \ {x} = s
      BY <2>4
    <3>4. SumFunctionOnSet(f, s) = 0 /\ f[x] = 0
      BY <2>2, <2>4
    <3>5. SumFunctionOnSet(f, s \union {x}) = 0
      BY <3>2, <3>3, <3>4
    <3> QED BY <3>5
  <2> HIDE DEF P
  <2>5. S \in P
    BY <1>4, <2>3, <2>4, PartByPart
  <2> QED BY <2>5 DEF P
<1> QED BY <1>2, <1>5, <1>8, <1>9 DEF NumberFits, R, S

\* A number that counts the rows of its list fits them; so do the two that count fewer.
LEMMA NumberRows ==
  ASSUME ListRows, NEW name_ \in NumberNames
  PROVE  NumberFits(Lists!Number(name_), name_, Cardinality(RowsOf(name_)))
<1>1. ASSUME Lists!Number(name_) = Lists!Cardinality(RowsOf(name_))
      PROVE  NumberFits(Lists!Number(name_), name_, Cardinality(RowsOf(name_)))
  <2>1. Lists!Number(name_) = Cardinality(RowsOf(name_))
    BY <1>1, ListNumbers
  <2>2. Cardinality(RowsOf(name_)) \in Nat
    BY RowsFinite
  <2> QED BY <2>1, <2>2 DEF NumberFits
<1>2. CASE name_ = "notDelivered"
  <2>1. Lists!Number(name_) = Lists!Missing(Lists!Within(Lists!Booked))
    BY <1>2 DEF Lists!Number
  <2> QED BY <1>2, <2>1, MissingRows
<1>3. CASE name_ = "over3Hours"
  <2> DEFINE R == {t \in Lists!Booked : trips[t].late}
  <2>1. Lists!Number(name_) = Lists!Cardinality(R)
    BY <1>3 DEF Lists!Number
  <2>2. RowsOf(name_) \in SUBSET Lists!Booked /\ R \in SUBSET RowsOf(name_)
    BY <1>3, RowSets DEF Lists!Having, ListRows, RowFits, Lists!Booked
  <2> HIDE DEF R
  <2>3. Lists!Cardinality(R) = Cardinality(R) /\ Cardinality(R) \in Nat /\ Cardinality(R) <= Cardinality(RowsOf(name_))
    BY <2>2, TripCounts
  <2> QED BY <1>3, <2>1, <2>3 DEF NumberFits
<1>4. CASE name_ = "found"
  <2>1. Lists!Number(name_) = Lists!Cardinality(Lists!Found)
    BY <1>4 DEF Lists!Number
  <2>2. RowsOf(name_) = Lists!Booked /\ Lists!Found \in SUBSET Lists!Booked
    BY <1>4, RowSets DEF Lists!Found
  <2>3. /\ Lists!Cardinality(Lists!Found) = Cardinality(Lists!Found) /\ Cardinality(Lists!Found) \in Nat
        /\ Cardinality(Lists!Found) <= Cardinality(RowsOf(name_))
    BY <2>2, TripCounts
  <2> QED BY <1>4, <2>1, <2>3 DEF NumberFits
<1>5. CASE name_ \in {"orders", "delivered", "cancelled", "active", "unassigned", "kyc", "expiring"}
  <2>1. Lists!Number(name_) = Lists!Cardinality(RowsOf(name_))
    BY <1>5, RowSets DEF Lists!Number
  <2> QED BY <1>1, <2>1
<1>6. CASE name_ \in {"owed", "balances"}
  <2>1. Lists!Number(name_) = Lists!Cardinality(RowsOf(name_))
    BY <1>6 DEF Lists!Number, RowsOf, Lists!Link
  <2> QED BY <1>1, <2>1
<1> QED BY <1>2, <1>3, <1>4, <1>5, <1>6 DEF NumberNames

\* The page with the number is shown.
LEMMA WalkShows ==
  ASSUME NEW w \in WalkTypes, NEW m \in Nat, NEW n \in Nat, w.step = "shown", w.page = 0, w.seen = <<>>,
         NumberFits(w.number, w.name, n)
  PROVE  WalkKept(w, m, n)
<1>1. w.number \in Int /\ Len(w.seen) = 0
  <2>1. w.number \in Int
    BY DEF WalkTypes
  <2> QED BY <2>1
<1>2. Shows(w, n) = n /\ ~OnLast(w)
  BY <1>1 DEF Shows, Rest, OnLast
<1> QED BY <1>1, <1>2 DEF WalkKept, AtMost, Lost, Least, NumberFits

----------------------------------------------------------------------------
(* The tabs, the sum and the rows of a walk.                               *)

TabsAdd(tabs) == tabs["all"] = tabs["unassigned"] + tabs["active"] + tabs["completed"] + tabs["cancelled"]

\* Rows that no query may list in two orders.
OneOrder == about # "payouts" \/ \A d, e \in People : people[d].balance = people[e].balance => d = e

\* The rows of n up to a.
First(n, a) == IF n <= a THEN n ELSE a

\* How many rows a walk has shown of n that do not change.
Done(w, n) == IF w.step = "shown" THEN 0
              ELSE IF w.step = "counted" THEN First(n, Before(w.page))
              ELSE First(n, Before(w.page) + Size)

\* They are the first of the list.
SeenWell(w) ==
  LET n == Cardinality(RowsOf(w.name))
  IN \/ Done(w, n) = 0 /\ w.seen = <<>>
     \/ \E s \in Lists!Sorted(Lists!Link(w.name)) : w.seen = SubSeq(s, 1, Done(w, n))

WalkWhole(w) ==
  /\ w.name \in Lists!NumberNames
  /\ TabsAdd(w.tabs)
  /\ moves = 0 /\ w.step # "shown" /\ about = "payouts" => w.sum = Lists!Balance(RowsOf(w.name))
  /\ moves = 0 /\ OneOrder => SeenWell(w)

\* What is known of a walk.
WalkGoes == \/ walk = [step |-> "none"]
            \/ \E w \in WalkTypes : walk = w /\ WalkKept(w, moves, Cardinality(RowsOf(w.name))) /\ WalkWhole(w)

\* A page of a sequence goes on where the pages before it ended.
LEMMA PageRows ==
  ASSUME NEW s \in Seq(Nat), NEW p \in Nat \ {0}, NEW a \in Nat, a = Before(p)
  PROVE  /\ Lists!PageOf(s, p) \in Seq(Nat) /\ Len(Lists!PageOf(s, p)) = OnPage(Len(s), a)
         /\ SubSeq(s, 1, First(Len(s), a)) \o Lists!PageOf(s, p) = SubSeq(s, 1, First(Len(s), a + Size))
<1>0. Size \in Nat /\ Size > 0 /\ Len(s) \in Nat /\ \A i \in 1 .. Len(s) : s[i] \in Nat
  BY PageSize
<1>1. (p - 1) * Size = a /\ p * Size = a + Size
  BY <1>0 DEF Before
<1>2. Lists!Min({p * Size, Len(s)}) = IF a + Size <= Len(s) THEN a + Size ELSE Len(s)
  <2>1. PICK b \in Int : b = p * Size /\ b = a + Size
    BY <1>0, <1>1
  <2>2. Lists!Min({b, Len(s)}) = IF b <= Len(s) THEN b ELSE Len(s)
    BY <1>0, ListMin
  <2> QED BY <2>1, <2>2
<1> DEFINE n == Len(s)
           e == First(n, a + Size)
<1>3. Lists!PageOf(s, p) = SubSeq(s, a + 1, e) /\ e \in Nat /\ e <= n
  <2>1. e = Lists!Min({p * Size, Len(s)})
    BY <1>0, <1>2 DEF First
  <2>2. Lists!PageOf(s, p) = SubSeq(s, (p - 1) * Size + 1, Lists!Min({p * Size, Len(s)}))
    BY DEF Lists!PageOf
  <2>3. Lists!PageOf(s, p) = SubSeq(s, a + 1, e)
    BY <1>1, <2>1, <2>2
  <2>4. e \in Nat /\ e <= n
    BY <1>0 DEF First
  <2> QED BY <2>3, <2>4
<1>4. CASE n <= a
  <2>1. e = n /\ First(n, a) = n
    BY <1>0, <1>4 DEF First
  <2>2. Lists!PageOf(s, p) = <<>>
    BY <1>0, <1>3, <1>4, <2>1
  <2>3. SubSeq(s, 1, n) \in Seq(Nat) /\ OnPage(n, a) = 0
    BY <1>0, <1>4 DEF OnPage
  <2> QED BY <2>1, <2>2, <2>3
<1>5. CASE ~(n <= a)
  <2>1. First(n, a) = a /\ e > a /\ e - a = OnPage(n, a)
    BY <1>0, <1>5 DEF First, OnPage
  <2> HIDE DEF e, n
  <2>2. SubSeq(s, a + 1, e) \in Seq(Nat) /\ Len(SubSeq(s, a + 1, e)) = e - a
    BY <1>0, <1>3, <2>1 DEF n
  <2>3. SubSeq(s, 1, a) \o SubSeq(s, a + 1, e) = SubSeq(s, 1, e)
    <3>1. s \in Seq(Nat) /\ a \in Nat /\ e \in Nat /\ a <= e /\ e <= Len(s)
      BY <1>0, <1>3, <2>1 DEF n
    <3>2. 1 \in 1 .. Len(s) + 1 /\ a \in 1 - 1 .. Len(s) /\ e \in a .. Len(s)
      BY <1>0, <3>1
    <3> QED BY <3>1, <3>2, ConcatAdjacentSubSeq
  <2> QED BY <1>3, <2>1, <2>2, <2>3 DEF n, e
<1> QED BY <1>4, <1>5

\* The rows of a list, in order: each once.
LEMMA SortedRows ==
  ASSUME ListRows, NEW link \in NumberNames, NEW s \in Lists!Sorted(Lists!Link(link))
  PROVE  /\ s \in Seq(Nat) /\ Len(s) = Cardinality(RowsOf(link)) /\ Len(s) \in Nat
         /\ s \in [1 .. Len(s) -> RowsOf(link)]
         /\ \A i, j \in 1 .. Len(s) : s[i] = s[j] => i = j
         /\ \A x \in RowsOf(link) : \E i \in 1 .. Len(s) : s[i] = x
<1> DEFINE n == Cardinality(RowsOf(link))
<1>1. RowsOf(link) \subseteq Nat /\ IsFiniteSet(RowsOf(link)) /\ n \in Nat
  BY RowsFinite
<1>2. s \in [1 .. n -> RowsOf(link)] /\ \A i, j \in 1 .. n : i # j => s[i] # s[j]
  <2>1. s \in Lists!SetToSeqs(RowsOf(link)) /\ Lists!Cardinality(RowsOf(link)) = n
    BY ListNumbers DEF Lists!Sorted, RowsOf
  <2> QED BY <2>1 DEF Lists!SetToSeqs
<1> HIDE DEF n
<1>3. s \in Seq(Nat) /\ Len(s) = n
  BY <1>1, <1>2
<1>4. s \in Surjection(1 .. n, RowsOf(link))
  <2>1. s \in Injection(1 .. n, RowsOf(link))
    BY <1>2 DEF Injection, IsInjective
  <2>2. Cardinality(1 .. n) = n
    BY <1>1, FS_Interval
  <2> QED BY <1>1, <2>1, <2>2, FS_Injection DEF n
<1> QED BY <1>1, <1>2, <1>3, <1>4 DEF n, Surjection

\* Rows that share nothing they are sorted by are listed in one order.
LEMMA SortedOnce ==
  ASSUME ListRows, NEW link \in Lists!NumberNames, OneOrder, NEW s \in Lists!Sorted(Lists!Link(link)),
         NEW q \in Lists!Sorted(Lists!Link(link))
  PROVE  s = q
<1> DEFINE f == Lists!Link(link)
           n == Cardinality(RowsOf(link))
<1>0. link \in NumberNames
  BY DEF Lists!NumberNames, NumberNames, ListRows
<1>1. \A a, b \in RowsOf(link) : Lists!Above(f, a, b) \/ Lists!Above(f, b, a) \/ a = b
  <2> SUFFICES ASSUME NEW a \in RowsOf(link), NEW b \in RowsOf(link), a # b
               PROVE  Lists!Above(f, a, b) \/ Lists!Above(f, b, a)
    OBVIOUS
  <2>1. a \in Nat /\ b \in Nat /\ (link \in DriverNames => a \in People /\ b \in People)
    BY <1>0, RowsFinite
  <2>2. CASE f.list \in {"orders", "kyc", "expiring"}
    BY <2>1, <2>2 DEF Lists!Above
  <2>3. CASE f.list \notin {"orders", "kyc", "expiring"}
    <3>1. link \in {"owed", "balances"} /\ f.list = link
      BY <1>0, <2>3, NumberLists DEF DriverNames
    <3>2. about = "payouts" /\ a \in People /\ b \in People
      BY <2>1, <3>1 DEF Lists!NumberNames, DriverNames, ListRows
    <3>3. people[a].balance # people[b].balance
      BY <3>2 DEF OneOrder
    <3>4. people[a].balance \in Int /\ people[b].balance \in Int
      BY <3>2 DEF ListRows, PersonTypes
    <3> QED BY <3>1, <3>3, <3>4 DEF Lists!Above
  <2> QED BY <2>2, <2>3
<1>2. /\ s \in [1 .. n -> RowsOf(link)] /\ q \in [1 .. n -> RowsOf(link)] /\ n \in Nat
      /\ \A i, j \in 1 .. n : s[i] = s[j] => i = j
      /\ \A i, j \in 1 .. n : q[i] = q[j] => i = j
      /\ \A x \in RowsOf(link) : (\E i \in 1 .. n : s[i] = x) /\ (\E i \in 1 .. n : q[i] = x)
  <2>1. /\ Len(s) = n /\ n \in Nat /\ s \in [1 .. Len(s) -> RowsOf(link)]
        /\ \A i, j \in 1 .. Len(s) : s[i] = s[j] => i = j
        /\ \A x \in RowsOf(link) : \E i \in 1 .. Len(s) : s[i] = x
    BY <1>0, SortedRows
  <2>2. /\ Len(q) = n /\ q \in [1 .. Len(q) -> RowsOf(link)]
        /\ \A i, j \in 1 .. Len(q) : q[i] = q[j] => i = j
        /\ \A x \in RowsOf(link) : \E i \in 1 .. Len(q) : q[i] = x
    BY <1>0, SortedRows
  <2> HIDE DEF n
  <2> QED BY <2>1, <2>2
<1>3. \A i, j \in 1 .. n : i < j => ~Lists!Above(f, s[j], s[i]) /\ ~Lists!Above(f, q[j], q[i])
  BY <1>2 DEF Lists!Sorted
<1> HIDE DEF f, n
<1> SUFFICES ASSUME s # q PROVE FALSE
  OBVIOUS
<1> DEFINE T == {k \in 1 .. n : s[k] # q[k]}
<1>4. T \in SUBSET Nat /\ T # {}
  <2>1. 1 .. n \subseteq Nat
    BY <1>2
  <2>2. \E k \in 1 .. n : s[k] # q[k]
    BY <1>2
  <2> QED BY <2>1, <2>2
<1>5. PICK i \in T : \A k \in T : i <= k
  BY <1>4, LeastOf
<1>6. i \in 1 .. n /\ s[i] # q[i] /\ \A k \in 1 .. n : k < i => s[k] = q[k]
  BY <1>2, <1>5
<1>7. PICK j \in 1 .. n : q[j] = s[i]
  BY <1>2, <1>6
<1>8. PICK k \in 1 .. n : s[k] = q[i]
  BY <1>2, <1>6
<1>9. i < j
  <2>1. j # i
    BY <1>6, <1>7
  <2>2. ~(j < i)
    BY <1>2, <1>6, <1>7
  <2> QED BY <1>2, <1>6, <2>1, <2>2
<1>10. i < k
  <2>1. k # i
    BY <1>6, <1>8
  <2>2. ~(k < i)
    BY <1>2, <1>6, <1>8
  <2> QED BY <1>2, <1>6, <2>1, <2>2
<1>11. ~Lists!Above(f, s[i], q[i]) /\ ~Lists!Above(f, q[i], s[i])
  BY <1>3, <1>6, <1>7, <1>8, <1>9, <1>10
<1>12. s[i] \in RowsOf(link) /\ q[i] \in RowsOf(link)
  BY <1>2, <1>6
<1> QED BY <1>1, <1>6, <1>11, <1>12

\* Sets that share nothing, together.
LEMMA ApartTogether ==
  ASSUME NEW S, NEW T, IsFiniteSet(S), IsFiniteSet(T), S \intersect T = {}
  PROVE  IsFiniteSet(S \union T) /\ Cardinality(S \union T) = Cardinality(S) + Cardinality(T)
<1>1. /\ IsFiniteSet(S \union T)
      /\ Cardinality(S \union T) = Cardinality(S) + Cardinality(T) - Cardinality(S \intersect T)
  BY FS_Union
<1>2. Cardinality(S \intersect T) = 0 /\ Cardinality(S) \in Nat /\ Cardinality(T) \in Nat
  BY FS_EmptySet, FS_CardinalityType
<1> QED BY <1>1, <1>2

\* TABS: every order has one status, and the tabs that count them add up.
LEMMA CountsAdd ==
  ASSUME ListRows, NEW f
  PROVE  Lists!Counts(f) \in [Lists!Tabs -> Nat] /\ TabsAdd(Lists!Counts(f))
<1> DEFINE A(tab) == Lists!Filtered(f) \intersect Lists!Having(Lists!Statuses(tab))
<1>1. Lists!Filtered(f) \subseteq Lists!Booked
  BY DEF Lists!Filtered, Lists!Within
<1>2. \A tab \in Lists!Tabs : /\ IsFiniteSet(A(tab)) /\ Lists!Cardinality(A(tab)) = Cardinality(A(tab))
                             /\ Cardinality(A(tab)) \in Nat
  <2> SUFFICES ASSUME NEW tab \in Lists!Tabs
               PROVE  /\ IsFiniteSet(A(tab)) /\ Lists!Cardinality(A(tab)) = Cardinality(A(tab))
                      /\ Cardinality(A(tab)) \in Nat
    OBVIOUS
  <2>1. A(tab) \in SUBSET Lists!Booked
    BY <1>1
  <2> HIDE DEF A
  <2> QED BY <2>1, TripCounts
<1>3. /\ Lists!Counts(f) \in [Lists!Tabs -> Nat]
      /\ \A tab \in Lists!Tabs : Lists!Counts(f)[tab] = Cardinality(A(tab))
  <2>1. Lists!Counts(f) = [tab \in Lists!Tabs |-> Lists!Cardinality(A(tab))]
    BY DEF Lists!Counts
  <2> HIDE DEF A
  <2> QED BY <1>2, <2>1
<1>4. /\ A("all") = ((A("unassigned") \union A("active")) \union A("completed")) \union A("cancelled")
      /\ A("unassigned") \intersect A("active") = {}
      /\ (A("unassigned") \union A("active")) \intersect A("completed") = {}
      /\ ((A("unassigned") \union A("active")) \union A("completed")) \intersect A("cancelled") = {}
  BY DEF Lists!Statuses, Lists!Having, Lists!Active, Lists!Waiting, Lists!Ended
<1>5. {"all", "unassigned", "active", "completed", "cancelled"} \subseteq Lists!Tabs
  BY DEF Lists!Tabs
<1> HIDE DEF A
<1>6. PICK all, una, act, com, can :
        /\ all = A("all") /\ una = A("unassigned") /\ act = A("active") /\ com = A("completed") /\ can = A("cancelled")
        /\ IsFiniteSet(una) /\ IsFiniteSet(act) /\ IsFiniteSet(com) /\ IsFiniteSet(can)
  BY <1>2, <1>5
<1>7. Cardinality(all) = Cardinality(una) + Cardinality(act) + Cardinality(com) + Cardinality(can)
  <2>1. IsFiniteSet(una \union act) /\ Cardinality(una \union act) = Cardinality(una) + Cardinality(act)
    BY <1>4, <1>6, ApartTogether
  <2>2. /\ IsFiniteSet((una \union act) \union com)
        /\ Cardinality((una \union act) \union com) = Cardinality(una \union act) + Cardinality(com)
    BY <1>4, <1>6, <2>1, ApartTogether
  <2>3. Cardinality(((una \union act) \union com) \union can) = Cardinality((una \union act) \union com) + Cardinality(can)
    BY <1>4, <1>6, <2>2, ApartTogether
  <2> QED BY <1>4, <1>6, <2>1, <2>2, <2>3
<1> QED BY <1>3, <1>5, <1>6, <1>7 DEF TabsAdd

\* payouts: the sum of what it lists.
LEMMA BalanceSums ==
  ASSUME ListRows, NEW S \in SUBSET People
  PROVE  Lists!Balance(S) \in Int
<1> DEFINE f == [d \in People |-> people[d].balance]
<1>1. f \in [People -> Int]
  BY DEF ListRows, PersonTypes
<1>2. Lists!Balance(S) = SumFunctionOnSet(f, S) /\ IsFiniteSet(S)
  BY ListSums, RowsAssumption, FS_Subset DEF Lists!Balance
<1> HIDE DEF f
<1> QED BY <1>1, <1>2, SumOne

\* What does not touch the rows leaves a walk whole.
LEMMA WholeSame ==
  ASSUME ListRows, NEW w \in WalkTypes, WalkKept(w, moves, Cardinality(RowsOf(w.name))), WalkWhole(w),
         UNCHANGED <<trips, people, about, moves>>
  PROVE  WalkKept(w, moves, Cardinality(RowsOf(w.name)))' /\ WalkWhole(w)'
<1>1. w.name \in NumberNames
  BY DEF WalkTypes
<1>2. RowsOf(w.name)' = RowsOf(w.name)
  BY <1>1, SameRows
<1>3. OneOrder' = OneOrder
  BY DEF OneOrder
<1>4. Lists!NumberNames' = Lists!NumberNames
  BY DEF Lists!NumberNames
<1>5. Lists!Balance(RowsOf(w.name))' = Lists!Balance(RowsOf(w.name))
  BY <1>2 DEF Lists!Balance, Lists!SumFunctionOnSet, Lists!FoldFunctionOnSet, Lists!MapThenFoldSet, Lists!Booked
<1>6. Lists!Sorted(Lists!Link(w.name))' = Lists!Sorted(Lists!Link(w.name))
  BY <1>2 DEF Lists!Sorted, Lists!SetToSeqs, Lists!Above, RowsOf
<1>7. SeenWell(w)' = SeenWell(w)
  BY <1>2, <1>6 DEF SeenWell, Done, First, Before
<1>8. WalkKept(w, moves, Cardinality(RowsOf(w.name)))'
  BY <1>2
<1>9. WalkWhole(w)'
  BY <1>2, <1>3, <1>4, <1>5, <1>7 DEF WalkWhole
<1> QED BY <1>8, <1>9

\* A step from one walk to another, over the same rows.
WalksTo(v) == /\ walk' = v /\ UNCHANGED <<trips, people, about, moves>>
              /\ WalkKept(v, moves, Cardinality(RowsOf(v.name))) /\ WalkWhole(v)

\* A walk that fits goes on.
LEMMA WalkStep ==
  ASSUME ListRows, NEW v \in WalkTypes, WalksTo(v)
  PROVE  WalkGoes'
<1>1. WalkKept(v, moves, Cardinality(RowsOf(v.name)))' /\ WalkWhole(v)'
  BY WholeSame DEF WalksTo
<1> QED BY <1>1 DEF WalkGoes, WalksTo

\* The names of a walk's list.
LEMMA NamesFit ==
  ASSUME ListRows, NEW link \in Lists!NumberNames
  PROVE  /\ link \in NumberNames
         /\ about = "payouts" => link \in {"owed", "balances"} /\ link \in DriverNames
         /\ about = "orders" => link \notin DriverNames
BY DEF ListRows, Lists!NumberNames, NumberNames, DriverNames

\* A number is shown, and its list is opened.
LEMMA ShowKept ==
  ASSUME ListRows, moves \in Nat, NEW link \in Lists!NumberNames, Lists!Show(link)
  PROVE  WalkGoes'
<1> DEFINE zero == [tab \in Lists!Tabs |-> 0]
           v == [step |-> "shown", name |-> link, number |-> Lists!Number(link), page |-> 0, count |-> 0,
                 sum |-> 0, tabs |-> zero, seen |-> <<>>]
           n == Cardinality(RowsOf(link))
<1>1. walk' = v /\ UNCHANGED <<trips, people, about, moves>>
  BY DEF Lists!Show
<1>2. link \in NumberNames /\ n \in Nat /\ NumberFits(Lists!Number(link), link, n)
  <2>1. link \in NumberNames
    BY NamesFit
  <2> QED BY <2>1, RowsFinite, NumberRows
<1>3. zero \in [Lists!Tabs -> Nat] /\ TabsAdd(zero)
  BY DEF TabsAdd, Lists!Tabs
<1> HIDE DEF zero
<1>4. v \in WalkTypes
  BY <1>2, <1>3 DEF WalkTypes, NumberFits
<1>5. /\ v.step = "shown" /\ v.name = link /\ v.number = Lists!Number(link) /\ v.page = 0 /\ v.seen = <<>>
      /\ v.tabs = zero
  OBVIOUS
<1> HIDE DEF v, n
<1>6. WalkKept(v, moves, n)
  BY <1>2, <1>4, <1>5, WalkShows
<1>7. WalkWhole(v)
  <2>1. Done(v, n) = 0
    BY <1>5 DEF Done
  <2> QED BY <1>3, <1>5, <2>1 DEF WalkWhole, SeenWell, n
<1> QED BY <1>1, <1>4, <1>5, <1>6, <1>7, WalkStep DEF WalksTo, n

\* The paginator counts the rows.
LEMMA CountKept ==
  ASSUME ListRows, moves \in Nat, WalkGoes, Lists!CountPage
  PROVE  WalkGoes'
<1>0. walk.step # "none" /\ UNCHANGED <<trips, people, about, moves>>
  BY DEF Lists!CountPage
<1>1. PICK w \in WalkTypes : walk = w /\ WalkKept(w, moves, Cardinality(RowsOf(w.name))) /\ WalkWhole(w)
  BY <1>0 DEF WalkGoes
<1>2. w.page \in Nat /\ w.count \in Nat /\ w.name \in NumberNames /\ w.step \in {"shown", "counted", "read"}
  BY DEF WalkTypes
<1>3. PICK next \in Nat \ {0} : /\ Lists!Count(next)
                               /\ \/ w.step = "shown" /\ next = 1
                                  \/ w.step = "read" /\ More(w) /\ next = w.page + 1
  <2>1. CASE w.step = "shown" /\ Lists!Count(1)
    BY <2>1
  <2>2. CASE w.step = "read" /\ w.page < Lists!Pages(w.count) /\ Lists!Count(w.page + 1)
    BY <1>2, <2>2 DEF More
  <2> QED BY <1>1, <2>1, <2>2 DEF Lists!CountPage
<1> DEFINE f    == Lists!Link(w.name)
           n    == Cardinality(RowsOf(w.name))
           at   == IF next <= Lists!Pages(n) THEN next ELSE Lists!Pages(n)
           sum  == IF about = "payouts" THEN Lists!Balance(RowsOf(w.name)) ELSE 0
           tabs == IF about = "orders" THEN Lists!Counts(f) ELSE w.tabs
           v == [step |-> "counted", name |-> w.name, number |-> w.number, page |-> at, count |-> n,
                 sum |-> sum, tabs |-> tabs, seen |-> w.seen]
<1>4. n \in Nat /\ Lists!Cardinality(RowsOf(w.name)) = n
  BY <1>2, RowsFinite, ListNumbers
<1>5. Lists!Pages(n) \in Nat \ {0} /\ Lists!Min({next, Lists!Pages(n)}) = at
  <2>1. Lists!Pages(n) \in Nat \ {0}
    BY <1>4, PagesFit
  <2> QED BY <2>1, ListMin
<1>6. walk' = [w EXCEPT !.step = "counted", !.count = n, !.page = at, !.sum = sum, !.tabs = tabs]
  BY <1>1, <1>3, <1>4, <1>5 DEF Lists!Count, RowsOf
<1>7. w = [step |-> w.step, name |-> w.name, number |-> w.number, page |-> w.page, count |-> w.count,
           sum |-> w.sum, tabs |-> w.tabs, seen |-> w.seen]
  BY DEF WalkTypes
<1>8. sum \in Int
  <2>1. about = "payouts" => RowsOf(w.name) \in SUBSET People
    BY <1>1, <1>2, RowsFinite, NamesFit DEF WalkWhole
  <2> QED BY <2>1, BalanceSums
<1>9. tabs \in [Lists!Tabs -> Nat] /\ TabsAdd(tabs)
  <2>1. w.tabs \in [Lists!Tabs -> Nat] /\ TabsAdd(w.tabs)
    BY <1>1 DEF WalkTypes, WalkWhole
  <2> QED BY <2>1, CountsAdd
<1>10. about = "payouts" => sum = Lists!Balance(RowsOf(w.name))
  OBVIOUS
<1>11. at \in Nat \ {0} /\ at = IF next <= Lists!Pages(n) THEN next ELSE Lists!Pages(n)
  BY <1>5
<1> HIDE DEF sum, tabs, at, n
<1>12. walk' = v
  BY <1>6, <1>7
<1>13. v \in WalkTypes
  <2>1. w.number \in Int /\ w.seen \in Seq(Nat)
    BY DEF WalkTypes
  <2> QED BY <1>2, <1>4, <1>8, <1>9, <1>11, <2>1 DEF WalkTypes
<1>14. /\ v.step = "counted" /\ v.name = w.name /\ v.number = w.number /\ v.page = at /\ v.count = n /\ v.seen = w.seen
       /\ v.tabs = tabs /\ v.sum = sum
  OBVIOUS
<1> HIDE DEF v
<1>15. WalkKept(v, moves, n)
  BY <1>1, <1>3, <1>4, <1>11, <1>13, <1>14, WalkCounts DEF n
<1>16. moves = 0 /\ OneOrder => SeenWell(v)
  <2> SUFFICES ASSUME moves = 0, OneOrder PROVE SeenWell(v)
    OBVIOUS
  <2>0. WalkKept(w, 0, n) /\ SeenWell(w)
    BY <1>1 DEF WalkWhole, n
  <2>1. CASE w.step = "shown"
    <3>1. w.seen = <<>> /\ at = 1
      BY <1>3, <1>5, <1>11, <2>0, <2>1 DEF WalkKept
    <3>2. Done(v, n) = 0
      BY <1>4, <1>14, <3>1, BeforePage DEF Done, First
    <3> QED BY <1>14, <3>1, <3>2 DEF SeenWell, n
  <2>2. CASE w.step = "read"
    <3>1. w.count = n /\ next = w.page + 1 /\ More(w) /\ w.page \in Nat \ {0}
      BY <1>2, <1>3, <2>0, <2>2 DEF WalkKept
    <3>2. at = next
      BY <1>5, <1>11, <3>1 DEF More
    <3>3. Before(at) = Before(w.page) + Size
      BY <3>1, <3>2, BeforePage
    <3>4. Done(v, n) = Done(w, n)
      BY <1>14, <2>2, <3>3 DEF Done
    <3> QED BY <1>14, <2>0, <3>4 DEF SeenWell, n
  <2> QED BY <1>3, <2>1, <2>2
<1>17. WalkWhole(v)
  BY <1>1, <1>9, <1>10, <1>14, <1>16 DEF WalkWhole
<1> QED BY <1>0, <1>12, <1>13, <1>14, <1>15, <1>17, WalkStep DEF WalksTo, n

\* The paginator reads the rows of its page.
LEMMA ReadKept ==
  ASSUME ListRows, moves \in Nat, WalkGoes, Lists!ReadPage
  PROVE  WalkGoes'
<1>0. walk.step = "counted" /\ UNCHANGED <<trips, people, about, moves>>
  BY DEF Lists!ReadPage
<1>1. PICK w \in WalkTypes : walk = w /\ WalkKept(w, moves, Cardinality(RowsOf(w.name))) /\ WalkWhole(w)
  BY <1>0 DEF WalkGoes
<1>2. w.page \in Nat \ {0} /\ w.count \in Nat /\ w.name \in NumberNames /\ w.seen \in Seq(Nat)
  BY <1>0, <1>1 DEF WalkTypes, WalkKept
<1>3. PICK s \in Lists!Sorted(Lists!Link(w.name)) :
        walk' = [w EXCEPT !.step = "read", !.seen = w.seen \o Lists!PageOf(s, w.page)]
  BY <1>1 DEF Lists!ReadPage
<1> DEFINE n    == Cardinality(RowsOf(w.name))
           a    == Before(w.page)
           rows_ == Lists!PageOf(s, w.page)
           seen == w.seen \o rows_
           v == [step |-> "read", name |-> w.name, number |-> w.number, page |-> w.page, count |-> w.count,
                 sum |-> w.sum, tabs |-> w.tabs, seen |-> seen]
<1>4. s \in Seq(Nat) /\ Len(s) = n /\ n \in Nat /\ a \in Nat
  BY <1>2, SortedRows, BeforePage
<1>5. /\ rows_ \in Seq(Nat) /\ Len(rows_) = OnPage(n, a)
      /\ SubSeq(s, 1, First(n, a)) \o rows_ = SubSeq(s, 1, First(n, a + Size))
  <2>1. PICK b \in Nat : b = a
    BY <1>4
  <2>2. /\ rows_ \in Seq(Nat) /\ Len(rows_) = OnPage(Len(s), b)
        /\ SubSeq(s, 1, First(Len(s), b)) \o rows_ = SubSeq(s, 1, First(Len(s), b + Size))
    BY <1>2, <1>4, <2>1, PageRows
  <2> HIDE DEF n, rows_
  <2> QED BY <1>4, <2>1, <2>2
<1> HIDE DEF rows_
<1>6. seen \in Seq(Nat) /\ Len(seen) = Len(w.seen) + OnPage(n, a)
  BY <1>2, <1>5, ConcatProperties
<1>7. w = [step |-> w.step, name |-> w.name, number |-> w.number, page |-> w.page, count |-> w.count,
           sum |-> w.sum, tabs |-> w.tabs, seen |-> w.seen]
  BY DEF WalkTypes
<1>8. walk' = v
  <2>1. walk' = [w EXCEPT !.step = "read", !.seen = seen]
    BY <1>3 DEF rows_
  <2> HIDE DEF seen
  <2> QED BY <1>7, <2>1
<1>9. /\ v.step = "read" /\ v.name = w.name /\ v.number = w.number /\ v.page = w.page /\ v.count = w.count
      /\ v.seen = seen /\ v.tabs = w.tabs /\ v.sum = w.sum
  OBVIOUS
<1>10. v \in WalkTypes
  <2>1. w.number \in Int /\ w.sum \in Int /\ w.tabs \in [Lists!Tabs -> Nat] /\ w.page \in Nat
    BY DEF WalkTypes
  <2> HIDE DEF seen
  <2> QED BY <1>2, <1>6, <2>1 DEF WalkTypes
<1> HIDE DEF v
<1>11. WalkKept(v, moves, n)
  <2> HIDE DEF n
  <2>1. Len(v.seen) = Len(w.seen) + OnPage(n, Before(w.page))
    BY <1>6, <1>9
  <2>2. w.step = "counted" /\ WalkKept(w, moves, n)
    BY <1>0, <1>1 DEF n
  <2> QED BY <1>4, <1>9, <1>10, <2>1, <2>2, WalkReads
<1>12. moves = 0 /\ OneOrder => SeenWell(v)
  <2> SUFFICES ASSUME moves = 0, OneOrder PROVE SeenWell(v)
    OBVIOUS
  <2>1. SeenWell(w) /\ w.name \in Lists!NumberNames
    BY <1>1 DEF WalkWhole
  <2>2. Done(w, n) = First(n, a) /\ Done(v, n) = First(n, a + Size)
    BY <1>0, <1>1, <1>9 DEF Done
  <2>3. w.seen = SubSeq(s, 1, First(n, a))
    <3>1. CASE First(n, a) = 0 /\ w.seen = <<>>
      <4>1. SubSeq(s, 1, 0) = <<>>
        BY <1>4
      <4> QED BY <3>1, <4>1
    <3>2. ASSUME NEW q \in Lists!Sorted(Lists!Link(w.name)), w.seen = SubSeq(q, 1, First(n, a))
          PROVE  w.seen = SubSeq(s, 1, First(n, a))
      BY <2>1, <3>2, SortedOnce
    <3> QED BY <2>1, <2>2, <3>1, <3>2 DEF SeenWell, n
  <2>4. v.seen = SubSeq(s, 1, Done(v, n))
    BY <1>5, <1>9, <2>2, <2>3
  <2> QED BY <1>9, <2>4 DEF SeenWell, n
<1>13. WalkWhole(v)
  BY <1>0, <1>1, <1>9, <1>12 DEF WalkWhole
<1> QED BY <1>0, <1>8, <1>9, <1>10, <1>11, <1>13, WalkStep DEF WalksTo, n

\* A list has finitely many rows, also after a step.
LEMMA RowsThen ==
  ASSUME ListRows, ListRows', NEW link \in NumberNames
  PROVE  Cardinality(RowsOf(link))' \in Nat
<1>1. (Cardinality(RowsOf(link)) \in Nat)'
  BY RowsFinite, PTL
<1> QED BY <1>1

\* A row changes between two queries of a walk.
LEMMA ChangeKept ==
  ASSUME ListRows, moves \in Nat, WalkGoes, RowsChange
  PROVE  WalkGoes'
<1>1. CASE walk = [step |-> "none"]
  BY <1>1 DEF RowsChange, WalkGoes
<1>2. ASSUME NEW w \in WalkTypes, walk = w, WalkKept(w, moves, Cardinality(RowsOf(w.name))), WalkWhole(w)
      PROVE  WalkGoes'
  <2>1. w.name \in NumberNames /\ walk' = w /\ moves' = moves + 1 /\ about' = about
    BY <1>2 DEF WalkTypes, RowsChange
  <2>2. /\ Cardinality(RowsOf(w.name)) <= Cardinality(RowsOf(w.name))' + 1
        /\ Cardinality(RowsOf(w.name))' <= Cardinality(RowsOf(w.name)) + 1
    BY <2>1 DEF RowsChange, CloseRows
  <2>3. Cardinality(RowsOf(w.name)) \in Nat
    BY <2>1, RowsFinite
  <2>4. Cardinality(RowsOf(w.name))' \in Nat
    <3>1. ListRows'
      BY DEF RowsChange
    <3> QED BY <2>1, <3>1, RowsThen
  <2>5. WalkKept(w, moves, Cardinality(RowsOf(w.name)))'
    <3>1. PICK k \in Nat : k = Cardinality(RowsOf(w.name))'
      BY <2>4
    <3>2. WalkKept(w, moves + 1, k)
      BY <1>2, <2>2, <2>3, <3>1, WalkChanges
    <3> QED BY <2>1, <3>1, <3>2
  <2>6. WalkWhole(w)'
    <3>1. Lists!NumberNames' = Lists!NumberNames /\ moves' # 0
      BY <2>1 DEF Lists!NumberNames
    <3> QED BY <1>2, <3>1 DEF WalkWhole
  <2> QED BY <2>1, <2>5, <2>6 DEF WalkGoes
<1> QED BY <1>1, <1>2 DEF WalkGoes

\* Walked to the end, a list shows what its number says, and, while nothing changes, all of it.
LEMMA WalkedWell ==
  ASSUME ListRows, moves \in Nat, WalkGoes
  PROVE  Lists!NumberIsList /\ Lists!ListIsWhole
<1>1. CASE walk = [step |-> "none"]
  BY <1>1 DEF Lists!NumberIsList, Lists!ListIsWhole, Lists!Walked
<1>2. ASSUME NEW w \in WalkTypes, walk = w, WalkKept(w, moves, Cardinality(RowsOf(w.name))), WalkWhole(w)
      PROVE  Lists!NumberIsList /\ Lists!ListIsWhole
  <2> DEFINE n == Cardinality(RowsOf(w.name))
  <2>1. w.name \in NumberNames /\ w.page \in Nat /\ w.seen \in Seq(Nat) /\ Len(w.seen) \in Nat /\ n \in Nat
        /\ w.count \in Nat /\ w.number \in Int
    <3>1. w.name \in NumberNames /\ w.page \in Nat /\ w.seen \in Seq(Nat) /\ w.count \in Nat /\ w.number \in Int
      BY DEF WalkTypes
    <3> QED BY <3>1, RowsFinite
  <2> HIDE DEF n
  <2>2. WalkKept(w, moves, n)
    BY <1>2 DEF n
  <2>3. Lists!Walked <=> w.step = "read" /\ w.page = Lists!Pages(w.count)
    BY <1>2 DEF Lists!Walked
  <2>4. Lists!NumberIsList
    <3> SUFFICES ASSUME Lists!Walked
                 PROVE  /\ w.name \notin {"over3Hours", "found"} => Len(w.seen) <= w.number + moves + Lists!Again
                        /\ w.name # "notDelivered" => w.number <= Len(w.seen) + moves
                        /\ w.name = "notDelivered" /\ moves = 0 /\ w.number > 0 => Len(w.seen) > 0
      BY <1>2 DEF Lists!NumberIsList
    <3>1. ~More(w) /\ OnLast(w)
      BY <2>1, <2>3, PagesFit DEF More, OnLast
    <3>2. Shows(w, n) = Len(w.seen)
      BY <2>1, <2>3, <3>1 DEF Shows, Rest
    <3>3. Lists!Again = Repeats(moves)
      BY DEF Lists!Again, Repeats
    <3> QED BY <2>2, <3>1, <3>2, <3>3 DEF WalkKept, AtMost, Least
  <2>5. TabsAdd(w.tabs)
    BY <1>2 DEF WalkWhole
  <2>6. Lists!Walked /\ moves = 0 /\ about = "payouts" => w.sum = Lists!Balance(RowsOf(w.name))
    BY <1>2, <2>3 DEF WalkWhole
  <2>7. ASSUME Lists!Walked, moves = 0, OneOrder
        PROVE  Lists!ToSet(w.seen) = RowsOf(w.name) /\ Lists!IsInjective(w.seen)
    <3>1. w.step = "read" /\ w.page = Lists!Pages(n) /\ w.page \in Nat \ {0}
      BY <2>1, <2>2, <2>3, <2>7, PagesFit DEF WalkKept
    <3>2. n <= Before(w.page) + Size
      <4>1. ~(w.page < Lists!Pages(n))
        BY <3>1
      <4>2. ~(Before(w.page) + Size < n)
        BY <2>1, <3>1, <4>1, PagesFit
      <4>3. PICK a \in Nat : a = Before(w.page)
        BY <3>1, BeforePage
      <4> QED BY <2>1, <4>2, <4>3, PageSize
    <3>3. Done(w, n) = n
      BY <3>1, <3>2 DEF Done, First
    <3>4. SeenWell(w)
      BY <1>2, <2>7 DEF WalkWhole
    <3>5. CASE n = 0 /\ w.seen = <<>>
      <4>1. RowsOf(w.name) = {}
        BY <2>1, <3>5, RowsFinite, FS_EmptySet DEF n
      <4> QED BY <3>5, <4>1 DEF Lists!ToSet, Lists!IsInjective
    <3>6. ASSUME NEW s \in Lists!Sorted(Lists!Link(w.name)), w.seen = SubSeq(s, 1, n)
          PROVE  Lists!ToSet(w.seen) = RowsOf(w.name) /\ Lists!IsInjective(w.seen)
      <4>1. /\ s \in Seq(Nat) /\ Len(s) = n /\ s \in [1 .. n -> RowsOf(w.name)]
            /\ \A i, j \in 1 .. n : s[i] = s[j] => i = j
            /\ \A x \in RowsOf(w.name) : \E i \in 1 .. n : s[i] = x
        <5>1. /\ s \in Seq(Nat) /\ Len(s) = n /\ s \in [1 .. Len(s) -> RowsOf(w.name)]
              /\ \A i, j \in 1 .. Len(s) : s[i] = s[j] => i = j
              /\ \A x \in RowsOf(w.name) : \E i \in 1 .. Len(s) : s[i] = x
          BY <2>1, SortedRows DEF n
        <5> QED BY <5>1
      <4>2. w.seen = s
        <5>1. /\ Len(SubSeq(s, 1, n)) = n /\ SubSeq(s, 1, n) \in Seq(Nat)
              /\ \A i \in 1 .. n : SubSeq(s, 1, n)[i] = s[i]
          BY <2>1, <4>1
        <5> QED BY <3>6, <4>1, <5>1, SeqEqual
      <4>3. DOMAIN w.seen = 1 .. n
        BY <4>1, <4>2
      <4> QED BY <4>1, <4>2, <4>3 DEF Lists!ToSet, Lists!IsInjective
    <3> QED BY <3>3, <3>4, <3>5, <3>6 DEF SeenWell, n
  <2>8. ~OneOrder => about = "payouts" /\ \E d, e \in People : d # e /\ people[d].balance = people[e].balance
    BY DEF OneOrder
  <2>9. Lists!ListIsWhole
    BY <1>2, <2>5, <2>6, <2>7, <2>8 DEF Lists!ListIsWhole, TabsAdd, RowsOf
  <2> QED BY <2>4, <2>9
<1> QED BY <1>1, <1>2 DEF WalkGoes

----------------------------------------------------------------------------
(* The live map.                                                           *)

\* The trips that are open; those live_data asks for; who is on duty.
Open   == Lists!Having(Lists!Active \union Lists!Waiting)
Online == {d \in People : people[d].online}
PollFits(p) == /\ p.trips = Lists!Newest(Open)
               /\ p.busy = {trips[t].driver : t \in Lists!Newest(Open)} \ {0}
               /\ p.ready => p.online = Online
PollTypes == [ready : BOOLEAN, trips : SUBSET Nat, busy : SUBSET Nat, online : SUBSET Nat]

\* Until something changes, every answer is true of the rows.
FitPolls == {p \in PollTypes : PollFits(p)}
PollsFit == moves = 0 => polls \in Seq(FitPolls) /\ (map.ready => map \in FitPolls)

\* A list that was not cut has every open trip.
LEMMA NotCut ==
  ASSUME NEW n \in Nat, NEW S \in SUBSET (1 .. n), Cardinality(Lists!Newest(S)) < LiveTrips
  PROVE  Lists!Newest(S) = S
<1>1. Lists!Newest(S) \subseteq S /\ IsFiniteSet(1 .. n) /\ LiveTrips \in Nat
  BY FS_Interval, LengthsAssumption DEF Lists!Newest
<1> SUFFICES ASSUME S \ Lists!Newest(S) # {} PROVE FALSE
  BY <1>1
<1> DEFINE T == S \ Lists!Newest(S)
           t == Last(T)
           U == {u \in S : u > t}
<1>2. t \in T /\ \A u \in T : t >= u
  <2>1. T \in SUBSET (1 .. n) /\ T # {}
    OBVIOUS
  <2> HIDE DEF T
  <2> QED BY <2>1, LastIn
<1> HIDE DEF t
<1>3. U \in SUBSET Lists!Newest(S)
  <2>1. \A u \in U : u \notin T
    <3> SUFFICES ASSUME NEW u \in U, u \in T PROVE FALSE
      OBVIOUS
    <3>1. u \in Nat /\ t \in Nat /\ u > t /\ t >= u
      BY <1>2
    <3> QED BY <3>1
  <2> QED BY <2>1
<1>4. IsFiniteSet(Lists!Newest(S))
  BY <1>1, FS_Subset
<1>5. Cardinality(U) <= Cardinality(Lists!Newest(S)) /\ Cardinality(U) \in Nat /\ Cardinality(Lists!Newest(S)) \in Nat
  BY <1>3, <1>4, FS_Subset, FS_CardinalityType
<1>6. Cardinality(U) < LiveTrips
  BY <1>1, <1>5
<1>7. Lists!Cardinality(U) < LiveTrips
  BY <1>6, ListNumbers
<1>8. t \in Lists!Newest(S)
  BY <1>2, <1>7 DEF Lists!Newest
<1> QED BY <1>2, <1>8

\* What is true of the rows is what the map may show.
LEMMA MapFits ==
  ASSUME ListRows, PollsFit
  PROVE  Lists!MapIsTrue
<1> SUFFICES ASSUME map.ready, moves = 0
             PROVE  /\ map.online \intersect map.busy \subseteq Lists!Busy
                    /\ Lists!Cardinality(map.trips) < LiveTrips => map.online \intersect Lists!Busy \subseteq map.busy
  BY DEF Lists!MapIsTrue
<1>1. PollFits(map)
  BY DEF PollsFit, FitPolls
<1>2. Open \subseteq Lists!Booked /\ Lists!Newest(Open) \subseteq Open /\ 0 \notin People
  BY RowsAssumption DEF Open, Lists!Having, Lists!Newest
<1>3. map.busy \subseteq Lists!Busy
  <2> SUFFICES ASSUME NEW t \in Lists!Newest(Open), trips[t].driver # 0 PROVE trips[t].driver \in Lists!Busy
    BY <1>1 DEF PollFits
  <2>1. t \in Lists!Booked /\ trips[t].status \in Lists!Active \union Lists!Waiting
    BY <1>2 DEF Open, Lists!Having
  <2>2. trips[t].status \notin Lists!Waiting
    BY <2>1, TripRow DEF RowFits
  <2> QED BY <2>1, <2>2 DEF Lists!Busy, Lists!Having
<1>4. ASSUME Lists!Cardinality(map.trips) < LiveTrips
      PROVE  Lists!Busy \subseteq map.busy
  <2>1. Lists!Newest(Open) = Open
    <3>1. Cardinality(Lists!Newest(Open)) < LiveTrips
      BY <1>1, <1>4, ListNumbers DEF PollFits
    <3>2. Len(trips) \in Nat /\ Open \in SUBSET (1 .. Len(trips))
      BY <1>2 DEF ListRows, Lists!Booked
    <3> QED BY <3>1, <3>2, NotCut
  <2> SUFFICES ASSUME NEW t \in Lists!Having(Lists!Active) PROVE trips[t].driver \in map.busy
    BY DEF Lists!Busy
  <2>2. t \in Open /\ t \in Lists!Booked /\ trips[t].status \in Lists!Active
    BY DEF Open, Lists!Having
  <2>3. trips[t].driver # 0
    BY <1>2, <2>2, TripRow DEF RowFits
  <2> QED BY <1>1, <2>1, <2>2, <2>3 DEF PollFits
<1> QED BY <1>3, <1>4

\* What was true of the rows stays so while they are the same.
LEMMA SameFits ==
  ASSUME UNCHANGED <<trips, people>>
  PROVE  FitPolls' = FitPolls
<1>1. Open' = Open /\ Online' = Online
  BY DEF Open, Online, Lists!Having, Lists!Booked
<1>2. Lists!Newest(Open)' = Lists!Newest(Open)
  BY <1>1 DEF Lists!Newest
<1> QED BY <1>1, <1>2 DEF FitPolls, PollFits

\* The live map asks for its trips.
LEMMA AskedKept ==
  ASSUME ListRows, moves \in Nat, PollsFit, Lists!LiveAsked
  PROVE  PollsFit'
<1> DEFINE most == Lists!Newest(Open)
           p == [ready |-> FALSE, trips |-> most, busy |-> {trips[t].driver : t \in most} \ {0}, online |-> {}]
<1>1. polls' = Append(polls, p) /\ UNCHANGED <<trips, people, about, walk, map, moves>>
  BY DEF Lists!LiveAsked, Open, Lists!NoDriver
<1>2. p.ready = FALSE /\ p.trips = most /\ p.busy = {trips[t].driver : t \in most} \ {0}
  OBVIOUS
<1>3. p \in PollTypes
  <2>1. most \subseteq Lists!Booked
    BY DEF Lists!Newest, Open, Lists!Having
  <2>4. People \union {0} \subseteq Nat
    BY RowsAssumption
  <2>5. \A t \in Lists!Booked : t \in Nat /\ trips[t].driver \in Nat
    BY <2>4, TripRow
  <2>2. most \subseteq Nat /\ {trips[t].driver : t \in most} \subseteq Nat
    <3> HIDE DEF most
    <3> QED BY <2>1, <2>5
  <2> HIDE DEF most
  <2>3. most \in SUBSET Nat /\ {trips[t].driver : t \in most} \ {0} \in SUBSET Nat /\ {} \in SUBSET Nat
    BY <2>2
  <2> QED BY <2>3 DEF PollTypes
<1> HIDE DEF p
<1>4. p \in FitPolls
  BY <1>2, <1>3 DEF FitPolls, PollFits
<1>5. moves = 0 => polls' \in Seq(FitPolls)
  BY <1>1, <1>4 DEF PollsFit
<1> QED BY <1>1, <1>5, SameFits DEF PollsFit

\* The server answers.
LEMMA AnsweredKept ==
  ASSUME ListRows, moves \in Nat, PollsFit, NEW i \in DOMAIN polls, Lists!LiveAnswered(i)
  PROVE  PollsFit'
<1> DEFINE p == [ready |-> TRUE, trips |-> polls[i].trips, busy |-> polls[i].busy, online |-> Online]
<1>1. polls' = [polls EXCEPT ![i] = p] /\ UNCHANGED <<trips, people, about, walk, map, moves>>
  BY DEF Lists!LiveAnswered, Online
<1>2. ASSUME moves = 0 PROVE polls' \in Seq(FitPolls)
  <2>1. polls \in Seq(FitPolls)
    BY <1>2 DEF PollsFit
  <2>2. polls[i] \in PollTypes /\ PollFits(polls[i])
    BY <2>1 DEF FitPolls
  <2>4. p \in PollTypes /\ p.ready = TRUE /\ p.trips = polls[i].trips /\ p.busy = polls[i].busy /\ p.online = Online
    BY <2>2, RowsAssumption DEF PollTypes, Online
  <2> HIDE DEF p
  <2>5. p \in FitPolls
    BY <2>2, <2>4 DEF FitPolls, PollFits
  <2> QED BY <1>1, <2>1, <2>5
<1> QED BY <1>1, <1>2, SameFits DEF PollsFit

\* The answer is drawn.
LEMMA DrawnKept ==
  ASSUME ListRows, moves \in Nat, PollsFit, NEW i \in DOMAIN polls, Lists!LiveDrawn(i)
  PROVE  PollsFit'
<1>1. /\ map' = polls[i] /\ polls' = Lists!RemoveAt(polls, i)
      /\ UNCHANGED <<trips, people, about, walk, moves>>
  BY DEF Lists!LiveDrawn
<1>2. ASSUME moves = 0 PROVE polls' \in Seq(FitPolls) /\ map' \in FitPolls
  <2>1. polls \in Seq(FitPolls) /\ i \in 1 .. Len(polls) /\ Len(polls) \in Nat
    BY <1>2 DEF PollsFit
  <2>2. polls[i] \in FitPolls
    BY <2>1
  <2>3. SubSeq(polls, 1, i - 1) \in Seq(FitPolls) /\ SubSeq(polls, i + 1, Len(polls)) \in Seq(FitPolls)
    BY <2>1
  <2>4. SubSeq(polls, 1, i - 1) \o SubSeq(polls, i + 1, Len(polls)) \in Seq(FitPolls)
    BY <2>3, ConcatProperties
  <2> QED BY <1>1, <2>2, <2>4 DEF Lists!RemoveAt
<1> QED BY <1>1, <1>2, SameFits DEF PollsFit

----------------------------------------------------------------------------
(* What always holds of the lists.                                         *)

ListInv == ListRows /\ moves \in Nat /\ WalkGoes /\ PollsFit

\* Nothing is looked at yet.
LEMMA ListsStart ==
  ASSUME Init
  PROVE  ListInv
<1>1. ListRows
  BY ListRowsInit
<1>2. walk = [step |-> "none"] /\ polls = <<>> /\ map.ready = FALSE /\ moves = 0
  BY DEF Init, Lists!Init, Lists!NotDrawn
<1> QED BY <1>1, <1>2 DEF ListInv, WalkGoes, PollsFit

\* Every step of a page or of the tables keeps what is known of the lists.
LEMMA ListsGoOn ==
  ASSUME ListInv, [Next]_vars
  PROVE  ListInv'
<1> USE DEF ListInv
<1>1. CASE UNCHANGED lists
  <2>1. UNCHANGED <<trips, people, about, walk, polls, map, moves>>
    BY <1>1 DEF lists
  <2>2. ListRows'
    BY <2>1, SameRows
  <2>3. WalkGoes'
    <3>1. CASE walk = [step |-> "none"]
      BY <2>1, <3>1 DEF WalkGoes
    <3>2. ASSUME NEW w \in WalkTypes, walk = w, WalkKept(w, moves, Cardinality(RowsOf(w.name))), WalkWhole(w)
          PROVE  WalkGoes'
      BY <2>1, <3>2, WholeSame DEF WalkGoes
    <3> QED BY <3>1, <3>2 DEF WalkGoes
  <2>4. PollsFit'
    BY <2>1, SameFits DEF PollsFit
  <2> QED BY <2>1, <2>2, <2>3, <2>4
<1>2. CASE Lists!Next
  <2>1. ASSUME UNCHANGED <<trips, people, about>>
        PROVE  ListRows'
    BY <2>1, SameRows
  <2>2. ASSUME UNCHANGED <<trips, people, polls, map, moves>>
        PROVE  PollsFit'
    BY <2>2, SameFits DEF PollsFit
  <2>3. ASSUME UNCHANGED <<trips, people, about, walk, moves>>
        PROVE  WalkGoes'
    <3>1. CASE walk = [step |-> "none"]
      BY <2>3, <3>1 DEF WalkGoes
    <3>2. ASSUME NEW w \in WalkTypes, walk = w, WalkKept(w, moves, Cardinality(RowsOf(w.name))), WalkWhole(w)
          PROVE  WalkGoes'
      BY <2>3, <3>2, WholeSame DEF WalkGoes
    <3> QED BY <3>1, <3>2 DEF WalkGoes
  <2>4. CASE \E link \in Lists!NumberNames : Lists!Show(link)
    <3>1. UNCHANGED <<trips, people, about, polls, map, moves>>
      BY <2>4 DEF Lists!Show
    <3> QED BY <2>1, <2>2, <2>4, <3>1, ShowKept
  <2>5. CASE Lists!CountPage
    <3>1. UNCHANGED <<trips, people, about, polls, map, moves>>
      BY <2>5 DEF Lists!CountPage
    <3> QED BY <2>1, <2>2, <2>5, <3>1, CountKept
  <2>6. CASE Lists!ReadPage
    <3>1. UNCHANGED <<trips, people, about, polls, map, moves>>
      BY <2>6 DEF Lists!ReadPage
    <3> QED BY <2>1, <2>2, <2>6, <3>1, ReadKept
  <2>7. CASE Lists!LiveAsked
    <3>1. UNCHANGED <<trips, people, about, walk, map, moves>>
      BY <2>7 DEF Lists!LiveAsked
    <3> QED BY <2>1, <2>3, <2>7, <3>1, AskedKept
  <2>8. ASSUME NEW i \in DOMAIN polls, Lists!LiveAnswered(i) \/ Lists!LiveDrawn(i)
        PROVE  ListInv'
    <3>1. UNCHANGED <<trips, people, about, walk, moves>>
      BY <2>8 DEF Lists!LiveAnswered, Lists!LiveDrawn
    <3>2. PollsFit'
      BY <2>8, AnsweredKept, DrawnKept
    <3> QED BY <2>1, <2>3, <3>1, <3>2
  <2>9. CASE Lists!Book \/ (\E t \in Lists!Booked : Lists!MoveTrip(t)) \/ (\E d \in People : Lists!MovePerson(d))
    <3>1. RowsChange
      BY <2>9, ChangeRows
    <3>2. ListRows' /\ moves' \in Nat /\ moves' # 0
      BY <3>1 DEF RowsChange
    <3>3. WalkGoes'
      BY <3>1, ChangeKept
    <3> QED BY <3>2, <3>3 DEF PollsFit
  <2> QED BY <1>2, <2>4, <2>5, <2>6, <2>7, <2>8, <2>9 DEF Lists!Next
<1> QED BY <1>1, <1>2, ListSteps

\* console, dashboard, trip_list, kyc_queue, payouts and live_data: for any number of trips, drivers and rows on
\* a page, a link's number is the length of its list but for what changes meanwhile, paging leaves nothing out,
\* and the map tells who is busy.
THEOREM ListsKept == Spec => [](part = "lists" => Lists!ListsAgree)
<1>1. Init => ListInv
  BY ListsStart
<1>2. ListInv /\ [Next]_vars => ListInv'
  BY ListsGoOn
<1>3. ListInv => Lists!ListsAgree
  BY WalkedWell, MapFits DEF ListInv, Lists!ListsAgree
<1> QED BY <1>1, <1>2, <1>3, PTL DEF Spec

----------------------------------------------------------------------------
(* The reports.                                                            *)

\* A step of the program is one of the reports or leaves them alone.
LEMMA ReportSteps == [Next]_vars => (Report!Next /\ part' = part) \/ UNCHANGED <<part, reports>>
BY DEF Next, vars, office, DriverNext, SignInStep, SessionStep, PapersStep, GarageStep, ReportStep, VoiceStep, TeamStep,
  ApiStep, EventStep, ListStep, SeedStep, OrderStep

\* Counts, sums and the smaller of two are the library's.
LEMMA ReportNumbers ==
  ASSUME NEW S
  PROVE  Report!Cardinality(S) = Cardinality(S)
BY DEF Cardinality, IsFiniteSet, Report!Cardinality, Report!IsFiniteSet

\* A sum of a report's numbers is the library's.
LEMMA ReportSums ==
  ASSUME NEW f
  PROVE  Report!SumFunction(f) = SumFunctionOnSet(f, DOMAIN f)
BY DEF SumFunctionOnSet, FoldFunctionOnSet, MapThenFoldSet, Report!SumFunction, Report!SumFunctionOnSet,
  Report!FoldFunctionOnSet, Report!MapThenFoldSet

\* The ends of a period, the smaller first.
LEMMA ReportEnds ==
  ASSUME NEW a \in Int, NEW b \in Int
  PROVE  /\ Report!Min({a, b}) \in Int /\ Report!Max({a, b}) \in Int
         /\ Report!Min({a, b}) <= Report!Max({a, b})
<1>1. Report!Min({a, b}) = IF a <= b THEN a ELSE b
  BY DEF Report!Min
<1>2. Report!Max({a, b}) = IF a <= b THEN b ELSE a
  BY DEF Report!Max
<1> QED BY <1>1, <1>2

RowKinds == {"trip_earning", "bonus", "payout", "cod_cash", "assigned", "completed", "cancelled"}
TableRows == [kind : RowKinds, at : Nat, rupees : {3, 5}, n : Nat]

\* What a row moves the balance by.
Amounts == [r \in TableRows |-> Report!Amount(r)]

\* Amounts are numbers, and what was earned is not little.
LEMMA AmountTypes ==
  /\ Amounts \in [TableRows -> Int]
  /\ \A r \in TableRows : Report!Earned(r) => Amounts[r] >= 3
<1>1. \A r \in TableRows : r.rupees \in {3, 5}
  BY DEF TableRows
<1> QED BY <1>1 DEF Amounts, Report!Amount

\* A sum over rows is the sum of their amounts.
LEMMA TotalIs ==
  ASSUME NEW S \in SUBSET TableRows, IsFiniteSet(S)
  PROVE  Report!Total(S) = SumFunctionOnSet(Amounts, S) /\ Report!Total(S) \in Int
<1> DEFINE f == [r \in S |-> Report!Amount(r)]
<1>1. f \in [S -> Int] /\ \A r \in S : f[r] = Amounts[r]
  BY AmountTypes DEF Amounts
<1>2. Report!Total(S) = SumFunctionOnSet(f, S)
  <2>1. DOMAIN f = S
    OBVIOUS
  <2>2. Report!Total(S) = Report!SumFunction(f)
    BY DEF Report!Total
  <2> HIDE DEF f
  <2> QED BY <2>1, <2>2, ReportSums
<1> HIDE DEF f
<1>3. SumFunctionOnSet(f, S) = SumFunctionOnSet(Amounts, S)
  BY <1>1, AmountTypes, SumAlike
<1>4. SumFunctionOnSet(Amounts, S) \in Int
  BY AmountTypes, SumOne
<1> QED BY <1>2, <1>3, <1>4

\* The rows of a kind, the rows that were earned.
OfKind(S, what) == {r \in S : r.kind = what}
Earning(S)      == {r \in S : Report!Earned(r)}

\* What some rows earned.
LEMMA EarningsOf ==
  ASSUME NEW S \in SUBSET TableRows, IsFiniteSet(S)
  PROVE  /\ Report!Earnings(S).rupees = SumFunctionOnSet(Amounts, Earning(S))
         /\ Report!Earnings(S).rupees = Report!Total(Earning(S))
         /\ Report!Earnings(S).rupees \in Int
         /\ Earning(S) \in SUBSET TableRows /\ IsFiniteSet(Earning(S))
<1>1. Earning(S) \in SUBSET TableRows /\ IsFiniteSet(Earning(S))
  <2>1. Earning(S) \in SUBSET S
    BY DEF Earning
  <2> QED BY <2>1, FS_Subset
<1>2. Report!Earnings(S).rupees = Report!Total(Earning(S))
  BY DEF Report!Earnings, Earning
<1> QED BY <1>1, <1>2, TotalIs

\* More rows earn no less.
LEMMA EarnsMore ==
  ASSUME NEW S \in SUBSET TableRows, IsFiniteSet(S), NEW R \in SUBSET TableRows, Earning(R) \subseteq Earning(S),
         IsFiniteSet(R)
  PROVE  Report!Earnings(R).rupees <= Report!Earnings(S).rupees
<1>1. /\ Report!Earnings(S).rupees = SumFunctionOnSet(Amounts, Earning(S))
      /\ Earning(S) \in SUBSET TableRows /\ IsFiniteSet(Earning(S))
  BY EarningsOf
<1>2. Report!Earnings(R).rupees = SumFunctionOnSet(Amounts, Earning(R))
  BY EarningsOf
<1>3. \A r \in Earning(S) \ Earning(R) : 0 <= Amounts[r]
  <2>1. \A r \in Earning(S) : r \in TableRows /\ Report!Earned(r)
    BY DEF Earning
  <2>2. \A r \in Earning(S) : Amounts[r] >= 3 /\ Amounts[r] \in Int
    BY <2>1, AmountTypes
  <2> QED BY <2>2
<1>4. SumFunctionOnSet(Amounts, Earning(R)) <= SumFunctionOnSet(Amounts, Earning(S))
  BY <1>1, <1>3, AmountTypes, SumOfPart
<1> QED BY <1>1, <1>2, <1>4

\* The count of a kind.
LEMMA CountOf ==
  ASSUME NEW S, IsFiniteSet(S), NEW what
  PROVE  /\ Report!Count(S, what) = Cardinality(OfKind(S, what)) /\ Report!Count(S, what) \in Nat
         /\ IsFiniteSet(OfKind(S, what))
<1>1. OfKind(S, what) \in SUBSET S
  BY DEF OfKind
<1>2. IsFiniteSet(OfKind(S, what))
  BY <1>1, FS_Subset
<1>3. Report!Count(S, what) = Cardinality(OfKind(S, what))
  BY ReportNumbers DEF Report!Count, OfKind
<1> QED BY <1>2, <1>3, FS_CardinalityType

\* A trip earns at least 3.
LEMMA TripsEarn ==
  ASSUME NEW S \in SUBSET TableRows, IsFiniteSet(S)
  PROVE  3 * Report!Count(S, "trip_earning") <= Report!Earnings(S).rupees
<1> DEFINE R == OfKind(S, "trip_earning")
<1>1. R \in SUBSET Earning(S) /\ R \in SUBSET TableRows
  BY DEF OfKind, Earning, Report!Earned
<1>2. /\ Report!Earnings(S).rupees = SumFunctionOnSet(Amounts, Earning(S)) /\ Report!Earnings(S).rupees \in Int
      /\ Earning(S) \in SUBSET TableRows /\ IsFiniteSet(Earning(S))
  BY EarningsOf
<1>3. Report!Count(S, "trip_earning") = Cardinality(R) /\ Cardinality(R) \in Nat /\ IsFiniteSet(R)
  BY CountOf
<1> HIDE DEF R
<1>4. \A r \in Earning(S) : Amounts[r] >= 3 /\ Amounts[r] \in Int
  <2>1. \A r \in Earning(S) : r \in TableRows /\ Report!Earned(r)
    BY DEF Earning
  <2> QED BY <2>1, AmountTypes
<1>5. 3 * Cardinality(R) <= SumFunctionOnSet(Amounts, R)
  <2>1. \A r \in R : 3 <= Amounts[r]
    BY <1>1, <1>4
  <2> QED BY <1>1, <1>3, <2>1, AmountTypes, SumAtLeast
<1>6. SumFunctionOnSet(Amounts, R) <= SumFunctionOnSet(Amounts, Earning(S))
  <2>1. \A r \in Earning(S) \ R : 0 <= Amounts[r]
    BY <1>4
  <2> QED BY <1>1, <1>2, <2>1, AmountTypes, SumOfPart
<1>7. SumFunctionOnSet(Amounts, R) \in Int
  BY <1>1, <1>3, AmountTypes, SumOne
<1> QED BY <1>2, <1>3, <1>5, <1>6, <1>7

----------------------------------------------------------------------------
(* Days.                                                                   *)

\* A row is of a day from it on if it was made at its midnight or later, in any time zone.
LEMMA DayBegins ==
  ASSUME NEW m \in Nat, NEW o \in Int, NEW d \in Int
  PROVE  (m + o) \div 2 \in Int /\ ((m + o) \div 2 >= d <=> m >= 2 * d - o)
<1>1. PICK k \in Int : k = m + o
  OBVIOUS
<1>2. k \div 2 \in Int /\ 2 * (k \div 2) <= k /\ k < 2 * (k \div 2) + 2
  OBVIOUS
<1>3. PICK q \in Int : q = k \div 2
  BY <1>2
<1> QED BY <1>1, <1>2, <1>3

\* The week begins within the last seven days.
LEMMA WeekBegins ==
  ASSUME NEW d \in Int
  PROVE  Report!Monday(d) \in Int /\ d - 6 <= Report!Monday(d) /\ Report!Monday(d) <= d
<1>1. d % 7 \in 0 .. 6
  OBVIOUS
<1> QED BY <1>1 DEF Report!Monday

----------------------------------------------------------------------------
(* The table.                                                              *)

TableFits ==
  /\ report \in {"wallet", "stats", "dashboard"} /\ offset \in Int /\ now \in Nat
  /\ report = "dashboard" => span \in Report!Spans
  /\ rows \in SUBSET TableRows /\ IsFiniteSet(rows) /\ added \in Nat
  /\ \A r \in rows : r.n <= added /\ r.kind \in Report!Kinds
  /\ \A r, q \in rows : r.n = q.n => r = q
  /\ added = 0 => \A r \in rows : r.at <= now

\* What is over stays in the table.
EndedStay == \A r \in rows : r.kind # "assigned" => r \in rows'

\* The table as a report begins.
LEMMA TableStarts ==
  ASSUME Init
  PROVE  TableFits
<1>1. PICK what \in Report!Kinds, at \in 0 .. now : rows = {Report!Row(what, at)}
  BY DEF Init, Report!Init
<1>2. /\ report \in {"wallet", "stats", "dashboard"} /\ offset \in Int /\ now \in Nat /\ added = 0
      /\ report = "dashboard" => span \in Report!Spans
  <2>1. Offsets \subseteq Int /\ \A o \in Offsets : -o \in Int
    BY RowsAssumption
  <2> QED BY <2>1, RowsAssumption DEF Init, Report!Init
<1>3. Report!Kinds \subseteq RowKinds
  BY <1>2 DEF Report!Kinds, Report!LedgerKinds, Report!TripKinds, RowKinds
<1> DEFINE r == [kind |-> what, at |-> at, rupees |-> 5, n |-> 0]
<1>4. rows = {r} /\ r \in TableRows /\ r.n = 0 /\ r.at <= now /\ r.kind \in Report!Kinds
  <2>1. at \in Nat /\ what \in RowKinds /\ 5 \in {3, 5} /\ 0 \in Nat
    BY <1>3
  <2>2. r \in TableRows
    BY <2>1 DEF TableRows
  <2> QED BY <1>1, <1>2, <2>2 DEF Report!Row
<1> HIDE DEF r
<1>5. IsFiniteSet(rows) /\ rows \in SUBSET TableRows
  BY <1>4, FS_Singleton
<1> QED BY <1>2, <1>4, <1>5 DEF TableFits

\* A row is added to the ledger, or a trip is made.
LEMMA RowAdded ==
  ASSUME TableFits, NEW what, NEW at, Report!AddRow(what, at)
  PROVE  TableFits' /\ EndedStay
<1> DEFINE r == [kind |-> what, at |-> at, rupees |-> 3, n |-> added + 1]
<1>1. /\ rows' = rows \union {r} /\ added' = added + 1 /\ at \in Nat /\ what \in Report!Kinds
      /\ UNCHANGED <<report, offset, now, span, got>>
  BY DEF Report!AddRow, TableFits
<1>2. what \in RowKinds
  BY <1>1 DEF TableFits, Report!Kinds, Report!LedgerKinds, Report!TripKinds, RowKinds
<1>3. r \in TableRows /\ r.n = added + 1 /\ r.kind = what
  <2>1. added + 1 \in Nat /\ 3 \in {3, 5}
    BY DEF TableFits
  <2> QED BY <1>1, <1>2, <2>1 DEF TableRows
<1> HIDE DEF r
<1>4. IsFiniteSet(rows') /\ rows' \in SUBSET TableRows
  BY <1>1, <1>3, FS_AddElement DEF TableFits
<1>5. Report!Kinds' = Report!Kinds
  BY <1>1 DEF Report!Kinds
<1>6. \A q \in rows : q.n \in Nat /\ q.n <= added
  BY DEF TableFits, TableRows
<1>7. (\A q \in rows' : q.n <= added') /\ added' \in Nat /\ added' # 0
  BY <1>1, <1>3, <1>6 DEF TableFits
<1>8. \A q, p \in rows' : q.n = p.n => q = p
  BY <1>1, <1>3, <1>6 DEF TableFits
<1>9. \A q \in rows' : q.kind \in Report!Kinds
  BY <1>1, <1>3 DEF TableFits
<1> QED BY <1>1, <1>4, <1>5, <1>7, <1>8, <1>9 DEF TableFits, EndedStay

\* A trip ends.
LEMMA TripEnded ==
  ASSUME TableFits, NEW r \in rows, NEW what, Report!EndTrip(r, what)
  PROVE  TableFits' /\ EndedStay
<1> DEFINE q == [kind |-> what, at |-> IF report = "stats" THEN now ELSE r.at, rupees |-> r.rupees, n |-> r.n]
<1>1. r \in TableRows /\ r = [kind |-> r.kind, at |-> r.at, rupees |-> r.rupees, n |-> r.n]
  BY DEF TableFits, TableRows
<1>2. /\ rows' = (rows \ {r}) \union {q} /\ added' = added + 1 /\ what \in Report!Kinds /\ r.kind = "assigned"
      /\ UNCHANGED <<report, offset, now, span, got>>
  BY <1>1 DEF Report!EndTrip
<1>3. what \in RowKinds
  BY <1>2 DEF TableFits, Report!Kinds, Report!LedgerKinds, Report!TripKinds, RowKinds
<1>4. q \in TableRows /\ q.n = r.n /\ q.kind = what
  <2>1. r.rupees \in {3, 5} /\ r.n \in Nat /\ (IF report = "stats" THEN now ELSE r.at) \in Nat
    BY <1>1 DEF TableFits, TableRows
  <2> QED BY <1>3, <2>1 DEF TableRows
<1> HIDE DEF q
<1>5. IsFiniteSet(rows') /\ rows' \in SUBSET TableRows
  BY <1>2, <1>4, FS_AddElement, FS_RemoveElement DEF TableFits
<1>6. Report!Kinds' = Report!Kinds
  BY <1>2 DEF Report!Kinds
<1>7. \A p \in rows : p.n \in Nat /\ p.n <= added
  BY DEF TableFits, TableRows
<1>8. (\A p \in rows' : p.n <= added') /\ added' \in Nat /\ added' # 0
  BY <1>2, <1>4, <1>7 DEF TableFits
<1>9. \A p, o \in rows' : p.n = o.n => p = o
  BY <1>2, <1>4, <1>7 DEF TableFits
<1>10. \A p \in rows' : p.kind \in Report!Kinds
  BY <1>2, <1>4 DEF TableFits
<1> QED BY <1>2, <1>5, <1>6, <1>8, <1>9, <1>10 DEF TableFits, EndedStay

\* A report is asked, or the table changes, or neither.
TableStep == /\ TableFits' /\ EndedStay /\ added' = added + 1
             /\ UNCHANGED <<report, offset, now, span, got>>
             /\ \/ \E q : rows' = rows \union {q}
                \/ \E r \in rows : \E q : /\ rows' = (rows \ {r}) \union {q} /\ q.n = r.n /\ r.kind = "assigned"
                                          /\ report # "stats" => q.at = r.at

\* A step of a report is a query or changes the table.
LEMMA TableGoesOn ==
  ASSUME TableFits, Report!Next
  PROVE  Report!Query \/ TableStep
<1>1. ASSUME NEW what, NEW at, Report!AddRow(what, at) PROVE TableStep
  <2>1. TableFits' /\ EndedStay
    BY <1>1, RowAdded
  <2>2. added' = added + 1 /\ UNCHANGED <<report, offset, now, span, got>> /\ \E q : rows' = rows \union {q}
    BY <1>1 DEF Report!AddRow
  <2> QED BY <2>1, <2>2 DEF TableStep
<1>2. ASSUME NEW r \in rows, NEW what, Report!EndTrip(r, what) PROVE TableStep
  <2>1. TableFits' /\ EndedStay
    BY <1>2, TripEnded
  <2> DEFINE q == [kind |-> what, at |-> IF report = "stats" THEN now ELSE r.at, rupees |-> r.rupees, n |-> r.n]
  <2>2. /\ added' = added + 1 /\ UNCHANGED <<report, offset, now, span, got>> /\ r.kind = "assigned"
        /\ rows' = (rows \ {r}) \union {q}
    BY <1>2 DEF Report!EndTrip
  <2>3. q.n = r.n /\ (report # "stats" => q.at = r.at)
    OBVIOUS
  <2> HIDE DEF q
  <2> QED BY <2>1, <2>2, <2>3 DEF TableStep
<1> QED BY <1>1, <1>2 DEF Report!Next

----------------------------------------------------------------------------
(* The answers.                                                            *)

\* The answers so far are some of the report's.
GotFits == /\ \E S : got \in Seq(S)
           /\ Len(got) \in 0 .. Len(Report!Queries)
           /\ added = 0 => \A i \in 1 .. Len(got) : got[i] = Report!Answer(Report!Queries[i])

\* A report is some number of queries.
LEMMA QueryTypes ==
  ASSUME report \in {"wallet", "stats", "dashboard"}
  PROVE  Len(Report!Queries) \in Nat
<1>1. CASE report = "wallet"
  BY <1>1 DEF Report!Queries
<1>2. CASE report = "stats"
  BY <1>2 DEF Report!Queries
<1>3. CASE report = "dashboard"
  BY <1>3 DEF Report!Queries
<1> QED BY <1>1, <1>2, <1>3

\* A query finds the same in the same table.
LEMMA SameAnswers ==
  ASSUME UNCHANGED <<report, offset, now, span, rows>>, NEW q
  PROVE  Report!Answer(q)' = Report!Answer(q)
<1>1. /\ Report!Today' = Report!Today /\ Report!Start' = Report!Start /\ Report!End' = Report!End
      /\ Report!Length' = Report!Length
  BY DEF Report!Today, Report!DayOf, Report!Start, Report!End, Report!Length, Report!Days
<1>2. \A d : Report!Day(d)' = Report!Day(d) /\ Report!DayStart(d)' = Report!DayStart(d)
  BY DEF Report!Day, Report!DayOf, Report!DayStart
<1>3. \A m : Report!Since(m)' = Report!Since(m)
  BY DEF Report!Since
<1>4. \A a, b : Report!Window(a, b)' = Report!Window(a, b)
  BY <1>2 DEF Report!Window
<1>5. Report!WalletAnswer(q)' = Report!WalletAnswer(q)
  BY <1>1, <1>2, <1>3 DEF Report!WalletAnswer
<1>6. Report!StatsAnswer(q)' = Report!StatsAnswer(q)
  BY <1>1, <1>2, <1>3 DEF Report!StatsAnswer
<1>7. Report!DashboardAnswer(q)' = Report!DashboardAnswer(q)
  BY <1>1, <1>2, <1>4 DEF Report!DashboardAnswer, Report!DayOf
<1> QED BY <1>5, <1>6, <1>7 DEF Report!Answer

\* One more answer.
Answered == /\ UNCHANGED <<report, offset, now, span, rows, added>>
            /\ Len(got) < Len(Report!Queries) /\ Len(got) \in Nat /\ Len(got') = Len(got) + 1
            /\ got'[Len(got) + 1] = Report!Answer(Report!Queries[Len(got) + 1])
            /\ \A i \in 1 .. Len(got) : got'[i] = got[i]

\* A query leaves the table alone and has one more answer.
LEMMA OneMore ==
  ASSUME TableFits, GotFits, Report!Query
  PROVE  TableFits' /\ GotFits' /\ Answered
<1>1. PICK x : /\ x = Report!Answer(Report!Queries[Len(got) + 1])
               /\ got' = Append(got, x) /\ UNCHANGED <<report, offset, now, span, rows, added>>
               /\ Len(got) # Len(Report!Queries)
  BY DEF Report!Query, Report!Finished
<1>2. PICK S : got \in Seq(S)
  BY DEF GotFits
<1>3. got \in Seq(S \union {x})
  BY <1>2, SeqMonotonic
<1>4. /\ got' \in Seq(S \union {x}) /\ Len(got) \in Nat /\ Len(got') = Len(got) + 1 /\ got'[Len(got) + 1] = x
      /\ \A i \in 1 .. Len(got) : got'[i] = got[i]
  BY <1>1, <1>3
<1>5. TableFits'
  BY <1>1 DEF TableFits, Report!Kinds, Report!Spans
<1>6. Report!Queries' = Report!Queries /\ Len(Report!Queries) \in Nat
  BY <1>1, QueryTypes DEF Report!Queries, TableFits
<1>7. Answered
  BY <1>1, <1>4, <1>6 DEF Answered, GotFits
<1>8. ASSUME added = 0, NEW i \in 1 .. Len(got')
      PROVE  got'[i] = Report!Answer(Report!Queries[i])'
  <2>1. Report!Answer(Report!Queries[i])' = Report!Answer(Report!Queries[i])
    <3>1. \A q : Report!Answer(q)' = Report!Answer(q)
      BY <1>1, SameAnswers
    <3> QED BY <1>6, <3>1
  <2>2. i = Len(got) + 1 \/ i \in 1 .. Len(got)
    BY <1>4
  <2> QED BY <1>1, <1>4, <1>8, <2>1, <2>2 DEF GotFits
<1>9. GotFits'
  <2>1. Len(got') \in 0 .. Len(Report!Queries')
    BY <1>6, <1>7 DEF Answered, GotFits
  <2> QED BY <1>1, <1>4, <1>8, <2>1 DEF GotFits
<1> QED BY <1>5, <1>7, <1>9

----------------------------------------------------------------------------
(* A driver's wallet screen.                                               *)

\* The days of the table's rows, in the reader's time zone.
Dated == [r \in TableRows |-> Report!DayOf(r.at)]
Week  == Report!Monday(Report!Today) .. Report!Today

TodayRows == Report!Since(Report!DayStart(Report!Today))
WeekRows  == Report!Since(Report!DayStart(Report!Monday(Report!Today)))

\* The days of the rows, in any time zone; nothing of what was there when a report began is of tomorrow.
LEMMA RowDays ==
  ASSUME TableFits
  PROVE  /\ Report!Today \in Int
         /\ \A r \in rows : r.at \in Nat /\ r \in TableRows /\ Dated[r] = Report!DayOf(r.at) /\ Dated[r] \in Int
         /\ \A d \in Int : Report!Since(Report!DayStart(d)) = {r \in rows : Dated[r] >= d}
         /\ added = 0 => \A r \in rows : Dated[r] <= Report!Today
<1>1. \A m \in Nat : \A d \in Int : /\ Report!DayOf(m) \in Int
                                  /\ Report!DayOf(m) >= d <=> m >= Report!DayStart(d)
  BY DayBegins DEF Report!DayOf, Report!DayStart, TableFits
<1>0. \A m \in Nat : Report!DayOf(m) \in Int
  <2> SUFFICES ASSUME NEW m \in Nat PROVE (m + offset) \div 2 \in Int
    BY DEF Report!DayOf
  <2>1. m + offset \in Int
    BY DEF TableFits
  <2> QED BY <2>1
<1>2. Report!Today \in Int
  BY <1>0 DEF Report!Today, TableFits
<1>3. \A r \in rows : r.at \in Nat /\ r \in TableRows /\ Dated[r] = Report!DayOf(r.at) /\ Dated[r] \in Int
  BY <1>0 DEF TableFits, TableRows, Dated
<1>4. \A d \in Int : Report!Since(Report!DayStart(d)) = {r \in rows : Dated[r] >= d}
  BY <1>1, <1>3 DEF Report!Since
<1>5. ASSUME added = 0, NEW r \in rows PROVE Dated[r] <= Report!Today
  <2>1. r.at <= now /\ r.at \in Nat /\ now \in Nat /\ offset \in Int
    BY <1>3, <1>5 DEF TableFits
  <2>2. (r.at + offset) \div 2 <= (now + offset) \div 2
    <3>1. PICK a \in Int, b \in Int : a = r.at + offset /\ b = now + offset /\ a <= b
      BY <2>1
    <3> QED BY <3>1
  <2> QED BY <1>3, <2>2 DEF Report!DayOf, Report!Today
<1> QED BY <1>2, <1>3, <1>4, <1>5

\* The seven days, and what those of this week come to.
DaysFit(days) == /\ DOMAIN days = Report!Today - 6 .. Report!Today
                 /\ \A d \in DOMAIN days : days[d].rupees \in Int
WeekOf(days)  == SumFunctionOnSet([d \in Week |-> days[d].rupees], Week)

TodayEarns == Report!Earnings(TodayRows).rupees
WeekEarns  == Report!Earnings(WeekRows).rupees

\* Some rows of the table.
LEMMA PartsFit ==
  ASSUME TableFits, NEW S \in SUBSET rows
  PROVE  S \in SUBSET TableRows /\ IsFiniteSet(S) /\ Report!Earnings(S).rupees \in Int
<1>1. S \in SUBSET TableRows /\ IsFiniteSet(S)
  BY FS_Subset DEF TableFits
<1> QED BY <1>1, EarningsOf

\* Today is part of the week.
LEMMA EarnTypes ==
  ASSUME TableFits
  PROVE  /\ TodayRows \in SUBSET rows /\ WeekRows \in SUBSET rows /\ TodayEarns \in Int /\ WeekEarns \in Int
         /\ TodayEarns <= WeekEarns
<1>1. TodayRows \in SUBSET rows /\ WeekRows \in SUBSET rows
  BY DEF TodayRows, WeekRows, Report!Since
<1>2. TodayEarns \in Int /\ WeekEarns \in Int
  BY <1>1, PartsFit DEF TodayEarns, WeekEarns
<1>3. TodayRows \subseteq WeekRows
  <2>1. Report!Today \in Int /\ Report!Monday(Report!Today) \in Int /\ Report!Monday(Report!Today) <= Report!Today
    BY RowDays, WeekBegins
  <2>2. TodayRows = {r \in rows : Dated[r] >= Report!Today}
    BY <2>1, RowDays DEF TodayRows
  <2>3. WeekRows = {r \in rows : Dated[r] >= Report!Monday(Report!Today)}
    BY <2>1, RowDays DEF WeekRows
  <2>4. \A r \in rows : Dated[r] \in Int
    BY RowDays
  <2> QED BY <2>1, <2>2, <2>3, <2>4
<1>4. Earning(TodayRows) \subseteq Earning(WeekRows)
  BY <1>3 DEF Earning
<1>5. TodayEarns <= WeekEarns
  BY <1>1, <1>4, PartsFit, EarnsMore DEF TodayEarns, WeekEarns
<1> QED BY <1>1, <1>2, <1>5

\* The days as they are asked for: today's is no more than since midnight, and this week's
\* no more than since Monday.
LEMMA DaysAsked ==
  ASSUME TableFits, NEW days, days = Report!WalletAnswer("days")
  PROVE  /\ DaysFit(days) /\ WeekOf(days) \in Int
         /\ days[Report!Today].rupees <= TodayEarns /\ WeekOf(days) <= WeekEarns
         /\ added = 0 => days[Report!Today].rupees = TodayEarns /\ WeekOf(days) = WeekEarns
<1> DEFINE f == Amounts
           S == Earning(rows)
           W == {r \in S : Dated[r] \in Week}
           h == [d \in Week |-> days[d].rupees]
<1>0. /\ Report!Today \in Int /\ Report!Monday(Report!Today) \in Int
      /\ Report!Today - 6 <= Report!Monday(Report!Today) /\ Report!Monday(Report!Today) <= Report!Today
  BY RowDays, WeekBegins
<1>1. /\ DOMAIN days = Report!Today - 6 .. Report!Today
      /\ \A d \in DOMAIN days : days[d] = Report!Earnings(Report!Day(d))
  BY DEF Report!WalletAnswer
<1>2. ASSUME NEW d \in Int
      PROVE  /\ Report!Day(d) \in SUBSET rows /\ Report!Earnings(Report!Day(d)).rupees \in Int
             /\ Earning(Report!Day(d)) = ByDay(S, Dated, d)
             /\ Report!Earnings(Report!Day(d)).rupees = SumFunctionOnSet(f, ByDay(S, Dated, d))
  <2>1. Report!Day(d) \in SUBSET rows
    BY DEF Report!Day
  <2>2. /\ Report!Earnings(Report!Day(d)).rupees \in Int
        /\ Report!Earnings(Report!Day(d)).rupees = SumFunctionOnSet(f, Earning(Report!Day(d)))
    BY <2>1, PartsFit, EarningsOf
  <2>3. Earning(Report!Day(d)) = ByDay(S, Dated, d)
    BY RowDays DEF Earning, ByDay, Report!Day
  <2> QED BY <2>1, <2>2, <2>3
<1>3. Week \subseteq DOMAIN days /\ Report!Today \in Week /\ DOMAIN days \subseteq Int /\ IsFiniteSet(Week)
  <2>1. PICK a \in Int, b \in Int : a = Report!Monday(Report!Today) /\ b = Report!Today
    BY <1>0
  <2>2. IsFiniteSet(a .. b)
    BY FS_Interval
  <2> QED BY <1>0, <1>1, <2>1, <2>2 DEF Week
<1>4. DaysFit(days)
  BY <1>1, <1>2, <1>3 DEF DaysFit
<1>5. h \in [Week -> Int] /\ \A d \in Week : h[d] = SumFunctionOnSet(f, ByDay(S, Dated, d))
  BY <1>1, <1>2, <1>3
<1>6. S \in SUBSET TableRows /\ IsFiniteSet(S) /\ S \in SUBSET rows
  <2>1. S \in SUBSET rows
    BY DEF Earning
  <2> QED BY <2>1, PartsFit
<1>7. WeekOf(days) = SumFunctionOnSet(f, W)
  <2>1. WeekOf(days) = SumFunctionOnSet(h, Week)
    BY DEF WeekOf
  <2> HIDE DEF h, S
  <2>2. SumFunctionOnSet(h, Week) = SumFunctionOnSet(f, {r \in S : Dated[r] \in Week})
    BY <1>3, <1>5, <1>6, AmountTypes, SumByDay
  <2> QED BY <2>1, <2>2
<1>8. \A r \in rows : /\ Dated[r] \in Int
                      /\ r \in WeekRows <=> Dated[r] >= Report!Monday(Report!Today)
                      /\ r \in TodayRows <=> Dated[r] >= Report!Today
  BY <1>0, RowDays DEF WeekRows, TodayRows
<1>9. W \subseteq Earning(WeekRows) /\ (added = 0 => W = Earning(WeekRows))
  <2>1. added = 0 => \A r \in rows : Dated[r] <= Report!Today
    BY RowDays
  <2>2. \A r : r \in Earning(WeekRows) <=> r \in S /\ r \in WeekRows
    BY EarnTypes DEF Earning
  <2>3. \A r \in S : r \in rows
    BY <1>6
  <2>4. \A r \in rows : Dated[r] \in Week <=> Dated[r] >= Report!Monday(Report!Today) /\ Dated[r] <= Report!Today
    BY <1>0, <1>8 DEF Week
  <2> HIDE DEF S
  <2> QED BY <1>8, <2>1, <2>2, <2>3, <2>4
<1>10. /\ WeekEarns = SumFunctionOnSet(f, Earning(WeekRows)) /\ WeekEarns \in Int
       /\ Earning(WeekRows) \in SUBSET TableRows /\ IsFiniteSet(Earning(WeekRows))
  BY EarnTypes, PartsFit, EarningsOf DEF WeekEarns
<1> HIDE DEF W, h, S
<1>11. W \in SUBSET TableRows /\ IsFiniteSet(W) /\ SumFunctionOnSet(f, W) \in Int
  <2>1. W \in SUBSET TableRows /\ IsFiniteSet(W)
    BY <1>9, <1>10, FS_Subset
  <2> QED BY <2>1, AmountTypes, SumOne
<1>12. SumFunctionOnSet(f, W) <= WeekEarns
  <2>1. \A r \in Earning(WeekRows) : Amounts[r] >= 3 /\ Amounts[r] \in Int
    <3>1. \A r \in Earning(WeekRows) : r \in TableRows /\ Report!Earned(r)
      BY <1>10 DEF Earning
    <3> QED BY <3>1, AmountTypes
  <2>2. \A r \in Earning(WeekRows) \ W : 0 <= Amounts[r]
    BY <2>1
  <2>3. W \in SUBSET Earning(WeekRows)
    BY <1>9
  <2>4. SumFunctionOnSet(Amounts, W) <= SumFunctionOnSet(Amounts, Earning(WeekRows))
    BY <1>10, <2>2, <2>3, AmountTypes, SumOfPart
  <2> QED BY <1>10, <2>4
<1>13. /\ days[Report!Today].rupees <= TodayEarns
       /\ added = 0 => days[Report!Today].rupees = TodayEarns
  <2>1. days[Report!Today].rupees = Report!Earnings(Report!Day(Report!Today)).rupees
    BY <1>1, <1>3
  <2>2. /\ Report!Day(Report!Today) \subseteq TodayRows
        /\ added = 0 => Report!Day(Report!Today) = TodayRows
    <3>1. Report!Day(Report!Today) = {r \in rows : Dated[r] = Report!Today}
      BY RowDays DEF Report!Day
    <3>2. added = 0 => \A r \in rows : Dated[r] <= Report!Today
      BY RowDays
    <3> QED BY <1>0, <1>8, <3>1, <3>2, EarnTypes
  <2>3. Earning(Report!Day(Report!Today)) \subseteq Earning(TodayRows)
    BY <2>2 DEF Earning
  <2>4. Report!Earnings(Report!Day(Report!Today)).rupees <= TodayEarns
    BY <1>0, <1>2, <2>3, EarnTypes, PartsFit, EarnsMore DEF TodayEarns
  <2> QED BY <2>1, <2>2, <2>4 DEF TodayEarns
<1> QED BY <1>4, <1>7, <1>9, <1>10, <1>11, <1>12, <1>13

\* What the table says now is no less than what it said.
LEMMA EarnsLater ==
  ASSUME TableFits, TableStep, report = "wallet"
  PROVE  TodayEarns <= TodayEarns' /\ WeekEarns <= WeekEarns' /\ TodayEarns' \in Int /\ WeekEarns' \in Int
         /\ TodayEarns \in Int /\ WeekEarns \in Int
<1>1. rows \subseteq rows' /\ IsFiniteSet(rows') /\ rows' \in SUBSET TableRows /\ now' = now /\ offset' = offset
  BY DEF TableStep, EndedStay, TableFits, Report!Kinds, Report!LedgerKinds
<1>2. ASSUME NEW m \in Int
      PROVE  /\ Report!Since(m) \subseteq Report!Since(m)' /\ Report!Since(m)' \in SUBSET rows'
             /\ Report!Since(m) \in SUBSET rows
  BY <1>1 DEF Report!Since
<1>3. /\ Report!DayStart(Report!Today)' = Report!DayStart(Report!Today) /\ Report!DayStart(Report!Today) \in Int
      /\ Report!DayStart(Report!Monday(Report!Today))' = Report!DayStart(Report!Monday(Report!Today))
      /\ Report!DayStart(Report!Monday(Report!Today)) \in Int
  <2>1. Report!Today \in Int /\ Report!Monday(Report!Today) \in Int /\ offset \in Int
    BY RowDays, WeekBegins DEF TableFits
  <2>2. Report!Today' = Report!Today
    BY <1>1 DEF Report!Today, Report!DayOf
  <2>3. \A d \in Int : Report!DayStart(d)' = Report!DayStart(d) /\ Report!DayStart(d) \in Int
    BY <1>1, <2>1 DEF Report!DayStart
  <2>4. Report!Monday(Report!Today)' = Report!Monday(Report!Today)
    BY <2>2 DEF Report!Monday
  <2> QED BY <1>1, <2>1, <2>2, <2>3, <2>4 DEF Report!DayStart
<1>4. /\ TodayRows \subseteq TodayRows' /\ TodayRows' \in SUBSET rows' /\ TodayRows \in SUBSET rows
      /\ WeekRows \subseteq WeekRows' /\ WeekRows' \in SUBSET rows' /\ WeekRows \in SUBSET rows
  BY <1>1, <1>3 DEF TodayRows, WeekRows, Report!Since
<1>5. ASSUME NEW R \in SUBSET rows, NEW S \in SUBSET rows', R \subseteq S
      PROVE  /\ Report!Earnings(R).rupees <= Report!Earnings(S).rupees /\ Report!Earnings(S).rupees \in Int
             /\ Report!Earnings(R).rupees \in Int
  <2>1. R \in SUBSET TableRows /\ IsFiniteSet(R) /\ S \in SUBSET TableRows /\ IsFiniteSet(S)
    BY <1>1, FS_Subset DEF TableFits
  <2>2. Earning(R) \subseteq Earning(S)
    BY <1>5 DEF Earning
  <2> QED BY <2>1, <2>2, EarnsMore, EarningsOf
<1> QED BY <1>4, <1>5 DEF TodayEarns, WeekEarns

\* What is known of the wallet's answers.
WalletKept ==
  report = "wallet" =>
    /\ Len(got) >= 1 => /\ DaysFit(got[1]) /\ WeekOf(got[1]) \in Int
                        /\ got[1][Report!Today].rupees <= TodayEarns /\ WeekOf(got[1]) <= WeekEarns
    /\ Len(got) >= 5 => /\ got[5].rupees \in Int /\ got[1][Report!Today].rupees <= got[5].rupees
                        /\ got[5].rupees <= WeekEarns
    /\ Len(got) >= 6 => got[5].rupees <= got[6].rupees /\ WeekOf(got[1]) <= got[6].rupees

\* What was shown of a wallet is no more than what the table says by now.
LEMMA WalletChanges ==
  ASSUME TableFits, GotFits, TableStep, WalletKept
  PROVE  WalletKept'
<1> SUFFICES ASSUME report = "wallet" PROVE WalletKept'
  BY DEF WalletKept, TableStep
<1>1. got' = got /\ report' = report /\ now' = now /\ offset' = offset
  BY DEF TableStep
<1>2. Report!Today' = Report!Today /\ Report!Today \in Int /\ Week' = Week
  BY <1>1, RowDays DEF Report!Today, Report!DayOf, Week, Report!Monday
<1>3. \A days : DaysFit(days)' = DaysFit(days) /\ WeekOf(days)' = WeekOf(days)
  BY <1>2 DEF DaysFit, WeekOf
<1>4. DaysFit(got[1])' = DaysFit(got[1]) /\ WeekOf(got[1])' = WeekOf(got[1])
  BY <1>1, <1>3
<1>5. TodayEarns <= TodayEarns' /\ WeekEarns <= WeekEarns' /\ TodayEarns' \in Int /\ WeekEarns' \in Int
      /\ TodayEarns \in Int /\ WeekEarns \in Int
  BY EarnsLater
<1>6. DaysFit(got[1]) => got[1][Report!Today].rupees \in Int
  BY <1>2 DEF DaysFit
<1>7. Len(got) \in Int
  BY DEF GotFits
<1> QED BY <1>1, <1>2, <1>4, <1>5, <1>6, <1>7 DEF WalletKept

\* Each further number of the wallet page fits those above it.
LEMMA WalletAsked ==
  ASSUME TableFits, GotFits, Answered, WalletKept
  PROVE  WalletKept'
<1> SUFFICES ASSUME report = "wallet" PROVE WalletKept'
  BY DEF WalletKept, Answered
<1>1. UNCHANGED <<report, offset, now, span, rows, added>>
  BY DEF Answered
<1>2. Report!Today' = Report!Today /\ Report!Today \in Int /\ Week' = Week
  BY <1>1, RowDays DEF Report!Today, Report!DayOf, Week, Report!Monday
<1>3. \A days : (DaysFit(days)' <=> DaysFit(days)) /\ WeekOf(days)' = WeekOf(days)
  BY <1>2 DEF DaysFit, WeekOf
<1>4. TodayEarns' = TodayEarns /\ WeekEarns' = WeekEarns
  BY <1>1 DEF TodayEarns, WeekEarns, TodayRows, WeekRows, Report!Since, Report!DayStart, Report!Today, Report!DayOf,
    Report!Monday
<1>5. TodayEarns \in Int /\ WeekEarns \in Int /\ TodayEarns <= WeekEarns
  BY EarnTypes
<1>6. /\ Report!Queries = <<"days", "lifetime", "payouts", "balance", "today", "week", "month">>
      /\ \A q : Report!Answer(q) = Report!WalletAnswer(q)
  BY DEF Report!Queries, Report!Answer
<1>7. PICK len \in 0 .. 6 : len = Len(got) /\ Len(got') = len + 1
  <2>1. Len(Report!Queries) = 7
    BY <1>6
  <2>2. Len(got) \in Nat /\ Len(got) < 7 /\ Len(got') = Len(got) + 1
    BY ONLY <2>1, Answered DEF Answered
  <2>3. \A k \in Nat : k < 7 => k \in 0 .. 6
    OBVIOUS
  <2> QED BY ONLY <2>2, <2>3
<1>8. /\ got'[len + 1] = Report!WalletAnswer(Report!Queries[len + 1])
      /\ \A i \in 1 .. len : got'[i] = got[i]
  BY <1>6, <1>7 DEF Answered
<1>9. CASE len = 0
  <2>1. got'[1] = Report!WalletAnswer("days")
    BY <1>6, <1>8, <1>9
  <2>2. /\ DaysFit(got'[1]) /\ WeekOf(got'[1]) \in Int
        /\ got'[1][Report!Today].rupees <= TodayEarns /\ WeekOf(got'[1]) <= WeekEarns
    BY <2>1, DaysAsked
  <2> QED BY <1>2, <1>3, <1>4, <1>7, <1>9, <2>2 DEF WalletKept
<1>10. CASE len # 0
  <2>1. got'[1] = got[1] /\ DaysFit(got[1]) /\ WeekOf(got[1]) \in Int
        /\ got[1][Report!Today].rupees <= TodayEarns /\ WeekOf(got[1]) <= WeekEarns
        /\ got[1][Report!Today].rupees \in Int
    <3>1. got'[1] = got[1] /\ Len(got) >= 1
      BY <1>7, <1>8, <1>10
    <3> QED BY <1>2, <3>1 DEF WalletKept, DaysFit
  <2>2. /\ DaysFit(got[1])' /\ WeekOf(got[1])' = WeekOf(got[1])
        /\ got'[1][Report!Today'].rupees = got[1][Report!Today].rupees
    BY <1>2, <1>3, <2>1
  <2>3. CASE len < 4
    BY <1>4, <1>7, <2>1, <2>2, <2>3 DEF WalletKept
  <2>4. CASE len = 4
    <3>1. got'[5] = Report!WalletAnswer("today")
      BY <1>6, <1>8, <2>4
    <3>2. got'[5].rupees = TodayEarns
      BY <3>1 DEF Report!WalletAnswer, TodayEarns, TodayRows
    <3> QED BY <1>4, <1>5, <1>7, <2>1, <2>2, <2>4, <3>2 DEF WalletKept
  <2>5. CASE len = 5
    <3>1. got'[6] = Report!WalletAnswer("week") /\ got'[5] = got[5]
      BY <1>6, <1>8, <2>5
    <3>2. got'[6].rupees = WeekEarns
      BY <3>1 DEF Report!WalletAnswer, WeekEarns, WeekRows
    <3>3. got[5].rupees \in Int /\ got[1][Report!Today].rupees <= got[5].rupees /\ got[5].rupees <= WeekEarns
      BY <1>7, <2>5 DEF WalletKept
    <3> QED BY <1>4, <1>5, <1>7, <2>1, <2>2, <2>5, <3>1, <3>2, <3>3 DEF WalletKept
  <2>6. CASE len = 6
    <3>1. got'[6] = got[6] /\ got'[5] = got[5]
      BY <1>8, <2>6
    <3>2. got[5].rupees \in Int /\ got[1][Report!Today].rupees <= got[5].rupees /\ got[5].rupees <= WeekEarns
          /\ got[5].rupees <= got[6].rupees /\ WeekOf(got[1]) <= got[6].rupees
      BY <1>7, <2>6 DEF WalletKept
    <3> QED BY <1>4, <1>5, <1>7, <2>1, <2>2, <2>6, <3>1, <3>2 DEF WalletKept
  <2> QED BY <2>3, <2>4, <2>5, <2>6
<1> QED BY <1>9, <1>10

\* Where the answers are.
LEMMA WalletPlaces ==
  ASSUME report = "wallet"
  PROVE  /\ Len(Report!Queries) = 7
         /\ Report!Answers("days") = got[1] /\ Report!Answers("lifetime") = got[2] /\ Report!Answers("payouts") = got[3]
         /\ Report!Answers("balance") = got[4] /\ Report!Answers("today") = got[5] /\ Report!Answers("week") = got[6]
         /\ Report!Answers("month") = got[7]
<1> DEFINE s == <<"days", "lifetime", "payouts", "balance", "today", "week", "month">>
<1>1. Report!Queries = s
  BY DEF Report!Queries
<1>2. /\ DOMAIN s = 1 .. 7 /\ Len(s) = 7
      /\ s[1] = "days" /\ s[2] = "lifetime" /\ s[3] = "payouts" /\ s[4] = "balance" /\ s[5] = "today" /\ s[6] = "week"
      /\ s[7] = "month"
  OBVIOUS
<1> HIDE DEF s
<1>3. \A i \in 1 .. 7 : i = 1 \/ i = 2 \/ i = 3 \/ i = 4 \/ i = 5 \/ i = 6 \/ i = 7
  OBVIOUS
<1>4. /\ (CHOOSE i \in 1 .. 7 : s[i] = "days") = 1 /\ (CHOOSE i \in 1 .. 7 : s[i] = "lifetime") = 2
      /\ (CHOOSE i \in 1 .. 7 : s[i] = "payouts") = 3 /\ (CHOOSE i \in 1 .. 7 : s[i] = "balance") = 4
      /\ (CHOOSE i \in 1 .. 7 : s[i] = "today") = 5 /\ (CHOOSE i \in 1 .. 7 : s[i] = "week") = 6
      /\ (CHOOSE i \in 1 .. 7 : s[i] = "month") = 7
  BY <1>2, <1>3
<1> QED BY <1>1, <1>2, <1>4 DEF Report!Answers

\* Earnings, payouts and cash are all of a wallet's rows.
LEMMA BalanceAdds ==
  ASSUME TableFits, report = "wallet"
  PROVE  Report!Total(rows) = Report!Total(Earning(rows)) + Report!Total(OfKind(rows, "payout"))
                                + Report!Total(OfKind(rows, "cod_cash"))
<1> DEFINE E == Earning(rows)
           P == OfKind(rows, "payout")
           C == OfKind(rows, "cod_cash")
<1>1. E \in SUBSET rows /\ P \in SUBSET rows /\ C \in SUBSET rows
  BY DEF Earning, OfKind
<1>2. E \intersect P = {} /\ (E \union P) \intersect C = {} /\ (E \union P) \union C = rows
  <2>1. \A r \in rows : r.kind \in {"trip_earning", "bonus", "payout", "cod_cash"}
    BY DEF TableFits, Report!Kinds, Report!LedgerKinds
  <2> QED BY <2>1 DEF Earning, OfKind, Report!Earned
<1> HIDE DEF E, P, C
<1>3. /\ rows \in SUBSET TableRows /\ IsFiniteSet(rows) /\ E \union P \in SUBSET rows
      /\ \A S \in SUBSET rows : S \in SUBSET TableRows /\ IsFiniteSet(S)
  BY <1>1, PartsFit DEF TableFits
<1>4. SumFunctionOnSet(Amounts, E \union P) = SumFunctionOnSet(Amounts, E) + SumFunctionOnSet(Amounts, P)
  BY <1>1, <1>2, <1>3, AmountTypes, SumUnion
<1>5. SumFunctionOnSet(Amounts, (E \union P) \union C) = SumFunctionOnSet(Amounts, E \union P) + SumFunctionOnSet(Amounts, C)
  <2>1. PICK U : U = E \union P
    OBVIOUS
  <2>2. U \in SUBSET TableRows /\ IsFiniteSet(U) /\ C \in SUBSET TableRows /\ IsFiniteSet(C) /\ U \intersect C = {}
    BY <1>1, <1>2, <1>3, <2>1
  <2>3. SumFunctionOnSet(Amounts, U \union C) = SumFunctionOnSet(Amounts, U) + SumFunctionOnSet(Amounts, C)
    BY <2>2, AmountTypes, SumUnion
  <2> QED BY <2>1, <2>3
<1>6. /\ Report!Total(rows) = SumFunctionOnSet(Amounts, rows) /\ Report!Total(E) = SumFunctionOnSet(Amounts, E)
      /\ Report!Total(P) = SumFunctionOnSet(Amounts, P) /\ Report!Total(C) = SumFunctionOnSet(Amounts, C)
  BY <1>1, <1>3, TotalIs
<1> QED BY <1>2, <1>4, <1>5, <1>6 DEF E, P, C

\* WalletService.summary: once all is asked, the numbers of the page add up.
LEMMA WalletWell ==
  ASSUME TableFits, GotFits, WalletKept, report = "wallet", Report!Finished
  PROVE  Report!WalletAdds
<1> DEFINE days == Report!Answers("days")
           earned == [d \in DOMAIN days |-> days[d].rupees]
           week == [d \in Report!Monday(Report!Today) .. Report!Today |-> earned[d]]
<1>0. /\ Report!Today \in Int /\ Report!Monday(Report!Today) \in Int
      /\ Report!Today - 6 <= Report!Monday(Report!Today) /\ Report!Monday(Report!Today) <= Report!Today
  BY RowDays, WeekBegins
<1>1. Len(got) = 7 /\ days = got[1]
  BY WalletPlaces DEF Report!Finished
<1>2. DaysFit(days) /\ WeekOf(days) \in Int /\ days[Report!Today].rupees <= got[5].rupees
      /\ got[5].rupees <= got[6].rupees /\ WeekOf(days) <= got[6].rupees
  <2> HIDE DEF days
  <2> QED BY <1>1 DEF WalletKept
<1>3. \A d \in Report!Monday(Report!Today) .. Report!Today : d \in DOMAIN days /\ d \in Int
  BY <1>0, <1>2 DEF DaysFit
<1>4. earned[Report!Today] = days[Report!Today].rupees
  BY <1>0, <1>3
<1>5. Report!SumFunction(week) = WeekOf(days)
  <2>1. week = [d \in Week |-> days[d].rupees] /\ DOMAIN week = Week
    BY <1>3 DEF Week
  <2> HIDE DEF week
  <2> QED BY <2>1, ReportSums DEF WeekOf
<1>6. ASSUME added = 0
      PROVE  /\ days[Report!Today].rupees = got[5].rupees /\ WeekOf(days) = got[6].rupees
             /\ got[7].rupees <= got[2].rupees
             /\ got[4] = got[2].rupees - got[3] + Report!Total({r \in rows : r.kind = "cod_cash"})
  <2>1. /\ Report!Queries = <<"days", "lifetime", "payouts", "balance", "today", "week", "month">>
        /\ \A q : Report!Answer(q) = Report!WalletAnswer(q)
    BY DEF Report!Queries, Report!Answer
  <2>2. \A i \in 1 .. 7 : got[i] = Report!WalletAnswer(Report!Queries[i])
    BY <1>1, <1>6, <2>1 DEF GotFits
  <2>3. /\ got[1] = Report!WalletAnswer("days") /\ got[2] = Report!WalletAnswer("lifetime")
        /\ got[3] = Report!WalletAnswer("payouts") /\ got[4] = Report!WalletAnswer("balance")
        /\ got[5] = Report!WalletAnswer("today") /\ got[6] = Report!WalletAnswer("week")
        /\ got[7] = Report!WalletAnswer("month")
    BY <2>1, <2>2
  <2>4. got[5].rupees = TodayEarns /\ got[6].rupees = WeekEarns
    BY <2>3 DEF Report!WalletAnswer, TodayEarns, WeekEarns, TodayRows, WeekRows
  <2>5. days[Report!Today].rupees = TodayEarns /\ WeekOf(days) = WeekEarns
    <3> HIDE DEF days
    <3> QED BY <1>1, <1>6, <2>3, DaysAsked
  <2>6. got[7].rupees <= got[2].rupees
    <3> DEFINE M == Report!Since(Report!DayStart(Report!FirstOfMonth(Report!Today)))
    <3>1. got[7] = Report!Earnings(M) /\ got[2] = Report!Earnings(rows)
      BY <2>3 DEF Report!WalletAnswer
    <3>2. M \in SUBSET rows
      BY DEF Report!Since
    <3> HIDE DEF M
    <3>3. M \in SUBSET TableRows /\ IsFiniteSet(M) /\ rows \in SUBSET TableRows /\ IsFiniteSet(rows)
      BY <3>2, PartsFit DEF TableFits
    <3>4. Earning(M) \subseteq Earning(rows)
      BY <3>2 DEF Earning
    <3> QED BY <3>1, <3>3, <3>4, EarnsMore
  <2>7. got[4] = Report!Total(rows) /\ got[3] = -Report!Total(OfKind(rows, "payout")) /\ got[2] = Report!Earnings(rows)
    BY <2>3 DEF Report!WalletAnswer, OfKind
  <2>8. /\ Report!Earnings(rows).rupees = Report!Total(Earning(rows)) /\ Report!Earnings(rows).rupees \in Int
        /\ Report!Total(OfKind(rows, "payout")) \in Int /\ Report!Total(OfKind(rows, "cod_cash")) \in Int
    <3>1. OfKind(rows, "payout") \in SUBSET rows /\ OfKind(rows, "cod_cash") \in SUBSET rows
      BY DEF OfKind
    <3>2. rows \in SUBSET TableRows /\ IsFiniteSet(rows)
      BY DEF TableFits
    <3> QED BY <3>1, <3>2, PartsFit, EarningsOf, TotalIs
  <2>9. got[4] = got[2].rupees - got[3] + Report!Total(OfKind(rows, "cod_cash"))
    BY <2>7, <2>8, BalanceAdds
  <2> QED BY <2>4, <2>5, <2>6, <2>9 DEF OfKind
<1> HIDE DEF week, earned
<1>7. /\ earned[Report!Today] <= got[5].rupees /\ got[5].rupees <= got[6].rupees
      /\ Report!SumFunction(week) <= got[6].rupees
      /\ added = 0 => /\ earned[Report!Today] = got[5].rupees /\ Report!SumFunction(week) = got[6].rupees
                      /\ got[7].rupees <= got[2].rupees
                      /\ got[4] = got[2].rupees - got[3] + Report!Total({r \in rows : r.kind = "cod_cash"})
  BY <1>2, <1>4, <1>5, <1>6
<1> QED BY <1>7, WalletPlaces DEF Report!WalletAdds, week, earned

\* What was answered stays, and nothing more is claimed of it once the table has changed.
LEMMA GotStays ==
  ASSUME TableFits, GotFits, TableStep
  PROVE  GotFits'
<1>1. got' = got /\ report' = report /\ added' # 0
  BY DEF TableStep, TableFits
<1>2. Report!Queries' = Report!Queries
  BY <1>1 DEF Report!Queries
<1> QED BY <1>1, <1>2 DEF GotFits

\* The number of elements of two sets without a common one.
LEMMA PartsAdd ==
  ASSUME NEW S, NEW T, IsFiniteSet(S), IsFiniteSet(T), S \intersect T = {}
  PROVE  IsFiniteSet(S \union T) /\ Cardinality(S \union T) = Cardinality(S) + Cardinality(T)
<1>1. /\ IsFiniteSet(S \union T)
      /\ Cardinality(S \union T) = Cardinality(S) + Cardinality(T) - Cardinality(S \intersect T)
  BY FS_Union
<1>2. Cardinality(S \intersect T) = 0 /\ Cardinality(S) \in Nat /\ Cardinality(T) \in Nat
  BY FS_EmptySet, FS_CardinalityType
<1> QED BY <1>1, <1>2

----------------------------------------------------------------------------
(* A driver's statistics.                                                  *)

\* More rows of a kind count for no less.
LEMMA CountsMore ==
  ASSUME NEW S, IsFiniteSet(S), NEW R, IsFiniteSet(R), NEW what, OfKind(R, what) \subseteq OfKind(S, what)
  PROVE  Report!Count(R, what) <= Report!Count(S, what)
<1>1. /\ Report!Count(S, what) = Cardinality(OfKind(S, what)) /\ IsFiniteSet(OfKind(S, what))
      /\ Report!Count(R, what) = Cardinality(OfKind(R, what))
  BY CountOf
<1>2. OfKind(R, what) \in SUBSET OfKind(S, what)
  OBVIOUS
<1>3. Cardinality(OfKind(R, what)) <= Cardinality(OfKind(S, what))
  BY <1>1, <1>2, FS_Subset
<1> QED BY <1>1, <1>3

TodayTrips     == Report!Count(TodayRows, "trip_earning")
TodayCancelled == Report!Count(TodayRows, "cancelled")
AllTrips       == Report!Count(rows, "trip_earning")
AllCancelled   == Report!Count(rows, "cancelled")
AllEarns       == Report!Earnings(rows).rupees

\* Today is part of all time, and a trip earns at least 3.
LEMMA StatsFit ==
  ASSUME TableFits
  PROVE  /\ TodayTrips \in Nat /\ TodayCancelled \in Nat /\ AllTrips \in Nat /\ AllCancelled \in Nat
         /\ TodayEarns \in Int /\ AllEarns \in Int
         /\ TodayTrips <= AllTrips /\ TodayCancelled <= AllCancelled /\ TodayEarns <= AllEarns
         /\ 3 * TodayTrips <= TodayEarns /\ 3 * AllTrips <= AllEarns
<1>1. TodayRows \in SUBSET rows /\ rows \in SUBSET rows
  BY EarnTypes
<1>2. /\ TodayRows \in SUBSET TableRows /\ IsFiniteSet(TodayRows) /\ rows \in SUBSET TableRows /\ IsFiniteSet(rows)
      /\ TodayEarns \in Int /\ AllEarns \in Int
  BY <1>1, PartsFit DEF TodayEarns, AllEarns
<1>3. \A what : OfKind(TodayRows, what) \subseteq OfKind(rows, what)
  BY <1>1 DEF OfKind
<1>4. Earning(TodayRows) \subseteq Earning(rows)
  BY <1>1 DEF Earning
<1>5. TodayTrips \in Nat /\ TodayCancelled \in Nat /\ AllTrips \in Nat /\ AllCancelled \in Nat
  BY <1>2, CountOf DEF TodayTrips, TodayCancelled, AllTrips, AllCancelled
<1>6. TodayTrips <= AllTrips /\ TodayCancelled <= AllCancelled
  BY <1>2, <1>3, CountsMore DEF TodayTrips, TodayCancelled, AllTrips, AllCancelled
<1>7. TodayEarns <= AllEarns
  BY <1>2, <1>4, EarnsMore DEF TodayEarns, AllEarns
<1>8. 3 * TodayTrips <= TodayEarns /\ 3 * AllTrips <= AllEarns
  BY <1>2, TripsEarn DEF TodayTrips, TodayEarns, AllTrips, AllEarns
<1> QED BY <1>2, <1>5, <1>6, <1>7, <1>8

\* What has ended stays, and so the numbers only grow.
LEMMA StatsLater ==
  ASSUME TableFits, TableStep, report = "stats"
  PROVE  /\ TodayTrips <= TodayTrips' /\ TodayCancelled <= TodayCancelled' /\ TodayEarns <= TodayEarns'
         /\ AllTrips <= AllTrips' /\ AllCancelled <= AllCancelled' /\ AllEarns <= AllEarns'
         /\ TodayTrips' \in Nat /\ TodayCancelled' \in Nat /\ TodayEarns' \in Int
         /\ AllTrips' \in Nat /\ AllCancelled' \in Nat /\ AllEarns' \in Int
<1>1. TableFits' /\ EndedStay /\ now' = now /\ offset' = offset
  BY DEF TableStep
<1>2. Report!DayStart(Report!Today)' = Report!DayStart(Report!Today)
  BY <1>1 DEF Report!Today, Report!DayOf, Report!DayStart
<1>3. /\ TodayRows \in SUBSET rows /\ TodayRows' \in SUBSET rows'
      /\ \A r \in rows : r \in TodayRows /\ r.kind # "assigned" => r \in TodayRows'
  BY <1>1, <1>2 DEF TodayRows, Report!Since, EndedStay
<1>4. /\ rows \in SUBSET TableRows /\ IsFiniteSet(rows) /\ rows' \in SUBSET TableRows /\ IsFiniteSet(rows')
  BY <1>1 DEF TableFits
<1>5. /\ TodayRows \in SUBSET TableRows /\ IsFiniteSet(TodayRows)
      /\ TodayRows' \in SUBSET TableRows /\ IsFiniteSet(TodayRows')
  BY <1>3, <1>4, FS_Subset
<1>6. ASSUME NEW what \in {"trip_earning", "cancelled"}
      PROVE  /\ OfKind(TodayRows, what) \subseteq OfKind(TodayRows', what)
             /\ OfKind(rows, what) \subseteq OfKind(rows', what)
  BY <1>1, <1>3 DEF OfKind, EndedStay
<1>7. /\ Earning(TodayRows) \subseteq Earning(TodayRows') /\ Earning(rows) \subseteq Earning(rows')
  <2>1. \A r \in rows : Report!Earned(r) => r.kind # "assigned"
    BY DEF Report!Earned
  <2>2. \A r : Report!Earned(r)' <=> Report!Earned(r)
    BY DEF Report!Earned
  <2> QED BY <1>1, <1>3, <2>1, <2>2 DEF Earning, EndedStay
<1>8. TodayTrips <= TodayTrips' /\ TodayCancelled <= TodayCancelled' /\ AllTrips <= AllTrips' /\ AllCancelled <= AllCancelled'
  BY <1>4, <1>5, <1>6, CountsMore DEF TodayTrips, TodayCancelled, AllTrips, AllCancelled
<1>9. TodayEarns <= TodayEarns' /\ AllEarns <= AllEarns'
  BY <1>4, <1>5, <1>7, EarnsMore DEF TodayEarns, AllEarns
<1>10. /\ TodayTrips' \in Nat /\ TodayCancelled' \in Nat /\ TodayEarns' \in Int
       /\ AllTrips' \in Nat /\ AllCancelled' \in Nat /\ AllEarns' \in Int
  <2>1. TableFits => /\ TodayTrips \in Nat /\ TodayCancelled \in Nat /\ TodayEarns \in Int
                     /\ AllTrips \in Nat /\ AllCancelled \in Nat /\ AllEarns \in Int
    BY StatsFit
  <2>2. (TableFits => /\ TodayTrips \in Nat /\ TodayCancelled \in Nat /\ TodayEarns \in Int
                      /\ AllTrips \in Nat /\ AllCancelled \in Nat /\ AllEarns \in Int)'
    BY StatsFit, PTL
  <2> QED BY <1>1, <2>2
<1> QED BY <1>8, <1>9, <1>10

\* What is known of the answers to a driver's statistics.
StatsKept ==
  report = "stats" =>
    /\ Len(got) >= 1 => got[1] \in Int /\ got[1] <= TodayTrips
    /\ Len(got) >= 2 => got[2] \in Int /\ got[2] <= TodayCancelled
    /\ Len(got) >= 3 => got[3] \in Int /\ got[3] <= TodayEarns /\ 3 * got[1] <= got[3]
    /\ Len(got) >= 4 => got[4] \in Int /\ got[4] <= AllTrips /\ got[1] <= got[4]
    /\ Len(got) >= 5 => got[2] <= got[5]
    /\ Len(got) >= 6 => got[3] <= got[6] /\ 3 * got[4] <= got[6]

\* What was counted is no more than what the table says by now.
LEMMA StatsChanges ==
  ASSUME TableFits, GotFits, TableStep, StatsKept
  PROVE  StatsKept'
<1> SUFFICES ASSUME report = "stats" PROVE StatsKept'
  BY DEF StatsKept, TableStep
<1>1. got' = got /\ report' = report /\ Len(got) \in Int
  BY DEF TableStep, GotFits
<1>2. /\ TodayTrips <= TodayTrips' /\ TodayCancelled <= TodayCancelled' /\ TodayEarns <= TodayEarns'
      /\ AllTrips <= AllTrips'
      /\ TodayTrips' \in Nat /\ TodayCancelled' \in Nat /\ TodayEarns' \in Int /\ AllTrips' \in Nat
  BY StatsLater
<1>3. /\ TodayTrips \in Nat /\ TodayCancelled \in Nat /\ TodayEarns \in Int /\ AllTrips \in Nat
  BY StatsFit
<1>4. /\ Len(got) >= 1 => got[1] \in Int /\ got[1] <= TodayTrips'
      /\ Len(got) >= 2 => got[2] \in Int /\ got[2] <= TodayCancelled'
      /\ Len(got) >= 3 => got[3] \in Int /\ got[3] <= TodayEarns' /\ 3 * got[1] <= got[3]
      /\ Len(got) >= 4 => got[4] \in Int /\ got[4] <= AllTrips' /\ got[1] <= got[4]
      /\ Len(got) >= 5 => got[2] <= got[5]
      /\ Len(got) >= 6 => got[3] <= got[6] /\ 3 * got[4] <= got[6]
  <2>2. /\ Len(got) >= 1 => got[1] \in Int /\ got[1] <= TodayTrips'
        /\ Len(got) >= 2 => got[2] \in Int /\ got[2] <= TodayCancelled'
    BY <1>2, <1>3 DEF StatsKept
  <2>3. /\ Len(got) >= 3 => got[3] \in Int /\ got[3] <= TodayEarns' /\ 3 * got[1] <= got[3]
        /\ Len(got) >= 4 => got[4] \in Int /\ got[4] <= AllTrips' /\ got[1] <= got[4]
    BY <1>2, <1>3 DEF StatsKept
  <2> QED BY <2>2, <2>3 DEF StatsKept
<1> QED BY ONLY <1>1, <1>4, report = "stats" DEF StatsKept

\* Each further number of the statistics fits those before it.
LEMMA StatsAsked ==
  ASSUME TableFits, GotFits, Answered, StatsKept
  PROVE  StatsKept'
<1> SUFFICES ASSUME report = "stats" PROVE StatsKept'
  BY DEF StatsKept, Answered
<1>1. UNCHANGED <<report, offset, now, span, rows, added>>
  BY DEF Answered
<1>2. /\ TodayTrips' = TodayTrips /\ TodayCancelled' = TodayCancelled /\ TodayEarns' = TodayEarns
      /\ AllTrips' = AllTrips /\ report' = "stats"
  BY <1>1 DEF TodayTrips, TodayCancelled, TodayEarns, AllTrips, TodayRows, Report!Since, Report!DayStart, Report!Today,
    Report!DayOf
<1>3. /\ TodayTrips \in Nat /\ TodayCancelled \in Nat /\ AllTrips \in Nat /\ AllCancelled \in Nat
      /\ TodayEarns \in Int /\ AllEarns \in Int
      /\ TodayTrips <= AllTrips /\ TodayCancelled <= AllCancelled /\ TodayEarns <= AllEarns
      /\ 3 * TodayTrips <= TodayEarns /\ 3 * AllTrips <= AllEarns
  BY StatsFit
<1>4. /\ Report!Queries = <<"today", "cancelledToday", "earnedToday", "completed", "cancelled", "earned">>
      /\ \A q : Report!Answer(q) = Report!StatsAnswer(q)
  BY DEF Report!Queries, Report!Answer
<1>5. PICK len \in 0 .. 5 : len = Len(got) /\ Len(got') = len + 1
  <2>1. Len(Report!Queries) = 6
    BY <1>4
  <2>2. Len(got) \in Nat /\ Len(got) < 6 /\ Len(got') = Len(got) + 1
    BY ONLY <2>1, Answered DEF Answered
  <2>3. \A k \in Nat : k < 6 => k \in 0 .. 5
    OBVIOUS
  <2> QED BY ONLY <2>2, <2>3
<1>6. /\ got'[len + 1] = Report!StatsAnswer(Report!Queries[len + 1])
      /\ \A i \in 1 .. len : got'[i] = got[i]
  BY <1>4, <1>5 DEF Answered
<1>7. /\ Report!StatsAnswer("today") = TodayTrips /\ Report!StatsAnswer("cancelledToday") = TodayCancelled
      /\ Report!StatsAnswer("earnedToday") = TodayEarns /\ Report!StatsAnswer("completed") = AllTrips
      /\ Report!StatsAnswer("cancelled") = AllCancelled /\ Report!StatsAnswer("earned") = AllEarns
  BY DEF Report!StatsAnswer, Report!Stats, TodayTrips, TodayCancelled, TodayEarns, AllTrips, AllCancelled, AllEarns, TodayRows
<1>8. /\ len >= 1 => got[1] \in Int /\ got[1] <= TodayTrips
      /\ len >= 2 => got[2] \in Int /\ got[2] <= TodayCancelled
      /\ len >= 3 => got[3] \in Int /\ got[3] <= TodayEarns /\ 3 * got[1] <= got[3]
      /\ len >= 4 => got[4] \in Int /\ got[4] <= AllTrips /\ got[1] <= got[4]
      /\ len >= 5 => got[2] <= got[5]
  BY <1>5 DEF StatsKept
<1> HIDE DEF StatsKept
<1>9. CASE len = 0
  <2>1. got'[1] = TodayTrips
    BY <1>4, <1>6, <1>7, <1>9
  <2> QED BY <1>2, <1>3, <1>5, <1>9, <2>1 DEF StatsKept
<1>10. CASE len = 1
  <2>1. got'[2] = TodayCancelled /\ got'[1] = got[1]
    BY <1>4, <1>6, <1>7, <1>10
  <2> QED BY <1>2, <1>3, <1>5, <1>8, <1>10, <2>1 DEF StatsKept
<1>11. CASE len = 2
  <2>1. got'[3] = TodayEarns /\ got'[1] = got[1] /\ got'[2] = got[2]
    BY <1>4, <1>6, <1>7, <1>11
  <2> QED BY <1>2, <1>3, <1>5, <1>8, <1>11, <2>1 DEF StatsKept
<1>12. CASE len = 3
  <2>1. got'[4] = AllTrips /\ got'[1] = got[1] /\ got'[2] = got[2] /\ got'[3] = got[3]
    BY <1>4, <1>6, <1>7, <1>12
  <2> QED BY <1>2, <1>3, <1>5, <1>8, <1>12, <2>1 DEF StatsKept
<1>13. CASE len = 4
  <2>1. got'[5] = AllCancelled /\ got'[1] = got[1] /\ got'[2] = got[2] /\ got'[3] = got[3] /\ got'[4] = got[4]
    BY <1>4, <1>6, <1>7, <1>13
  <2> QED BY <1>2, <1>3, <1>5, <1>8, <1>13, <2>1 DEF StatsKept
<1>14. CASE len = 5
  <2>1. got'[6] = AllEarns /\ got'[1] = got[1] /\ got'[2] = got[2] /\ got'[3] = got[3] /\ got'[4] = got[4] /\ got'[5] = got[5]
    BY <1>4, <1>6, <1>7, <1>14
  <2> QED BY <1>2, <1>3, <1>5, <1>8, <1>14, <2>1 DEF StatsKept
<1> QED BY <1>9, <1>10, <1>11, <1>12, <1>13, <1>14

\* Where the answers are.
LEMMA StatsPlaces ==
  ASSUME report = "stats"
  PROVE  /\ Len(Report!Queries) = 6
         /\ Report!Answers("today") = got[1] /\ Report!Answers("cancelledToday") = got[2]
         /\ Report!Answers("earnedToday") = got[3] /\ Report!Answers("completed") = got[4]
         /\ Report!Answers("cancelled") = got[5] /\ Report!Answers("earned") = got[6]
<1> DEFINE s == <<"today", "cancelledToday", "earnedToday", "completed", "cancelled", "earned">>
<1>1. Report!Queries = s
  BY DEF Report!Queries
<1>2. /\ DOMAIN s = 1 .. 6 /\ Len(s) = 6
      /\ s[1] = "today" /\ s[2] = "cancelledToday" /\ s[3] = "earnedToday" /\ s[4] = "completed" /\ s[5] = "cancelled"
      /\ s[6] = "earned"
  OBVIOUS
<1> HIDE DEF s
<1>3. \A i \in 1 .. 6 : i = 1 \/ i = 2 \/ i = 3 \/ i = 4 \/ i = 5 \/ i = 6
  OBVIOUS
<1>4. /\ (CHOOSE i \in 1 .. 6 : s[i] = "today") = 1 /\ (CHOOSE i \in 1 .. 6 : s[i] = "cancelledToday") = 2
      /\ (CHOOSE i \in 1 .. 6 : s[i] = "earnedToday") = 3 /\ (CHOOSE i \in 1 .. 6 : s[i] = "completed") = 4
      /\ (CHOOSE i \in 1 .. 6 : s[i] = "cancelled") = 5 /\ (CHOOSE i \in 1 .. 6 : s[i] = "earned") = 6
  BY <1>2, <1>3
<1> QED BY <1>1, <1>2, <1>4 DEF Report!Answers

\* driver_stats: once all is asked, today is part of all time and each trip has its earning.
LEMMA StatsWell ==
  ASSUME StatsKept, report = "stats", Report!Finished
  PROVE  Report!StatsAdd
<1>1. Len(got) = 6
  BY StatsPlaces DEF Report!Finished
<1> QED BY <1>1, StatsPlaces DEF StatsKept, Report!StatsAdd

----------------------------------------------------------------------------
(* The console's dashboard.                                                *)

\* period_range gives a first day and a last day, in this order.
LEMMA SpanFits ==
  ASSUME TableFits, report = "dashboard"
  PROVE  Report!Start \in Int /\ Report!End \in Int /\ Report!Start <= Report!End
<1>1. PICK t \in Int : t = Report!Today
  BY RowDays
<1>2. span \in Report!Spans
  BY DEF TableFits
<1>3. CASE span.from = "no" /\ span.to = "no"
  <2>1. span.days \in {1, 7}
    BY <1>2, <1>3 DEF Report!Spans
  <2>2. Report!Start = t - (span.days - 1) /\ Report!End = t
    BY <1>1, <1>3 DEF Report!Start, Report!End, Report!Days
  <2> QED BY <2>1, <2>2
<1>4. CASE ~(span.from = "no" /\ span.to = "no")
  <2>1. PICK a \in Int, b \in Int : /\ a = IF span.from # "no" THEN t - 2 ELSE t + 1
                                    /\ b = IF span.to # "no" THEN t + 1 ELSE t
    OBVIOUS
  <2>2. Report!Start = Report!Min({a, b}) /\ Report!End = Report!Max({a, b})
    BY <1>1, <1>4, <2>1 DEF Report!Start, Report!End, Report!Days
  <2> QED BY <2>2, ReportEnds
<1> QED BY <1>3, <1>4

\* The rows of a window are those of its days.
LEMMA WindowRows ==
  ASSUME TableFits, NEW a \in Int, NEW b \in Int
  PROVE  Report!Window(a, b) = {r \in rows : Dated[r] \in a .. b}
<1>1. b + 1 \in Int
  OBVIOUS
<1>2. /\ \A r \in rows : r.at \in Nat /\ Dated[r] \in Int
      /\ Report!Since(Report!DayStart(a)) = {r \in rows : Dated[r] >= a}
      /\ Report!Since(Report!DayStart(b + 1)) = {r \in rows : Dated[r] >= b + 1}
  BY <1>1, RowDays
<1>3. Report!DayStart(a) \in Int /\ Report!DayStart(b + 1) \in Int
  BY <1>1 DEF Report!DayStart, TableFits
<1>4. \A r \in rows : /\ Report!DayStart(a) <= r.at <=> Dated[r] >= a
                      /\ Report!DayStart(b + 1) <= r.at <=> Dated[r] >= b + 1
  BY <1>2, <1>3 DEF Report!Since
<1>5. \A r \in rows : Report!DayStart(a) <= r.at /\ r.at < Report!DayStart(b + 1) <=> Dated[r] \in a .. b
  BY <1>2, <1>3, <1>4
<1> QED BY <1>5 DEF Report!Window

InWindow == {r \in rows : Dated[r] \in Report!Start .. Report!End}
WindowOrders  == Cardinality(InWindow)

\* The orders of the window.
LEMMA WindowFits ==
  ASSUME TableFits
  PROVE  InWindow \in SUBSET rows /\ IsFiniteSet(InWindow) /\ WindowOrders \in Nat
<1>1. InWindow \in SUBSET rows
  BY DEF InWindow
<1> QED BY <1>1, PartsFit, FS_CardinalityType DEF WindowOrders

\* A table that changes keeps the orders of a window: what replaces a row has its number and its day.
LEMMA WindowGrows ==
  ASSUME TableFits, TableStep, report = "dashboard"
  PROVE  WindowOrders <= WindowOrders' /\ WindowOrders' \in Nat /\ Report!Start' = Report!Start /\ Report!End' = Report!End
<1>1. /\ TableFits' /\ offset' = offset /\ now' = now /\ span' = span
      /\ report' = report
  BY DEF TableStep
<1>2. Report!Start' = Report!Start /\ Report!End' = Report!End /\ Dated' = Dated
  BY <1>1 DEF Report!Start, Report!End, Report!Days, Report!Today, Report!DayOf, Dated
<1>3. InWindow' = {r \in rows' : Dated[r] \in Report!Start .. Report!End}
  BY <1>2 DEF InWindow
<1>4. InWindow \in SUBSET rows /\ IsFiniteSet(InWindow) /\ WindowOrders \in Nat
  BY WindowFits
<1>5. IsFiniteSet(InWindow') /\ WindowOrders' \in Nat
  <2>1. (TableFits => IsFiniteSet(InWindow) /\ WindowOrders \in Nat)'
    BY WindowFits, PTL
  <2> QED BY <1>1, <2>1
<1>6. CASE \E q : rows' = rows \union {q}
  <2>1. InWindow \in SUBSET InWindow'
    BY <1>3, <1>6 DEF InWindow
  <2> QED BY <1>2, <1>5, <2>1, FS_Subset DEF WindowOrders
<1>7. CASE \E r \in rows : \E q : /\ rows' = (rows \ {r}) \union {q} /\ q.n = r.n /\ r.kind = "assigned"
                                  /\ report # "stats" => q.at = r.at
  <2>1. PICK r \in rows : \E q : /\ rows' = (rows \ {r}) \union {q} /\ q.n = r.n
                                 /\ report # "stats" => q.at = r.at
    BY <1>7
  <2>2. PICK q : rows' = (rows \ {r}) \union {q} /\ q.n = r.n /\ q.at = r.at
    BY <2>1
  <2>3. q \in rows' /\ q \in TableRows /\ r \in TableRows /\ Dated[q] = Dated[r]
    <3>1. q \in TableRows /\ r \in TableRows
      BY <1>1, <2>2 DEF TableFits
    <3> QED BY <2>2, <3>1 DEF Dated
  <2>4. CASE r \notin InWindow
    <3>1. InWindow \in SUBSET InWindow'
      BY <1>3, <2>2, <2>4 DEF InWindow
    <3> QED BY <1>2, <1>5, <3>1, FS_Subset DEF WindowOrders
  <2>5. CASE r \in InWindow
    <3>1. InWindow' = (InWindow \ {r}) \union {q} /\ q \notin InWindow \ {r}
      <4>1. q \in rows => q = r
        BY <2>2 DEF TableFits
      <4>2. Dated[q] \in Report!Start .. Report!End
        BY <2>3, <2>5 DEF InWindow
      <4> QED BY <1>3, <2>2, <4>1, <4>2 DEF InWindow
    <3>2. PICK W : W = InWindow \ {r}
      OBVIOUS
    <3>3. IsFiniteSet(W) /\ Cardinality(W) = Cardinality(InWindow) - 1
      BY <1>4, <2>5, <3>2, FS_RemoveElement
    <3>4. Cardinality(W \union {q}) = Cardinality(W) + 1
      BY <3>1, <3>2, <3>3, FS_AddElement
    <3>5. InWindow' = W \union {q}
      BY <3>1, <3>2
    <3>6. WindowOrders' = Cardinality(W) + 1
      BY <3>4, <3>5 DEF WindowOrders
    <3> QED BY <1>2, <1>4, <1>5, <3>3, <3>6 DEF WindowOrders
  <2> QED BY <2>4, <2>5
<1> QED BY <1>6, <1>7 DEF TableStep

\* The bars of a series: one for each day, as high as the day's orders.
BarOf(series, d) == series[d].done + series[d].cancelled + series[d].other
Bars(series)     == SumFunctionOnSet([d \in Report!Start .. Report!End |-> BarOf(series, d)], Report!Start .. Report!End)
DoneOf(series)   == SumFunctionOnSet([d \in Report!Start .. Report!End |-> series[d].done], Report!Start .. Report!End)
SeriesFit(series) == /\ DOMAIN series = Report!Start .. Report!End
                     /\ \A d \in Report!Start .. Report!End : series[d].other >= 0
                     /\ Bars(series) \in Int

\* Orders that ended and orders that did not are all orders.
LEMMA TotalsFit ==
  ASSUME TableFits, NEW S \in SUBSET rows
  PROVE  /\ Report!Totals(S).orders = Cardinality(S) /\ Cardinality(S) \in Nat
         /\ Report!Totals(S).completed = Cardinality(OfKind(S, "completed"))
         /\ Report!Totals(S).cancelled = Cardinality(OfKind(S, "cancelled"))
         /\ Report!Totals(S).completed \in Nat /\ Report!Totals(S).cancelled \in Nat
         /\ Report!Totals(S).orders - Report!Totals(S).completed - Report!Totals(S).cancelled >= 0
<1>1. IsFiniteSet(S) /\ Cardinality(S) \in Nat
  BY PartsFit, FS_CardinalityType
<1>2. PICK A, B : A = OfKind(S, "completed") /\ B = OfKind(S, "cancelled")
  OBVIOUS
<1>3. /\ Report!Totals(S).orders = Cardinality(S)
      /\ Report!Totals(S).completed = Cardinality(A) /\ Report!Totals(S).cancelled = Cardinality(B)
      /\ Cardinality(A) \in Nat /\ Cardinality(B) \in Nat /\ IsFiniteSet(A) /\ IsFiniteSet(B)
  BY <1>1, <1>2, CountOf, ReportNumbers DEF Report!Totals
<1>4. A \intersect B = {} /\ A \union B \in SUBSET S
  BY <1>2 DEF OfKind
<1>5. Cardinality(A \union B) = Cardinality(A) + Cardinality(B)
  BY <1>3, <1>4, PartsAdd
<1>6. Cardinality(A \union B) <= Cardinality(S)
  BY <1>1, <1>4, FS_Subset
<1> QED BY <1>1, <1>2, <1>3, <1>5, <1>6

\* dashboard's series as it is asked for: its bars are the orders of the window.
LEMMA SeriesAsked ==
  ASSUME TableFits, report = "dashboard", NEW series, series = Report!DashboardAnswer("series")
  PROVE  SeriesFit(series) /\ Bars(series) = WindowOrders /\ DoneOf(series) = Report!Totals(InWindow).completed
<1> DEFINE D == Report!Start .. Report!End
           W == InWindow
           day(d) == ByDay(W, Dated, d)
           done == OfKind(W, "completed")
           bars == [d \in D |-> BarOf(series, d)]
           dones == [d \in D |-> series[d].done]
<1>1. Report!Start \in Int /\ Report!End \in Int /\ Report!Window(Report!Start, Report!End) = W
  BY SpanFits, WindowRows DEF InWindow
<1>2. IsFiniteSet(D)
  BY <1>1, FS_Interval
<1>3. W \in SUBSET rows /\ IsFiniteSet(W)
  BY WindowFits
<1>4. DOMAIN series = D /\ \A d \in D : /\ series[d].done = Report!Totals(day(d)).completed
                                       /\ series[d].cancelled = Report!Totals(day(d)).cancelled
                                       /\ series[d].other = Report!Totals(day(d)).orders - Report!Totals(day(d)).completed
                                                              - Report!Totals(day(d)).cancelled
  <2>1. \A d \in D : {r \in W : Report!DayOf(r.at) = d} = day(d)
    BY <1>3, RowDays DEF ByDay
  <2> HIDE DEF W, day
  <2> QED BY <1>1, <2>1 DEF Report!DashboardAnswer
<1>5. ASSUME NEW d \in D
      PROVE  /\ series[d].other >= 0 /\ BarOf(series, d) = Cardinality(day(d)) /\ BarOf(series, d) \in Int
             /\ series[d].done = Cardinality(ByDay(done, Dated, d)) /\ series[d].done \in Int
  <2>1. day(d) \in SUBSET rows
    BY <1>3 DEF ByDay
  <2>2. PICK S \in SUBSET rows : S = day(d)
    BY <2>1
  <2>3. /\ Report!Totals(S).orders = Cardinality(S) /\ Cardinality(S) \in Nat
        /\ Report!Totals(S).completed = Cardinality(OfKind(S, "completed"))
        /\ Report!Totals(S).completed \in Nat /\ Report!Totals(S).cancelled \in Nat
        /\ Report!Totals(S).orders - Report!Totals(S).completed - Report!Totals(S).cancelled >= 0
    BY TotalsFit
  <2>4. OfKind(day(d), "completed") = ByDay(done, Dated, d)
    BY DEF OfKind, ByDay
  <2> HIDE DEF W, day, done
  <2>5. /\ series[d].done = Report!Totals(S).completed /\ series[d].cancelled = Report!Totals(S).cancelled
        /\ series[d].other = Report!Totals(S).orders - Report!Totals(S).completed - Report!Totals(S).cancelled
    BY <1>4, <2>2
  <2>6. OfKind(S, "completed") = ByDay(done, Dated, d)
    BY <2>2, <2>4
  <2> QED BY <2>2, <2>3, <2>5, <2>6 DEF BarOf
<1>6. {r \in W : Dated[r] \in D} = W /\ {r \in done : Dated[r] \in D} = done /\ done \in SUBSET W
  BY DEF InWindow, OfKind
<1>7. bars \in [D -> Int] /\ (\A d \in D : bars[d] = Cardinality(ByDay(W, Dated, d)))
      /\ dones \in [D -> Int] /\ (\A d \in D : dones[d] = Cardinality(ByDay(done, Dated, d)))
  BY <1>5
<1>8. Bars(series) = SumFunctionOnSet(bars, D) /\ DoneOf(series) = SumFunctionOnSet(dones, D)
  BY DEF Bars, DoneOf
<1>9. Report!Totals(W).completed = Cardinality(done)
  BY <1>3, TotalsFit
<1>10. IsFiniteSet(done)
  BY <1>3, <1>6, FS_Subset
<1>11. \A d \in D : series[d].other >= 0
  BY <1>5
<1>12. WindowOrders = Cardinality(W) /\ WindowOrders \in Nat
  BY WindowFits DEF WindowOrders
<1>13. DOMAIN series = D
  BY <1>4
<1> HIDE DEF W, done, bars, dones, day, D
<1>14. SumFunctionOnSet(bars, D) = Cardinality(W)
  <2>1. SumFunctionOnSet(bars, D) = Cardinality({r \in W : Dated[r] \in D})
    BY <1>2, <1>3, <1>7, CountByDay
  <2> QED BY <1>6, <2>1
<1>15. SumFunctionOnSet(dones, D) = Cardinality(done)
  <2>1. SumFunctionOnSet(dones, D) = Cardinality({r \in done : Dated[r] \in D})
    BY <1>2, <1>7, <1>10, CountByDay
  <2> QED BY <1>6, <2>1
<1> QED BY <1>8, <1>9, <1>11, <1>12, <1>13, <1>14, <1>15 DEF SeriesFit, W, D

\* What is known of the dashboard's answers.
DashboardKept ==
  report = "dashboard" =>
    /\ Len(got) >= 1 => got[1].orders \in Int /\ got[1].orders <= WindowOrders
    /\ Len(got) >= 3 => SeriesFit(got[3]) /\ got[1].orders <= Bars(got[3])

\* The number above the bars is no more than what the table says by now.
LEMMA DashboardChanges ==
  ASSUME TableFits, GotFits, TableStep, DashboardKept
  PROVE  DashboardKept'
<1> SUFFICES ASSUME report = "dashboard" PROVE DashboardKept'
  BY DEF DashboardKept, TableStep
<1>1. got' = got /\ report' = report /\ Len(got) \in Int
  BY DEF TableStep, GotFits
<1>2. WindowOrders <= WindowOrders' /\ WindowOrders' \in Nat /\ Report!Start' = Report!Start /\ Report!End' = Report!End
  BY WindowGrows
<1>3. WindowOrders \in Nat
  BY WindowFits
<1>4. \A s : (SeriesFit(s)' <=> SeriesFit(s)) /\ Bars(s)' = Bars(s)
  BY <1>2 DEF SeriesFit, Bars, BarOf
<1>5. (SeriesFit(got[3])' <=> SeriesFit(got[3])) /\ Bars(got[3])' = Bars(got[3])
  BY <1>1, <1>4
<1>6. Len(got) >= 1 => got[1].orders \in Int /\ got[1].orders <= WindowOrders'
  BY <1>2, <1>3 DEF DashboardKept
<1>7. Len(got) >= 3 => SeriesFit(got[3])' /\ got[1].orders <= Bars(got[3])'
  BY <1>5 DEF DashboardKept
<1> QED BY ONLY <1>1, <1>6, <1>7, report = "dashboard" DEF DashboardKept

\* Each further answer of the dashboard fits the first.
LEMMA DashboardAsked ==
  ASSUME TableFits, GotFits, Answered, DashboardKept
  PROVE  DashboardKept'
<1> SUFFICES ASSUME report = "dashboard" PROVE DashboardKept'
  BY DEF DashboardKept, Answered
<1>1. UNCHANGED <<report, offset, now, span, rows, added>>
  BY DEF Answered
<1>2. /\ Report!Start' = Report!Start /\ Report!End' = Report!End /\ Dated' = Dated /\ report' = report
  BY <1>1 DEF Report!Start, Report!End, Report!Days, Report!Today, Report!DayOf, Dated
<1>3. WindowOrders' = WindowOrders /\ WindowOrders \in Nat
  BY <1>1, <1>2, WindowFits DEF WindowOrders, InWindow
<1>4. \A s : (SeriesFit(s)' <=> SeriesFit(s)) /\ Bars(s)' = Bars(s)
  BY <1>2 DEF SeriesFit, Bars, BarOf
<1>5. /\ Report!Queries = <<"orders", "before", "series", "funnel">>
      /\ \A q : Report!Answer(q) = Report!DashboardAnswer(q)
  BY DEF Report!Queries, Report!Answer
<1>6. PICK len \in 0 .. 3 : len = Len(got) /\ Len(got') = len + 1
  <2>1. Len(Report!Queries) = 4
    BY <1>5
  <2>2. Len(got) \in Nat /\ Len(got) < 4 /\ Len(got') = Len(got) + 1
    BY ONLY <2>1, Answered DEF Answered
  <2>3. \A k \in Nat : k < 4 => k \in 0 .. 3
    OBVIOUS
  <2> QED BY ONLY <2>2, <2>3
<1>7. /\ got'[len + 1] = Report!DashboardAnswer(Report!Queries[len + 1])
      /\ \A i \in 1 .. len : got'[i] = got[i]
  BY <1>5, <1>6 DEF Answered
<1>8. got'[1].orders \in Int /\ got'[1].orders <= WindowOrders
  <2>1. CASE len = 0
    <3>1. got'[1] = Report!DashboardAnswer("orders")
      BY <1>5, <1>7, <2>1
    <3>2. Report!Window(Report!Start, Report!End) = InWindow /\ InWindow \in SUBSET rows
      BY SpanFits, WindowRows, WindowFits DEF InWindow
    <3>3. got'[1].orders = WindowOrders
      BY <3>1, <3>2, TotalsFit DEF Report!DashboardAnswer, WindowOrders
    <3> QED BY <1>3, <3>3
  <2>2. CASE len # 0
    <3>1. got'[1] = got[1] /\ Len(got) >= 1
      BY <1>6, <1>7, <2>2
    <3> QED BY <3>1 DEF DashboardKept
  <2> QED BY <2>1, <2>2
<1>9. ASSUME len >= 2
      PROVE  SeriesFit(got'[3]) /\ got'[1].orders <= Bars(got'[3])
  <2>1. CASE len = 2
    <3>1. got'[3] = Report!DashboardAnswer("series")
      BY <1>5, <1>7, <2>1
    <3>2. SeriesFit(got'[3]) /\ Bars(got'[3]) = WindowOrders
      BY <3>1, SeriesAsked
    <3> QED BY <1>8, <3>2
  <2>2. CASE len = 3
    <3>1. got'[3] = got[3] /\ got'[1] = got[1] /\ Len(got) >= 3
      BY <1>6, <1>7, <2>2
    <3> QED BY <3>1 DEF DashboardKept
  <2> QED BY <1>9, <2>1, <2>2
<1>10. (SeriesFit(got[3])' <=> SeriesFit(got'[3])) /\ Bars(got[3])' = Bars(got'[3])
  BY <1>4
<1> QED BY ONLY <1>2, <1>3, <1>6, <1>8, <1>9, <1>10, report = "dashboard" DEF DashboardKept

\* Where the answers are.
LEMMA DashboardPlaces ==
  ASSUME report = "dashboard"
  PROVE  /\ Len(Report!Queries) = 4
         /\ Report!Answers("orders") = got[1] /\ Report!Answers("before") = got[2] /\ Report!Answers("series") = got[3]
<1> DEFINE s == <<"orders", "before", "series", "funnel">>
<1>1. Report!Queries = s
  BY DEF Report!Queries
<1>2. /\ DOMAIN s = 1 .. 4 /\ Len(s) = 4
      /\ s[1] = "orders" /\ s[2] = "before" /\ s[3] = "series" /\ s[4] = "funnel"
  OBVIOUS
<1> HIDE DEF s
<1>3. \A i \in 1 .. 4 : i = 1 \/ i = 2 \/ i = 3 \/ i = 4
  OBVIOUS
<1>4. /\ (CHOOSE i \in 1 .. 4 : s[i] = "orders") = 1 /\ (CHOOSE i \in 1 .. 4 : s[i] = "before") = 2
      /\ (CHOOSE i \in 1 .. 4 : s[i] = "series") = 3
  BY <1>2, <1>3
<1> QED BY <1>1, <1>2, <1>4 DEF Report!Answers

\* dashboard: once all is asked, its bars are its orders.
LEMMA DashboardWell ==
  ASSUME TableFits, GotFits, DashboardKept, report = "dashboard", Report!Finished
  PROVE  Report!DashboardAdds
<1> DEFINE series == Report!Answers("series")
           orders == [d \in DOMAIN series |-> series[d].done + series[d].cancelled + series[d].other]
           dones == [d \in DOMAIN series |-> series[d].done]
<1>0. Len(got) = 4 /\ series = got[3]
  BY DashboardPlaces DEF Report!Finished
<1>1. SeriesFit(series) /\ got[1].orders <= Bars(series)
  <2> HIDE DEF series
  <2> QED BY <1>0 DEF DashboardKept
<1>2. DOMAIN series = Report!Start .. Report!End /\ \A d \in DOMAIN series : series[d].other >= 0
  <2> HIDE DEF series
  <2> QED BY <1>1 DEF SeriesFit
<1>3. Report!SumFunction(orders) = Bars(series) /\ Report!SumFunction(dones) = DoneOf(series)
  <2> DEFINE D == Report!Start .. Report!End
  <2>1. orders = [d \in D |-> BarOf(series, d)] /\ DOMAIN orders = D
    BY <1>2 DEF BarOf
  <2>2. dones = [d \in D |-> series[d].done] /\ DOMAIN dones = D
    BY <1>2
  <2> HIDE DEF series, orders, dones
  <2> QED BY <2>1, <2>2, ReportSums DEF Bars, DoneOf
<1>4. ASSUME added = 0
      PROVE  /\ Bars(series) = got[1].orders /\ DoneOf(series) = got[1].completed
             /\ got[2].orders + Bars(series)
                  = Cardinality({r \in rows : Report!DayOf(r.at) \in Report!Start - Report!Length .. Report!End})
  <2>1. /\ Report!Queries = <<"orders", "before", "series", "funnel">>
        /\ \A q : Report!Answer(q) = Report!DashboardAnswer(q)
    BY DEF Report!Queries, Report!Answer
  <2>2. \A i \in 1 .. 4 : got[i] = Report!DashboardAnswer(Report!Queries[i])
    BY <1>0, <1>4, <2>1 DEF GotFits
  <2>3. /\ got[1] = Report!DashboardAnswer("orders") /\ got[2] = Report!DashboardAnswer("before")
        /\ got[3] = Report!DashboardAnswer("series")
    BY <2>1, <2>2
  <2>4. Bars(series) = WindowOrders /\ DoneOf(series) = Report!Totals(InWindow).completed
    <3> HIDE DEF series
    <3> QED BY <1>0, <2>3, SeriesAsked
  <2>5. PICK a \in Int, b \in Int, l \in Int : /\ a = Report!Start /\ b = Report!End /\ l = Report!Length /\ a <= b
                                               /\ l = b - a + 1
    BY SpanFits DEF Report!Length
  <2>6. Report!Window(a, b) = InWindow /\ InWindow \in SUBSET rows
    BY <2>5, SpanFits, WindowRows, WindowFits DEF InWindow
  <2>7. got[1].orders = WindowOrders /\ got[1].completed = Report!Totals(InWindow).completed
    BY <2>3, <2>5, <2>6, TotalsFit DEF Report!DashboardAnswer, WindowOrders
  <2>8. PICK W : W = {r \in rows : Dated[r] \in a - l .. a - 1}
    OBVIOUS
  <2>9. got[2].orders = Cardinality(W) /\ IsFiniteSet(W) /\ W \in SUBSET rows
    <3>1. a - l \in Int /\ a - 1 \in Int
      BY <2>5
    <3>2. PICK c \in Int, d \in Int : c = a - l /\ d = a - 1
      BY <3>1
    <3>3. Report!Window(c, d) = {r \in rows : Dated[r] \in c .. d}
      BY WindowRows
    <3>4. W \in SUBSET rows /\ Report!Window(Report!Start - Report!Length, Report!Start - 1) = W
      BY <2>5, <2>8, <3>2, <3>3
    <3>5. got[2] = Report!Totals(W)
      BY <2>3, <3>4 DEF Report!DashboardAnswer
    <3> QED BY <3>4, <3>5, TotalsFit, PartsFit
  <2>10. W \intersect InWindow = {}
         /\ W \union InWindow = {r \in rows : Report!DayOf(r.at) \in Report!Start - Report!Length .. Report!End}
    <3>1. \A r \in rows : Dated[r] \in Int /\ Dated[r] = Report!DayOf(r.at)
      BY RowDays
    <3>2. \A x \in Int : /\ x \in a - l .. a - 1 <=> a - l <= x /\ x <= a - 1
                         /\ x \in a .. b <=> a <= x /\ x <= b
                         /\ x \in a - l .. b <=> a - l <= x /\ x <= b
      BY <2>5
    <3>3. InWindow = {r \in rows : Dated[r] \in a .. b}
      BY <2>5 DEF InWindow
    <3>4. \A r \in rows : /\ ~(Dated[r] \in a - l .. a - 1 /\ Dated[r] \in a .. b)
                          /\ Dated[r] \in a - l .. a - 1 \/ Dated[r] \in a .. b <=> Report!DayOf(r.at) \in a - l .. b
      BY <2>5, <3>1, <3>2
    <3>5. W \intersect InWindow = {}
      BY <2>8, <3>3, <3>4
    <3>6. W \union InWindow = {r \in rows : Report!DayOf(r.at) \in a - l .. b}
      BY <2>8, <3>3, <3>4
    <3> QED BY <2>5, <3>5, <3>6
  <2>11. Cardinality(W \union InWindow) = Cardinality(W) + WindowOrders
    BY <2>9, <2>10, WindowFits, PartsAdd DEF WindowOrders
  <2> HIDE DEF series
  <2> QED BY <2>4, <2>7, <2>9, <2>10, <2>11
<1>5. Report!Cardinality({r \in rows : Report!DayOf(r.at) \in Report!Start - Report!Length .. Report!End})
        = Cardinality({r \in rows : Report!DayOf(r.at) \in Report!Start - Report!Length .. Report!End})
  BY ReportNumbers
<1> HIDE DEF orders, dones
<1>6. /\ \A d \in DOMAIN series : series[d].other >= 0
      /\ got[1].orders <= Report!SumFunction(orders)
      /\ added = 0 => /\ Report!SumFunction(orders) = got[1].orders
                      /\ Report!SumFunction(dones) = got[1].completed
                      /\ got[2].orders + Report!SumFunction(orders)
                           = Report!Cardinality({r \in rows : Report!DayOf(r.at) \in Report!Start - Report!Length .. Report!End})
  <2> HIDE DEF series
  <2> QED BY <1>1, <1>2, <1>3, <1>4, <1>5
<1> QED BY <1>6, DashboardPlaces DEF Report!DashboardAdds, orders, dones

----------------------------------------------------------------------------
(* All reports.                                                            *)

ReportInv == TableFits /\ GotFits /\ WalletKept /\ StatsKept /\ DashboardKept

\* A report begins without answers.
LEMMA ReportsStart ==
  ASSUME Init
  PROVE  ReportInv
<1>1. TableFits
  BY TableStarts
<1>2. got = <<>> /\ Len(got) = 0
  BY DEF Init, Report!Init
<1>3. Len(Report!Queries) \in Nat
  BY <1>1, QueryTypes DEF TableFits
<1>4. GotFits
  <2>1. got \in Seq({})
    BY <1>2
  <2>2. 0 \in 0 .. Len(Report!Queries) /\ 1 .. 0 = {}
    BY <1>3
  <2> QED BY <1>2, <2>1, <2>2 DEF GotFits
<1> QED BY <1>1, <1>2, <1>4 DEF ReportInv, WalletKept, StatsKept, DashboardKept

\* Every step of a report or of the tables keeps what is known of the answers.
LEMMA ReportsGoOn ==
  ASSUME ReportInv, [Next]_vars
  PROVE  ReportInv'
<1>1. TableFits /\ GotFits /\ WalletKept /\ StatsKept /\ DashboardKept
  BY DEF ReportInv
<1>2. CASE Report!Query
  <2>1. TableFits' /\ GotFits' /\ Answered
    BY <1>1, <1>2, OneMore
  <2> QED BY <1>1, <2>1, WalletAsked, StatsAsked, DashboardAsked DEF ReportInv
<1>3. CASE TableStep
  <2>1. TableFits'
    BY <1>3 DEF TableStep
  <2> QED BY <1>1, <1>3, <2>1, GotStays, WalletChanges, StatsChanges, DashboardChanges DEF ReportInv
<1>4. CASE UNCHANGED reports
  <2>1. UNCHANGED <<report, offset, now, span, rows, added, got>>
    BY <1>4 DEF reports
  <2>2. TableFits'
    BY <1>1, <2>1 DEF TableFits, Report!Kinds, Report!Spans
  <2>3. /\ Report!Today' = Report!Today /\ Report!Start' = Report!Start /\ Report!End' = Report!End /\ Dated' = Dated
        /\ TodayRows' = TodayRows /\ WeekRows' = WeekRows
    BY <2>1 DEF Report!Start, Report!End, Report!Days, Report!Today, Report!DayOf, Dated, TodayRows, WeekRows,
      Report!Since, Report!DayStart, Report!Monday
  <2>4. GotFits'
    <3>1. Report!Queries' = Report!Queries
      BY <2>1 DEF Report!Queries
    <3>2. \A q : Report!Answer(q)' = Report!Answer(q)
      BY <2>1, SameAnswers
    <3>3. \A i : Report!Answer(Report!Queries[i])' = Report!Answer(Report!Queries[i])
      BY <3>1, <3>2
    <3> QED BY <1>1, <2>1, <3>1, <3>3 DEF GotFits
  <2>5. WalletKept'
    <3>1. Week' = Week /\ TodayEarns' = TodayEarns /\ WeekEarns' = WeekEarns
      BY <2>3 DEF Week, TodayEarns, WeekEarns, Report!Monday
    <3>2. \A days : (DaysFit(days)' <=> DaysFit(days)) /\ WeekOf(days)' = WeekOf(days)
      BY <2>3, <3>1 DEF DaysFit, WeekOf
    <3>3. (DaysFit(got[1])' <=> DaysFit(got[1])) /\ WeekOf(got[1])' = WeekOf(got[1])
      BY <2>1, <3>2
    <3> QED BY <1>1, <2>1, <2>3, <3>1, <3>3 DEF WalletKept
  <2>6. StatsKept'
    <3>1. /\ TodayTrips' = TodayTrips /\ TodayCancelled' = TodayCancelled /\ TodayEarns' = TodayEarns
          /\ AllTrips' = AllTrips
      BY <2>1, <2>3 DEF TodayTrips, TodayCancelled, TodayEarns, AllTrips
    <3> QED BY <1>1, <2>1, <3>1 DEF StatsKept
  <2>7. DashboardKept'
    <3>1. WindowOrders' = WindowOrders
      BY <2>1, <2>3 DEF WindowOrders, InWindow
    <3>2. \A s : (SeriesFit(s)' <=> SeriesFit(s)) /\ Bars(s)' = Bars(s)
      BY <2>3 DEF SeriesFit, Bars, BarOf
    <3>3. (SeriesFit(got[3])' <=> SeriesFit(got[3])) /\ Bars(got[3])' = Bars(got[3])
      BY <2>1, <3>2
    <3> QED BY <1>1, <2>1, <3>1, <3>3 DEF DashboardKept
  <2> QED BY <2>2, <2>4, <2>5, <2>6, <2>7 DEF ReportInv
<1> QED BY <1>1, <1>2, <1>3, <1>4, ReportSteps, TableGoesOn

\* WalletService.summary, driver_stats and dashboard: in any time zone, at any moment and for
\* any period, the numbers of a report fit together, whatever is added to the tables and
\* changes in them between its queries.
THEOREM ReportsKept == Spec => [](part = "report" => Report!NumbersAgree)
<1>1. ReportInv => Report!NumbersAgree
  BY WalletWell, StatsWell, DashboardWell DEF ReportInv, Report!NumbersAgree
<1>2. Init => ReportInv
  BY ReportsStart
<1>3. ReportInv /\ [Next]_vars => ReportInv'
  BY ReportsGoOn
<1> QED BY <1>1, <1>2, <1>3, PTL DEF Spec

----------------------------------------------------------------------------
(* The office.                                                             *)

\* The numbers of a report fit together and with the lists behind them; a voice note is as
\* long as its sound; a company keeps a login and sees its own rows; the world hears of a trip
\* what happened to it, in that order; a command typed again completes what one that died left;
\* and an order asks for what it has.  (WalletService.summary, driver_stats, dashboard,
\* recorder.js and order_voice, team_save, Subject.notify, the console's lists, seed_drivers,
\* TripCreateSerializer.validate and book_test_trip.)
THEOREM OfficeHolds == Spec => []OfficeKept
<1>1. /\ part = "report" => Report!NumbersAgree
      /\ part = "lists" => Lists!ListsAgree
      /\ part = "voice" => Voice!VoiceAgrees
      /\ part = "team" => Team!TeamHolds
      /\ part = "events" => Events!EventsFollow
      /\ part = "seed" => Seed!SeedKept
      /\ part = "orders" => Orders!OrdersHold
      => OfficeKept
  BY DEF OfficeKept
<1> QED BY <1>1, ReportsKept, ListsKept, VoiceKept, TeamKept, EventsKept, SeedHolds, OrdersKept, PTL
=============================================================================
