---------------------------- MODULE Onboarding -----------------------------
(***************************************************************************)
(* One driver from sign-up to approval: what they submit, what the company *)
(* decides about it, the licence that lapses and the account it locks      *)
(* (drivers/services.py, the driver's and the company's views, the console *)
(* and the admin's bulk action).                                           *)
(*                                                                         *)
(* A decision is one UPDATE of its own columns.  A submission saves every  *)
(* column of a DriverKyc row it read before it stored the uploaded files.  *)
(***************************************************************************)
EXTENDS Naturals

CONSTANT Names    \* bound: the names a driver may give, 0 for none yet

VARIABLES
  account,   \* Driver.account_status
  name,      \* Driver.full_name, for everything a complete profile has
  kyc,       \* part -> the columns of DriverKyc about it
  expiry,    \* DriverKyc.dl_expiry_date, as of today
  app,       \* the request the driver's app has under way
  desk,      \* the request of the company that is under way
  serial     \* requests of this driver and about them do not overlap

vars == <<account, name, kyc, expiry, app, desk, serial>>

Parts == {"aadhar", "dl", "police"}
VerificationStatus == {"pending", "verified", "rejected"}
AccountStatus == {"active", "locked_dl_expired", "disabled"}
Days == {"none", "coming", "over"}
Paper == [status: VerificationStatus, doc: BOOLEAN, decided: BOOLEAN, note: BOOLEAN]

\* What the company says of a document: the decision, whether with a note and, for the
\* licence, the day.
Decision == [status: {"verified", "rejected"}, note: BOOLEAN, day: Days]

Rest    == [op |-> "idle"]
Resting == app = Rest /\ desk = Rest

Init ==
  /\ account = "active"
  /\ name = 0
  /\ kyc = [p \in Parts |-> [status |-> "pending", doc |-> FALSE, decided |-> FALSE, note |-> FALSE]]
  /\ expiry = "none"
  /\ app = Rest /\ desk = Rest
  /\ serial \in BOOLEAN

----------------------------------------------------------------------------
(* What the application derives.                                           *)

Verified(p) == kyc[p].status = "verified"

\* Driver.is_eligible_for_assignment.
Eligible == (\A p \in Parts : Verified(p)) /\ account = "active" /\ expiry # "over"

\* Driver.onboarding_status, the first that applies, for a driver who registered a
\* vehicle with a picture (Garage).
OnboardingStatus ==
  IF Eligible THEN "approved"
  ELSE IF name = 0 THEN "profile_incomplete"
  ELSE IF \E p \in Parts : kyc[p].status = "rejected" THEN "action_required"
  ELSE IF \E p \in {"aadhar", "dl"} : ~Verified(p) /\ ~kyc[p].doc THEN "documents_required"
  ELSE "under_review"

\* What the app is answered about a document, and about the driver.
Shown(p) == [status |-> kyc[p].status, submitted |-> kyc[p].doc, rejection_note |-> kyc[p].note]
Me == [account_status |-> account, is_profile_complete |-> name # 0, onboarding_status |-> OnboardingStatus,
       dl_expiry_date |-> expiry, kyc |-> [p \in Parts |-> Shown(p)]]

Reviewable(p) == kyc[p].status = "pending" /\ kyc[p].doc
\* Slip: licences are left out.
PendingKycButLicences == \E p \in Parts \ {"dl"} : Reviewable(p)
\* The queue of the console, its counter in the sidebar and the admin's filter.
PendingKyc == \E p \in Parts : Reviewable(p)

----------------------------------------------------------------------------
(* The driver.                                                             *)

BeginApp(r) == app = Rest /\ account = "active" /\ (serial => desk = Rest) /\ app' = r
EndApp == app' = Rest

\* The forms that are taken: a field may be left out, but none a profile needs is emptied.
Profiles == Names \ {0}

\* update_profile, up to its decision.
ProfileFetch(n) ==
  /\ BeginApp([op |-> "profile", name |-> n])
  /\ Verified("aadhar") => n = name
  /\ UNCHANGED <<account, name, kyc, expiry, desk, serial>>

ProfileWrite ==
  /\ app.op = "profile"
  /\ name' = app.name
  /\ EndApp
  /\ UNCHANGED <<account, kyc, expiry, desk, serial>>

\* Slip: the note of the last rejection stays.
BackToPendingNoted(paper) == [paper EXCEPT !.status = "pending", !.doc = TRUE, !.decided = FALSE]
BackToPending(paper) == [status |-> "pending", doc |-> TRUE, decided |-> FALSE, note |-> FALSE]

\* What the form claims about the day on the licence: one to come.
Claimed(p) == IF p = "dl" THEN "coming" ELSE expiry

\* The copy a submission will save.
Submitted(p) == [op |-> "submit", kyc |-> [kyc EXCEPT ![p] = BackToPending(@)], expiry |-> Claimed(p)]

\* Slip: a verified document can be replaced.
SubmitFetchAgain(p) ==
  /\ BeginApp(Submitted(p))
  /\ UNCHANGED <<account, name, kyc, expiry, desk, serial>>

\* submit_aadhar, submit_dl and submit_police with a valid form, up to the upload.
SubmitFetch(p) ==
  /\ BeginApp(Submitted(p))
  /\ ~Verified(p)
  /\ UNCHANGED <<account, name, kyc, expiry, desk, serial>>

\* kyc.save(), of every column.
SubmitWrite ==
  /\ app.op = "submit"
  /\ kyc' = app.kyc /\ expiry' = app.expiry
  /\ EndApp
  /\ UNCHANGED <<account, name, desk, serial>>

\* The upload is refused or the process dies.
AppAbort ==
  /\ app # Rest
  /\ EndApp
  /\ UNCHANGED <<account, name, kyc, expiry, desk, serial>>

----------------------------------------------------------------------------
(* The company: the API, the console, the admin's bulk approval, the       *)
(* command line.  The last three decide several documents in one request.  *)

DeskOpen ==
  /\ desk = Rest /\ (serial => app = Rest)
  /\ desk' = [op |-> "open", locked |-> account = "locked_dl_expired"]
  /\ UNCHANGED <<account, name, kyc, expiry, app, serial>>

\* The forms the API takes.
ApiTakes(p, d) ==
  /\ d.status = "rejected" => d.note
  /\ p = "dl" /\ d.status = "verified" => d.day = "coming"

\* Slip: nobody is asked why.
ConsoleTakesAny(p, d) == p = "dl" /\ d.status = "verified" => d.day # "none"

\* The console's: whatever day is typed, or else the stored one.
ConsoleTakes(p, d) ==
  /\ d.status = "rejected" => d.note
  /\ p = "dl" /\ d.status = "verified" => d.day # "none"

\* The admin's bulk approval types nothing and skips who has no day stored.
ApprovalTakes(p, d) ==
  /\ expiry # "none"
  /\ d = [status |-> "verified", note |-> FALSE, day |-> IF p = "dl" THEN expiry ELSE "none"]

Takes(p, d) == ApiTakes(p, d) \/ ConsoleTakes(p, d) \/ ApprovalTakes(p, d)

\* verify_*, whatever the document's status was; only a licence that is approved has a day.
Decided(paper, d) ==
  [paper EXCEPT !.status = d.status, !.decided = TRUE, !.note = (d.status = "rejected" /\ d.note)]

Decide(p, d) ==
  /\ desk.op = "open"
  /\ Takes(p, d)
  /\ p = "dl" => d.status = "rejected"
  /\ d.day = "none"
  /\ kyc' = [kyc EXCEPT ![p] = Decided(@, d)]
  /\ UNCHANGED <<account, name, expiry, app, desk, serial>>

\* verify_dl for "verified".
VerifyDl(d) ==
  /\ desk.op = "open"
  /\ Takes("dl", d)
  /\ d.status = "verified"
  /\ kyc' = [kyc EXCEPT !["dl"] = Decided(@, d)]
  /\ expiry' = d.day
  /\ desk' = IF desk.locked /\ d.day = "coming" THEN [desk EXCEPT !.op = "unlock"] ELSE desk
  /\ UNCHANGED <<account, name, app, serial>>

VerifyDlUnlock ==
  /\ desk.op = "unlock"
  /\ account' = "active"
  /\ desk' = [op |-> "open", locked |-> FALSE]
  /\ UNCHANGED <<name, kyc, expiry, app, serial>>

\* The request is answered, or dies where it is.
DeskDone ==
  /\ desk # Rest
  /\ desk' = Rest
  /\ UNCHANGED <<account, name, kyc, expiry, app, serial>>

\* Block and unblock (their check for a trip: Fleet).
DriverStatus(status) ==
  /\ status \in {"active", "disabled"}
  /\ account' = status
  /\ UNCHANGED <<name, kyc, expiry, app, desk, serial>>

----------------------------------------------------------------------------
LicenceLapses ==
  /\ expiry = "coming"
  /\ expiry' = "over"
  /\ UNCHANGED <<account, name, kyc, app, desk, serial>>

\* Slip: a status the column does not have.
LockExpiredPlain ==
  /\ expiry = "over" /\ account = "active"
  /\ account' = "locked"
  /\ UNCHANGED <<name, kyc, expiry, app, desk, serial>>

\* lock_expired_licenses, daily.
LockExpired ==
  /\ expiry = "over" /\ account = "active"
  /\ account' = "locked_dl_expired"
  /\ UNCHANGED <<name, kyc, expiry, app, desk, serial>>

----------------------------------------------------------------------------
Next ==
  \/ \E n \in Profiles : ProfileFetch(n)
  \/ ProfileWrite
  \/ \E p \in Parts : SubmitFetch(p)
  \/ SubmitWrite \/ AppAbort
  \/ DeskOpen
  \/ \E p \in Parts, d \in Decision : Decide(p, d)
  \/ \E d \in Decision : VerifyDl(d)
  \/ VerifyDlUnlock \/ DeskDone
  \/ \E status \in AccountStatus : DriverStatus(status)
  \/ LicenceLapses \/ LockExpired

Spec == Init /\ [][Next]_vars

----------------------------------------------------------------------------
(* Properties.                                                             *)

TypeOK ==
  /\ account \in AccountStatus
  /\ name \in Names
  /\ kyc \in [Parts -> Paper]
  /\ expiry \in Days
  /\ app.op \in {"idle", "profile", "submit"} /\ desk.op \in {"idle", "open", "unlock"}

\* _back_to_pending and verify_*: what a driver reads about a document fits together.
\* A decision and its note are gone once a new scan is pending, an approval has no
\* note, a rejection says why; also when a stale copy of the row is saved.
DecisionWhole ==
  \A p \in Parts :
    /\ kyc[p].decided <=> kyc[p].status # "pending"
    /\ Me.kyc[p].rejection_note <=> Me.kyc[p].status = "rejected"

\* _require_editable: while requests do not overlap, nothing but a decision of the
\* company takes an approval away.
ApprovalStands ==
  [][\A p \in Parts : serial /\ Verified(p) /\ desk = Rest => Verified(p)']_vars

\* onboarding_status and PENDING_KYC: a driver who is told that the company is
\* reviewing them is in the company's queue, unless something else than the review
\* keeps them from work: the account, the day on the licence, or a police certificate
\* they never uploaded.
ReviewQueued ==
  /\ Me.onboarding_status = "under_review"
  /\ Me.account_status = "active" /\ Me.dl_expiry_date # "over"
  /\ Me.kyc["police"].submitted \/ Me.kyc["police"].status = "verified"
  => PendingKyc
=============================================================================
