------------------------------- MODULE SignIn -------------------------------
(***************************************************************************)
(* One phone number: the drivers registered under it and the code that     *)
(* proves it (drivers/services.py).  What a sign-in opens: Sessions.       *)
(*                                                                         *)
(* The code lives in the cache, outside any transaction, and leaves it     *)
(* when its time is up.  Guessing a code is left out.                      *)
(***************************************************************************)
EXTENDS Naturals, FiniteSets

CONSTANTS
  Accounts,    \* ids of Driver rows with this number, those not yet inserted included
  Home,        \* the company new drivers join (DRIVER_SIGNUP_COMPANY_ID)
  Others,      \* further companies
  MaxCodes,    \* bound: the codes sent
  Servers,     \* processes that serve the requests
  Nobody       \* Python's None

VARIABLES
  account,   \* account -> its Driver row, and whether it has a DriverKyc row
  open,      \* sign-up is open: signup_company() finds a company
  sent,      \* the codes sent so far
  code,      \* the cached code, 0 when there is none
  call       \* server -> the request it serves

vars == <<account, open, sent, code, call>>

\* (A lapsed licence closes an account as a block does.)
Status  == {"absent", "active", "disabled", "deleted"}
Company == {Home} \union Others
Ready   == [op |-> "idle"]

Init ==
  /\ account = [a \in Accounts |-> [status |-> "absent", company |-> Nobody, kyc |-> FALSE, own |-> FALSE]]
  /\ open \in BOOLEAN
  /\ sent = 0 /\ code = 0
  /\ call = [s \in Servers |-> Ready]

----------------------------------------------------------------------------
Present == {a \in Accounts : account[a].status \notin {"absent", "deleted"}}
At(c) == {a \in Present : account[a].company = c}

\* find_driver and _require_known_or_signup: one active driver, or none and an open door.
Known(a) ==
  IF a = Nobody THEN Present = {} /\ open
  ELSE Present = {a} /\ account[a].status = "active"

Accept(s, r) == call[s] = Ready /\ call' = [call EXCEPT ![s] = r]
Step(s, op)  == call' = [call EXCEPT ![s].op = op]
Answer(s)    == call' = [call EXCEPT ![s] = Ready]

\* An error, or the process dies.
Drop(s) ==
  /\ call[s] # Ready
  /\ Answer(s)
  /\ UNCHANGED <<account, open, sent, code>>

----------------------------------------------------------------------------
(* Signing in.                                                             *)

\* request_otp; its throttle is switched off.
RequestOtp(a) ==
  /\ Known(a)
  /\ sent < MaxCodes
  /\ sent' = sent + 1 /\ code' = sent + 1
  /\ UNCHANGED <<account, open, call>>

CodeExpires ==
  /\ code # 0
  /\ code' = 0
  /\ UNCHANGED <<account, open, sent, call>>

VerifyFind(s, a, typed) ==
  /\ Known(a)
  /\ Accept(s, [op |-> "compare", of |-> a, typed |-> typed])
  /\ UNCHANGED <<account, open, sent, code>>

VerifyCompare(s) ==
  /\ call[s].op = "compare"
  /\ code = call[s].typed
  /\ Step(s, "spend")
  /\ UNCHANGED <<account, open, sent, code>>

\* cache.delete, of whatever code is there by now.
VerifySpend(s) ==
  /\ call[s].op = "spend"
  /\ code' = 0
  /\ Step(s, IF call[s].of = Nobody THEN "register" ELSE "issue")
  /\ UNCHANGED <<account, open, sent>>

\* Slip: the papers are created after the driver, in a statement of their own.
RegisterSplit(s, a) ==
  /\ call[s].op = "register" /\ open
  /\ IF At(Home) = {}
       THEN /\ account[a].status = "absent"
            /\ account' = [account EXCEPT ![a] = [status |-> "active", company |-> Home, kyc |-> FALSE, own |-> TRUE]]
       ELSE a \in At(Home) /\ account' = [account EXCEPT ![a].kyc = TRUE]
  /\ call' = [call EXCEPT ![s] = [op |-> IF account[a].status = "absent" THEN "register" ELSE "issue", of |-> a]]
  /\ UNCHANGED <<open, sent, code>>

\* register: get_or_create and the papers in one transaction.  Another request may have
\* registered the number by now; its row is taken as it is.
Register(s, a) ==
  /\ call[s].op = "register" /\ open
  /\ IF At(Home) = {}
       THEN /\ account[a].status = "absent"
            /\ account' = [account EXCEPT ![a] = [status |-> "active", company |-> Home, kyc |-> TRUE, own |-> TRUE]]
       ELSE a \in At(Home) /\ UNCHANGED account
  /\ call' = [call EXCEPT ![s] = [op |-> "issue", of |-> a]]
  /\ UNCHANGED <<open, sent, code>>

\* The response reads the driver's papers; its tokens belong to Sessions.
Issue(s) ==
  /\ call[s].op = "issue" /\ account[call[s].of].kyc
  /\ Answer(s)
  /\ UNCHANGED <<account, open, sent, code>>

----------------------------------------------------------------------------
(* The company.                                                            *)

\* The form refuses a number the company's drivers have.
Free(c) == At(c) = {}

\* DriverService.create saves the driver first and the papers next.
CreateDriver(s, a, c) ==
  /\ account[a].status = "absent" /\ Free(c)
  /\ account' = [account EXCEPT ![a] = [status |-> "active", company |-> c, kyc |-> FALSE, own |-> FALSE]]
  /\ Accept(s, [op |-> "papers", of |-> a])
  /\ UNCHANGED <<open, sent, code>>

CreateKyc(s) ==
  /\ call[s].op = "papers"
  /\ account' = [account EXCEPT ![call[s].of].kyc = TRUE]
  /\ Answer(s)
  /\ UNCHANGED <<open, sent, code>>

\* Locked, blocked, opened again or retired (Fleet and Onboarding say when).
SetAccount(a, status) ==
  /\ a \in Present
  /\ status # "absent"
  /\ account' = [account EXCEPT ![a].status = status]
  /\ UNCHANGED <<open, sent, code, call>>

\* The setting, or the company's own status.
SwitchSignUp ==
  /\ open' = ~open
  /\ UNCHANGED <<account, sent, code, call>>

----------------------------------------------------------------------------
Serve(s) ==
  \/ \E a \in Accounts \union {Nobody}, typed \in 1..sent : VerifyFind(s, a, typed)
  \/ VerifyCompare(s) \/ VerifySpend(s)
  \/ \E a \in Accounts : Register(s, a)
  \/ Issue(s)
  \/ \E a \in Accounts, c \in Company : CreateDriver(s, a, c)
  \/ CreateKyc(s)
  \/ Drop(s)

Next ==
  \/ \E s \in Servers : Serve(s)
  \/ \E a \in Accounts \union {Nobody} : RequestOtp(a)
  \/ CodeExpires
  \/ \E a \in Accounts, status \in Status : SetAccount(a, status)
  \/ SwitchSignUp

Spec == Init /\ [][Next]_vars

----------------------------------------------------------------------------
(* Properties.                                                             *)

\* register: however requests for one number race and wherever a process dies, a driver
\* who signed up has the papers every other page reads.
SignedUpWhole == \A a \in Accounts : account[a].own => account[a].kyc
=============================================================================
