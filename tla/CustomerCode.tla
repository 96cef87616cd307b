---------------------------- MODULE CustomerCode ----------------------------
(***************************************************************************)
(* The code that signs a customer in to the booking pages                  *)
(* (booking/services.py): sent at most every half minute, good for         *)
(* OTP_MAX_ATTEMPTS wrong answers and one right one.  It lives in the      *)
(* cache, outside any transaction: an answer is compared with a copy, and  *)
(* the copy is written back.                                               *)
(***************************************************************************)
EXTENDS Naturals, FiniteSets

CONSTANTS
  MaxTries,   \* OTP_MAX_ATTEMPTS
  MaxSent,    \* bound: the codes sent
  Servers     \* processes that serve the requests

VARIABLES
  open,       \* company() finds the company that serves customers
  sent,       \* the codes sent so far
  throttle,   \* the last one was sent less than OTP_THROTTLE ago
  code,       \* the cached code and its wrong answers; id 0 when there is none
  wrong,      \* code -> the wrong answers it was told
  used,       \* code -> the customers it let in
  member,     \* the customer's row exists
  call,       \* server -> the request it serves
  single      \* requests do not overlap

vars == <<open, sent, throttle, code, wrong, used, member, call, single>>

None  == [id |-> 0, tries |-> 0]
Ready == [op |-> "idle"]
Codes == 1..MaxSent

Init ==
  /\ open \in BOOLEAN /\ single \in BOOLEAN
  /\ sent = 0 /\ throttle = FALSE /\ code = None
  /\ wrong = [c \in Codes |-> 0] /\ used = [c \in Codes |-> 0]
  /\ member = FALSE
  /\ call = [s \in Servers |-> Ready]

\* request_otp, for a number that normalise_phone accepts.
RequestOtp ==
  /\ ~throttle
  /\ single => \A s \in Servers : call[s] = Ready
  /\ sent < MaxSent
  /\ sent' = sent + 1
  /\ code' = [id |-> sent + 1, tries |-> 0]
  /\ throttle' = TRUE
  /\ UNCHANGED <<open, wrong, used, member, call, single>>

ThrottleExpires ==
  /\ throttle
  /\ throttle' = FALSE
  /\ UNCHANGED <<open, sent, code, wrong, used, member, call, single>>

CodeExpires ==
  /\ code # None
  /\ code' = None
  /\ UNCHANGED <<open, sent, throttle, wrong, used, member, call, single>>

\* cache.get; the customer typed the digits of one of the codes, or others (0).
VerifyFetch(s, typed) ==
  /\ call[s] = Ready
  /\ single => \A v \in Servers : call[v] = Ready
  /\ code # None
  /\ call' = [call EXCEPT ![s] = [op |-> "compare", copy |-> code, typed |-> typed]]
  /\ UNCHANGED <<open, sent, throttle, code, wrong, used, member, single>>

TooMany(copy) == copy.tries >= MaxTries
Answer(s)     == call' = [call EXCEPT ![s] = Ready]

VerifyTooMany(s) ==
  /\ call[s].op = "compare" /\ TooMany(call[s].copy)
  /\ code' = None
  /\ Answer(s)
  /\ UNCHANGED <<open, sent, throttle, wrong, used, member, single>>

\* The copy goes back with one more wrong answer, whatever is in the cache by now.
VerifyWrong(s) ==
  LET copy == call[s].copy IN
  /\ call[s].op = "compare" /\ ~TooMany(copy) /\ call[s].typed # copy.id
  /\ wrong' = [wrong EXCEPT ![copy.id] = @ + 1]
  /\ code' = [copy EXCEPT !.tries = @ + 1]
  /\ Answer(s)
  /\ UNCHANGED <<open, sent, throttle, used, member, single>>

\* Slip: the code stays until it expires.
VerifyRightKeeping(s) ==
  LET copy == call[s].copy IN
  /\ call[s].op = "compare" /\ ~TooMany(copy) /\ call[s].typed = copy.id
  /\ call' = [call EXCEPT ![s] = [op |-> "enter", id |-> copy.id]]
  /\ UNCHANGED <<open, sent, throttle, code, wrong, used, member, single>>

VerifyRight(s) ==
  LET copy == call[s].copy IN
  /\ call[s].op = "compare" /\ ~TooMany(copy) /\ call[s].typed = copy.id
  /\ code' = None
  /\ call' = [call EXCEPT ![s] = [op |-> "enter", id |-> copy.id]]
  /\ UNCHANGED <<open, sent, throttle, wrong, used, member, single>>

\* BOOKING_CLOSED leaves the customer without a code and without a session.
Enter(s) ==
  /\ call[s].op = "enter"
  /\ IF open THEN member' = TRUE /\ used' = [used EXCEPT ![call[s].id] = @ + 1]
     ELSE UNCHANGED <<member, used>>
  /\ Answer(s)
  /\ UNCHANGED <<open, sent, throttle, code, wrong, single>>

\* The process dies.
Die(s) ==
  /\ call[s] # Ready
  /\ Answer(s)
  /\ UNCHANGED <<open, sent, throttle, code, wrong, used, member, single>>

\* BOOKING_COMPANY_ID, or the status of the company.
SwitchCompany ==
  /\ open' = ~open
  /\ UNCHANGED <<sent, throttle, code, wrong, used, member, call, single>>

Next ==
  \/ RequestOtp \/ ThrottleExpires \/ CodeExpires \/ SwitchCompany
  \/ \E s \in Servers :
       \/ \E typed \in 0..sent : VerifyFetch(s, typed)
       \/ VerifyTooMany(s) \/ VerifyWrong(s) \/ VerifyRight(s) \/ Enter(s) \/ Die(s)

----------------------------------------------------------------------------
(* Properties.                                                             *)

\* A server can hold a copy back while the others use the code up, and start it again with
\* what the copy has left.  Count, for every number of wrong answers below the limit, the
\* servers that can still go on from there or from fewer: each guess makes the first of
\* these counts that it changes smaller, so that there are as many guesses as ways to
\* count, but for the last.
Counts  == {f \in [0 .. MaxTries - 1 -> 0 .. Cardinality(Servers)] : \A i, j \in DOMAIN f : i <= j => f[i] <= f[j]}
Guesses == IF single THEN MaxTries ELSE Cardinality(Counts) - 1

\* verify_otp: a code answers a bounded number of guesses however requests overlap; while
\* they do not, no more than OTP_MAX_ATTEMPTS, it lets in once, and the code in the cache
\* is the one in the customer's last SMS.
CodesHold ==
  /\ \A c \in Codes : wrong[c] <= Guesses
  /\ single => /\ \A c \in Codes : used[c] <= 1
               /\ code.id \in {0, sent}
=============================================================================
