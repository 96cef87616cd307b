----------------------------- MODULE LoginPage -----------------------------
(***************************************************************************)
(* The sign-in page of the customers (login.html): the number, the code    *)
(* that was texted to it, and the name of whoever is new.  The fourth      *)
(* digit checks the code by itself and the button checks it again; the     *)
(* resend button is not disabled before its answer is there; answers come  *)
(* in any order.  The codes themselves, their tries and their limits are   *)
(* CustomerCode's: here a code is right or wrong, spent once it was right, *)
(* and replaced by the next.                                               *)
(***************************************************************************)
EXTENDS Integers, FiniteSets

CONSTANTS
  MaxAsks,     \* bound: requests the page sends
  NoCode

VARIABLES
  step,        \* the form that is shown: "phone", "otp", "name", or "left"
  digits,      \* the code in the boxes, NoCode while they are not full
  resend,      \* the resend button is enabled
  busy,        \* the send button is busy
  asks,        \* requests under way, with their answers
  count,       \* requests so far
  code,        \* the server's code for the number
  codes,       \* codes texted so far
  named,       \* the customer has a name
  session,     \* the browser is signed in
  asked,       \* the page has asked for the name
  posted       \* the name was posted

form == <<step, digits, resend, busy, asked>>
server == <<code, codes, named, session>>
vars == <<form, asks, count, server, posted>>

Init ==
  /\ step = "phone" /\ digits = NoCode /\ resend = FALSE /\ busy = FALSE
  /\ asks = {} /\ count = 0
  /\ code = NoCode /\ codes = 0
  /\ named \in BOOLEAN /\ session = FALSE
  /\ asked = FALSE /\ posted = FALSE

Ask(kind, sent) ==
  /\ count < MaxAsks
  /\ count' = count + 1
  /\ asks' = asks \union {[n |-> count, kind |-> kind, sent |-> sent, answer |-> "none"]}

----------------------------------------------------------------------------
(* The page.                                                               *)

\* send, from the form of the number.
Send ==
  /\ step = "phone" /\ ~busy
  /\ Ask("send", NoCode)
  /\ busy' = TRUE
  /\ UNCHANGED <<step, digits, resend, asked, server, posted>>

\* send, from the resend button, which stays enabled until countdown runs.
Resend ==
  /\ step = "otp" /\ resend
  /\ Ask("send", NoCode)
  /\ busy' = TRUE
  /\ UNCHANGED <<step, digits, resend, asked, server, posted>>

\* countdown is over.
ResendAgain ==
  /\ step = "otp" /\ ~resend
  /\ resend' = TRUE
  /\ UNCHANGED <<step, digits, busy, asked, asks, count, server, posted>>

\* The back button of the code's form.
Back ==
  /\ step = "otp"
  /\ step' = "phone"
  /\ UNCHANGED <<digits, resend, busy, asked, asks, count, server, posted>>

\* The fourth digit, or all of them pasted: verify.  A code that was texted is typed.
Type(c) ==
  /\ step = "otp" /\ digits = NoCode
  /\ digits' = c
  /\ Ask("verify", c)
  /\ UNCHANGED <<step, resend, busy, asked, server, posted>>

\* The verify button, while the first check is under way.
Verify ==
  /\ step = "otp" /\ digits # NoCode
  /\ Ask("verify", digits)
  /\ UNCHANGED <<step, digits, resend, busy, asked, server, posted>>

\* The answer of api_otp_request: the form of the code, with empty boxes.
SendArrives(a) ==
  /\ a.kind = "send"
  /\ IF a.answer = "sent" THEN step' = "otp" /\ digits' = NoCode /\ resend' = FALSE
     ELSE UNCHANGED <<step, digits, resend>>
  /\ busy' = FALSE
  /\ UNCHANGED asked

\* The answer of api_otp_verify: the name is asked for, the page is left, or the boxes are
\* emptied for another try.
VerifyArrives(a) ==
  /\ a.kind = "verify"
  /\ CASE a.answer = "new"   -> step' = "name" /\ asked' = TRUE /\ UNCHANGED digits
       [] a.answer = "known" -> step' = "left" /\ UNCHANGED <<digits, asked>>
       [] OTHER              -> digits' = NoCode /\ UNCHANGED <<step, asked>>
  /\ UNCHANGED <<resend, busy>>

Arrives(a) ==
  /\ step # "left"
  /\ a.answer # "none"
  /\ SendArrives(a) \/ VerifyArrives(a)
  /\ asks' = asks \ {a}
  /\ UNCHANGED <<count, server, posted>>

\* The form of the name: posted to the profile, then left.
PostName ==
  /\ step = "name"
  /\ named' = TRUE /\ posted' = TRUE
  /\ step' = "left"
  /\ UNCHANGED <<digits, resend, busy, asked, asks, count, code, codes, session>>

----------------------------------------------------------------------------
(* The server.                                                             *)

Answered(a, answer) == asks' = (asks \ {a}) \union {[a EXCEPT !.answer = answer]}

\* api_otp_request: a new code, or the phone has asked too often.
ServeSend(a) ==
  /\ a.kind = "send" /\ a.answer = "none"
  /\ \/ /\ codes' = codes + 1 /\ code' = codes + 1
        /\ Answered(a, "sent")
     \/ Answered(a, "refused") /\ UNCHANGED <<code, codes>>
  /\ UNCHANGED <<form, count, named, session, posted>>

\* Slip: "new" for a customer who is created by this very request.
NewIfCreated == IF named \/ session THEN "known" ELSE "new"

\* {"new": not customer.full_name}
New == IF named THEN "known" ELSE "new"

\* api_otp_verify: the right code signs in and is spent; a request that read it before
\* that still signs in.
ServeVerify(a) ==
  /\ a.kind = "verify" /\ a.answer = "none"
  /\ IF a.sent = code \/ (session /\ a.sent = codes)
     THEN \/ session' = TRUE /\ code' = NoCode /\ Answered(a, New)
          \/ session /\ Answered(a, "refused") /\ UNCHANGED <<session, code>>
     ELSE Answered(a, "refused") /\ UNCHANGED <<session, code>>
  /\ UNCHANGED <<form, count, codes, named, posted>>

Next ==
  \/ Send \/ Resend \/ ResendAgain \/ Back \/ Verify \/ PostName
  \/ \E c \in 0 .. codes : Type(c)
  \/ \E a \in asks : Arrives(a) \/ ServeSend(a) \/ ServeVerify(a)

Spec == Init /\ [][Next]_vars

----------------------------------------------------------------------------
\* verify: however often a code is checked and however the answers come, the page is left
\* by somebody who is signed in, and nobody without a name leaves it without being asked.
LeftProperly == step = "left" => session /\ (named \/ asked)

\* show: nobody is asked for their name who is not signed in.
NamesAsked == step = "name" => session

LoginHolds == LeftProperly /\ NamesAsked
=============================================================================
