------------------------ MODULE BookingPages_proofs -------------------------
(***************************************************************************)
(* What the pages on the customer's phone promise, for any number of       *)
(* places, texts, trips, screens and answers on their way.                 *)
(***************************************************************************)
EXTENDS Booking, Recursion_proofs, FiniteSetTheorems, SequenceTheorems, TLAPS

----------------------------------------------------------------------------
(* The sign-in page.                                                       *)

Post == [n : Nat, kind : {"send", "verify"}, sent : Nat \union {NoCode},
         answer : {"none", "sent", "refused", "new", "known"}]

\* An answer that lets in was given to a session that is there, and a name stays.
LoginInv ==
  /\ posts \in SUBSET Post /\ count \in Nat /\ texted \in Nat /\ digits \in Nat \union {NoCode}
  /\ \A a \in posts : /\ a.answer \in {"new", "known"} => session /\ a.kind = "verify"
                      /\ a.answer = "known" => named
  /\ Login!LoginHolds

\* The page opens on the form of the number.
LEMMA LoginInit == Init => LoginInv
<1>1. Login!Init => LoginInv
  BY DEF Login!Init, LoginInv, Login!LoginHolds, Login!LeftProperly, Login!NamesAsked
<1>2. Init => Login!Init
  BY DEF Init
<1> QED BY <1>1, <1>2

\* A request is sent and is not answered yet.
LEMMA LoginAsk ==
  ASSUME LoginInv, NEW kind \in {"send", "verify"}, NEW s \in Nat \union {NoCode}, Login!Ask(kind, s),
         session' <=> session, named' <=> named, askedName' <=> askedName, texted' = texted, step' = step,
         digits' \in Nat \union {NoCode}
  PROVE  LoginInv'
<1>1. PICK b : b = [n |-> count, kind |-> kind, sent |-> s, answer |-> "none"]
  OBVIOUS
<1>2. b \in Post /\ b.answer = "none"
  BY <1>1 DEF LoginInv, Post
<1>3. posts' = posts \union {b} /\ count' = count + 1
  BY <1>1 DEF Login!Ask
<1> QED BY <1>2, <1>3 DEF LoginInv, Post, Login!LoginHolds, Login!LeftProperly, Login!NamesAsked

\* What the page does and what it makes of an answer.
LEMMA LoginPageStep ==
  ASSUME LoginInv,
         \/ Login!Send \/ Login!Resend \/ Login!ResendAgain \/ Login!Back \/ Login!Verify \/ Login!PostName
         \/ \E c \in 0 .. texted : Login!Type(c)
         \/ \E a \in posts : Login!Arrives(a)
  PROVE  LoginInv'
<1> USE DEF Login!server
<1>1. CASE Login!Send
  BY <1>1, LoginAsk DEF Login!Send, LoginInv
<1>2. CASE Login!Resend
  BY <1>2, LoginAsk DEF Login!Resend, LoginInv
<1>3. CASE Login!ResendAgain \/ Login!Back
  BY <1>3 DEF Login!ResendAgain, Login!Back, LoginInv, Login!LoginHolds, Login!LeftProperly, Login!NamesAsked
<1>4. CASE Login!Verify
  BY <1>4, LoginAsk DEF Login!Verify, LoginInv
<1>5. CASE Login!PostName
  BY <1>5 DEF Login!PostName, LoginInv, Login!LoginHolds, Login!LeftProperly, Login!NamesAsked
<1>6. ASSUME NEW c \in 0 .. texted, Login!Type(c) PROVE LoginInv'
  BY <1>6, LoginAsk DEF Login!Type, LoginInv
<1>7. ASSUME NEW a \in posts, Login!Arrives(a) PROVE LoginInv'
  BY <1>7 DEF Login!Arrives, Login!SendArrives, Login!VerifyArrives, LoginInv, Login!LoginHolds,
    Login!LeftProperly, Login!NamesAsked
<1> QED BY <1>1, <1>2, <1>3, <1>4, <1>5, <1>6, <1>7

\* What the server answers.
LEMMA LoginServerStep ==
  ASSUME LoginInv, NEW a \in posts, Login!ServeSend(a) \/ Login!ServeVerify(a)
  PROVE  LoginInv'
<1>1. a \in Post
  BY DEF LoginInv
<1>2. ASSUME NEW answer \in {"sent", "refused", "new", "known"}, Login!Answered(a, answer),
             UNCHANGED <<step, digits, count>>, named' <=> named, askedName' <=> askedName, texted' \in Nat,
             session => session', answer \in {"new", "known"} => session' /\ a.kind = "verify",
             answer = "known" => named
      PROVE  LoginInv'
  <2>1. PICK b : b = [a EXCEPT !.answer = answer]
    OBVIOUS
  <2>2. b \in Post /\ b.answer = answer /\ b.kind = a.kind
    BY <1>1, <2>1 DEF Post
  <2>3. posts' = (posts \ {a}) \union {b}
    BY <1>2, <2>1 DEF Login!Answered
  <2>4. Post' = Post
    BY DEF Post
  <2> QED BY <1>2, <2>2, <2>3, <2>4 DEF LoginInv, Login!LoginHolds, Login!LeftProperly, Login!NamesAsked
<1>3. CASE Login!ServeSend(a)
  BY <1>2, <1>3 DEF Login!ServeSend, Login!form, LoginInv
<1>4. CASE Login!ServeVerify(a)
  <2>1. /\ a.kind = "verify" /\ UNCHANGED <<step, digits, resend, busy, askedName, count, texted, named>>
        /\ \/ session' = TRUE /\ Login!Answered(a, Login!New)
           \/ session' = session /\ Login!Answered(a, "refused")
    BY <1>4 DEF Login!ServeVerify, Login!form
  <2>2. texted' \in Nat /\ (session => session')
    BY <2>1 DEF LoginInv
  <2>3. CASE session' = TRUE /\ Login!Answered(a, "known") /\ named
    BY <1>2, <2>1, <2>2, <2>3
  <2>4. CASE session' = TRUE /\ Login!Answered(a, "new")
    BY <1>2, <2>1, <2>2, <2>4
  <2>5. CASE session' = session /\ Login!Answered(a, "refused")
    BY <1>2, <2>1, <2>2, <2>5
  <2> QED BY <2>1, <2>3, <2>4, <2>5 DEF Login!New
<1> QED BY <1>3, <1>4

\* Every step keeps what is true of the sign-in page.
LEMMA LoginKept == LoginInv /\ [Next]_vars => LoginInv'
<1>1. ASSUME LoginInv, Login!Next PROVE LoginInv'
  BY <1>1, LoginPageStep, LoginServerStep DEF Login!Next
<1>2. LoginInv /\ UNCHANGED login => LoginInv'
  BY DEF login, LoginInv, Login!LoginHolds, Login!LeftProperly, Login!NamesAsked
<1>3. [Next]_vars => Login!Next \/ UNCHANGED login
  BY DEF Next, vars, phone, ServerStep, PhoneStep, Tracking
<1> QED BY <1>1, <1>2, <1>3

----------------------------------------------------------------------------
(* The booking page.                                                       *)

\* While the review is open and From was not changed on top of it, the fare and the answer
\* that will replace it are those of the trip on the page.
HomeInv ==
  /\ seq \in Nat /\ \A a \in asked : a.n \in Nat /\ a.n <= seq
  /\ picker = [mode |-> picker.mode, changed |-> picker.changed] /\ picker.changed \in BOOLEAN
  /\ picker.changed => picker.mode = "drop"
  /\ picker.mode = "first" => ~review
  /\ review => from # Nowhere /\ to # Nowhere
  /\ review /\ ~picker.changed => /\ fare \in {Nowhere, <<from, to>>}
                                  /\ \A a \in asked : a.n = seq => a.trip = <<from, to>>
  /\ Page!BookedAtItsFare

\* The booking page begins with no trip and no answer on its way.
LEMMA HomeInit == Init => HomeInv
<1>1. Page!Init => HomeInv
  BY NullsAssumption DEF Page!Init, HomeInv, Page!NoPicker, Page!NoBooking, Page!BookedAtItsFare, Page!Points
<1>2. Init => Page!Init
  BY DEF Init
<1> QED BY <1>1, <1>2

\* The fares are asked for the trip that the page will show.
LEMMA HomeLoads ==
  ASSUME HomeInv, NEW p, NEW d, p # Nowhere, d # Nowhere, Page!LoadOptions(p, d), from' = p, to' = d,
         picker' = Page!NoPicker, booking' = booking
  PROVE  HomeInv'
<1>1. PICK b : b = [n |-> seq + 1, trip |-> <<p, d>>]
  OBVIOUS
<1>2. asked' = asked \union {b} /\ seq' = seq + 1 /\ b.n = seq + 1 /\ b.trip = <<p, d>> /\ fare' = Nowhere
  BY <1>1 DEF Page!LoadOptions
<1>3. \A a \in asked' : a.n \in Nat /\ a.n <= seq' /\ (a.n = seq' => a = b)
  BY <1>2 DEF HomeInv
<1> QED BY <1>2, <1>3 DEF HomeInv, Page!NoPicker, Page!BookedAtItsFare

\* The customer's and the device's choices.
LEMMA HomeStep ==
  ASSUME HomeInv,
         \/ \E p \in Spots : \/ Page!Locate(p) \/ Page!PickPickup(p) \/ Page!ChangeFrom(p)
                             \/ Page!PickDrop(p) \/ Page!QuickDrop(p)
         \/ \E mode \in {"pickup", "first", "drop"} : Page!OpenPicker(mode)
         \/ Page!LeavePicker \/ Page!CloseReview \/ Page!Retry \/ Page!Book
         \/ \E a \in asked : Page!Priced(a) \/ Page!AskFails(a)
  PROVE  HomeInv'
<1> USE NullsAssumption DEF Page!rest
<1>1. ASSUME NEW p \in Spots, Page!Locate(p) PROVE HomeInv'
  BY <1>1 DEF Page!Locate, HomeInv, Page!BookedAtItsFare
<1>2. ASSUME NEW p \in Spots, Page!PickPickup(p) PROVE HomeInv'
  <2>1. CASE UNCHANGED <<review, seq, asked, fare>>
    <3>1. ~review
      BY <1>2, <2>1 DEF Page!PickPickup, Page!OpenReview, Page!LoadOptions, HomeInv
    <3>2. picker' = Page!Picking("drop") \/ picker' = Page!NoPicker
      BY <1>2 DEF Page!PickPickup
    <3>3. booking' = booking
      BY <1>2 DEF Page!PickPickup
    <3>4. ~review' /\ UNCHANGED <<seq, asked>>
      BY <2>1, <3>1
    <3>5. picker' = [mode |-> picker'.mode, changed |-> picker'.changed] /\ picker'.changed = FALSE
      BY <3>2 DEF Page!Picking, Page!NoPicker
    <3>6. \A a \in asked' : a.n \in Nat /\ a.n <= seq'
      BY <3>4 DEF HomeInv
    <3> QED BY <3>3, <3>4, <3>5, <3>6 DEF HomeInv, Page!BookedAtItsFare
  <2>2. CASE ~UNCHANGED <<review, seq, asked, fare>>
    <3>1. Page!LoadOptions(p, to) /\ p # Nowhere /\ to # Nowhere
      BY <1>2, <2>2 DEF Page!PickPickup, Page!OpenReview
    <3>2. picker' = Page!NoPicker /\ from' = p /\ to' = to /\ booking' = booking
      BY <1>2, <2>2 DEF Page!PickPickup
    <3> QED BY <3>1, <3>2, HomeLoads
  <2> QED BY <2>1, <2>2
<1>3. ASSUME NEW p \in Spots, Page!ChangeFrom(p) PROVE HomeInv'
  BY <1>3 DEF Page!ChangeFrom, HomeInv, Page!BookedAtItsFare
<1>4. ASSUME NEW p \in Spots, NEW f, Page!OpenReview(f, p), f = from, to' = p, from' = from, booking' = booking,
             picker' = Page!NoPicker
      PROVE  HomeInv'
  <2>1. CASE from = Nowhere
    BY <1>4, <2>1 DEF Page!OpenReview, Page!NoPicker, HomeInv, Page!BookedAtItsFare
  <2>2. CASE from # Nowhere
    <3>1. Page!LoadOptions(from, p) /\ p # Nowhere
      BY <1>4, <2>2 DEF Page!OpenReview
    <3>2. picker' = Page!NoPicker
      BY <1>4
    <3> QED BY <1>4, <2>2, <3>1, <3>2, HomeLoads
  <2> QED BY <2>1, <2>2
<1>5. ASSUME NEW p \in Spots, Page!PickDrop(p) PROVE HomeInv'
  BY <1>4, <1>5 DEF Page!PickDrop
<1>6. ASSUME NEW p \in Spots, Page!QuickDrop(p) PROVE HomeInv'
  BY <1>4, <1>6 DEF Page!QuickDrop, Page!AtHome
<1>7. ASSUME NEW mode \in {"pickup", "first", "drop"}, Page!OpenPicker(mode) PROVE HomeInv'
  BY <1>7 DEF Page!OpenPicker, Page!Picking, Page!NoPicker, HomeInv, Page!BookedAtItsFare
<1>8. CASE Page!LeavePicker
  <2>1. CASE picker.changed /\ review
    <3>1. Page!LoadOptions(from, to) /\ from # Nowhere /\ to # Nowhere
      BY <1>8, <2>1 DEF Page!LeavePicker, Page!OpenReview, HomeInv
    <3>2. picker' = Page!NoPicker /\ UNCHANGED <<from, to, booking>>
      BY <1>8 DEF Page!LeavePicker
    <3> QED BY <3>1, <3>2, HomeLoads
  <2>2. CASE ~(picker.changed /\ review)
    BY <1>8, <2>2 DEF Page!LeavePicker, Page!NoPicker, HomeInv, Page!BookedAtItsFare
  <2> QED BY <2>1, <2>2
<1>9. CASE Page!CloseReview
  BY <1>9 DEF Page!CloseReview, HomeInv, Page!BookedAtItsFare
<1>10. CASE Page!Retry
  <2>1. Page!LoadOptions(from, to) /\ from # Nowhere /\ to # Nowhere /\ picker' = Page!NoPicker
        /\ UNCHANGED <<from, to, booking>>
    BY <1>10 DEF Page!Retry, Page!OnReview, HomeInv
  <2> QED BY <2>1, HomeLoads
<1>11. CASE Page!Book
  BY <1>11 DEF Page!Book, Page!OnReview, Page!NoPicker, HomeInv, Page!BookedAtItsFare
<1>12. ASSUME NEW a \in asked, Page!Priced(a) \/ Page!AskFails(a) PROVE HomeInv'
  BY <1>12 DEF Page!Priced, Page!AskFails, Page!Current, HomeInv, Page!BookedAtItsFare
<1> QED BY <1>1, <1>2, <1>3, <1>5, <1>6, <1>7, <1>8, <1>9, <1>10, <1>11, <1>12

\* Every step keeps what is true of the booking page.
LEMMA HomeKept == HomeInv /\ [Next]_vars => HomeInv'
<1>1. ASSUME HomeInv, Page!Next PROVE HomeInv'
  BY <1>1, HomeStep DEF Page!Next
<1>2. HomeInv /\ UNCHANGED home => HomeInv'
  BY DEF home, HomeInv, Page!BookedAtItsFare
<1>3. [Next]_vars => Page!Next \/ UNCHANGED home
  BY DEF Next, vars, phone, ServerStep, PhoneStep, Tracking
<1> QED BY <1>1, <1>2, <1>3

----------------------------------------------------------------------------
(* The place picker.                                                       *)

Question == [kind : {"search", "address"}, of : Spots \union Texts \union {Nowhere}, live : BOOLEAN]

\* The address that is still wanted, or has come, is that of the pin's last centre, which
\* is where the map stands once it stands still.
PinInv ==
  /\ asks \subseteq Question
  /\ \A a \in asks : a.kind = "address" /\ a.live => a.of = pinCenter
  /\ pinned \in {Nowhere, pinCenter}
  /\ \/ map \in {Picker!NoMap, Picker!Up}
     \/ map = [state |-> "loading", at |-> map.at, lookup |-> map.lookup] /\ map.at \in Spots
  /\ moving => map = Picker!Up
  /\ pin /\ map = Picker!Up /\ ~moving => pinCenter = center
  /\ pin /\ map.state = "loading" /\ ~map.lookup => pinCenter = map.at
  /\ pinCenter \in Spots \union {Nowhere} /\ (map = Picker!Up => center \in Spots \union {Nowhere})

\* The results that are still wanted are the text's.
TextInv ==
  /\ typed \in Texts \union {Nowhere}
  /\ \A a \in asks : a.kind = "search" /\ a.live => a.of = typed
  /\ list \in Texts => list = typed

Screens == {"picker", "from", "map"}
Layers ==
  IF ~shown THEN <<>>
  ELSE IF sub THEN (IF pin THEN <<"picker", "from", "map">> ELSE <<"picker", "from">>)
  ELSE IF pin THEN <<"picker", "map">> ELSE <<"picker">>

\* One answer at most opens the map for a customer who waits for it, from the list.
BackInv ==
  patient =>
    /\ layers = Layers
    /\ \/ details = {} /\ ~locating
       \/ shown /\ ~pin /\ \/ details = {} /\ locating
                           \/ (\E p \in details : details = {p}) /\ ~locating

\* ++seq: no question is wanted any more.
LEMMA NoneWanted ==
  ASSUME asks \subseteq Question
  PROVE  \A b \in Picker!Outdated : b \in Question /\ b.live = FALSE
<1> SUFFICES ASSUME NEW a \in asks PROVE [a EXCEPT !.live = FALSE] \in Question /\ [a EXCEPT !.live = FALSE].live = FALSE
  BY DEF Picker!Outdated
<1>1. a \in Question
  OBVIOUS
<1> QED BY <1>1 DEF Question

\* An action that opens the map, at a place of the list or at one that comes late.
LEMMA PinOpens ==
  ASSUME PinInv, TextInv, NEW p \in Spots, NEW bare \in BOOLEAN, Picker!OpenPin(p, bare)
  PROVE  PinInv' /\ TextInv'
<1>1. \A b \in asks' : b \in Question /\ b.live = FALSE
  BY NoneWanted DEF Picker!OpenPin, PinInv
<1>2. TextInv'
  BY <1>1 DEF Picker!OpenPin, TextInv
<1>3. pinCenter' = p /\ pinned' \in {Nowhere, p}
  BY DEF Picker!OpenPin
<1>4. CASE map = Picker!Up
  <2>1. map' = map /\ center' = p /\ moving' = (moving \/ p # center)
    BY <1>4 DEF Picker!OpenPin
  <2> QED BY <1>1, <1>2, <1>3, <1>4, <2>1 DEF PinInv, Question, Picker!Up
<1>5. CASE map # Picker!Up
  <2>1. PICK l : map' = [state |-> "loading", at |-> p, lookup |-> l] /\ UNCHANGED <<center, moving>>
    BY <1>5 DEF Picker!OpenPin
  <2> QED BY <1>1, <1>2, <1>3, <1>5, <2>1 DEF PinInv, Question, Picker!Up
<1> QED BY <1>4, <1>5

\* Nothing is wanted any more, and the pin and the map stay: the picker opens, changes and
\* closes its screens, and the customer types.
LEMMA NothingWanted ==
  ASSUME PinInv, TextInv, asks' = Picker!Outdated, pin' => pin, UNCHANGED <<map, center, moving>>,
         \/ UNCHANGED <<pinned, pinCenter>>
         \/ pinned' = Nowhere /\ pinCenter' = Nowhere /\ ~pin',
         \/ UNCHANGED <<typed, list>>
         \/ typed' \in Texts \union {Nowhere} /\ list' \in {Nowhere, "searching"}
  PROVE  PinInv' /\ TextInv'
<1>1. \A b \in asks' : b \in Question /\ b.live = FALSE
  BY NoneWanted DEF PinInv
<1>2. TextInv'
  BY <1>1, NullsAssumption DEF TextInv
<1> QED BY <1>1, <1>2 DEF PinInv, Question, Picker!Up, Picker!NoMap

\* The actions on the screens and the text.
LEMMA ScreenStep ==
  ASSUME PinInv, TextInv, layers \in Seq(Screens),
         \/ Picker!PickPlace \/ Picker!ChangeFrom \/ Picker!GoBack \/ Picker!TakeSaved \/ Picker!Confirm
         \/ \E text \in Texts \union {Nowhere} : Picker!Type(text)
  PROVE  PinInv' /\ TextInv'
<1> USE DEF Picker!ground, Picker!screen, Picker!search
<1>1. CASE Picker!PickPlace
  BY <1>1, NothingWanted DEF Picker!PickPlace, Picker!Configure
<1>2. CASE Picker!ChangeFrom
  BY <1>2, NothingWanted DEF Picker!ChangeFrom, Picker!Configure
<1>3. CASE Picker!GoBack
  <2>1. layers[Len(layers)] \in Screens /\ UNCHANGED <<details, locating, map, center, moving, pinCenter, pinned>>
    BY <1>3 DEF Picker!GoBack, Picker!late
  <2>2. CASE layers[Len(layers)] = "picker"
    BY <1>3, <2>1, <2>2 DEF Picker!GoBack, PinInv, TextInv, Question
  <2>3. CASE layers[Len(layers)] \in {"from", "map"}
    BY <1>3, <2>1, <2>3, NothingWanted DEF Picker!GoBack, Picker!Configure
  <2> QED BY <2>1, <2>2, <2>3 DEF Screens
<1>4. CASE Picker!TakeSaved \/ Picker!Confirm
  BY <1>4, NothingWanted DEF Picker!TakeSaved, Picker!Confirm, Picker!Finish, Picker!Configure
<1>5. ASSUME NEW text \in Texts \union {Nowhere}, Picker!Type(text) PROVE PinInv' /\ TextInv'
  BY <1>5, NothingWanted DEF Picker!Type
<1> QED BY <1>1, <1>2, <1>3, <1>4, <1>5

\* A question is asked, and no other is wanted any more.
LEMMA OneWanted ==
  ASSUME asks \subseteq Question, NEW kind \in {"search", "address"}, NEW of \in Spots \union Texts \union {Nowhere},
         asks' = Picker!Outdated \union {Picker!Fresh(kind, of)}
  PROVE  \A b \in asks' : b \in Question /\ (b.live => b.kind = kind /\ b.of = of)
<1>1. PICK b : b = Picker!Fresh(kind, of)
  OBVIOUS
<1>2. b \in Question /\ b.kind = kind /\ b.of = of
  BY <1>1 DEF Picker!Fresh, Question
<1> QED BY <1>1, <1>2, NoneWanted

\* What the list and the map ask for, and what comes of it.
LEMMA MapStep ==
  ASSUME PinInv, TextInv,
         \/ Picker!Search \/ Picker!UseHere \/ Picker!LateFails
         \/ Picker!MapLoads \/ Picker!MapFails \/ Picker!Idle \/ Picker!LookupCenter
         \/ \E a \in asks : Picker!Found(a) \/ Picker!AddressComes(a)
         \/ \E p \in Spots : \/ Picker!ChooseKnown(p) \/ Picker!ChooseOnMap(p) \/ Picker!Choose(p)
                             \/ Picker!DetailsCome(p) \/ Picker!HereComes(p) \/ Picker!Move(p)
  PROVE  PinInv' /\ TextInv'
<1> USE DEF Picker!ground, Picker!screen, Picker!search, Picker!late
<1>1. CASE Picker!Search
  <2>1. \A b \in asks' : b \in Question /\ (b.live => b.kind = "search" /\ b.of = typed)
    BY <1>1, OneWanted DEF Picker!Search, PinInv, TextInv
  <2>2. UNCHANGED <<pin, typed, list, map, center, moving, pinCenter, pinned>>
    BY <1>1 DEF Picker!Search
  <2> QED BY <2>1, <2>2 DEF PinInv, TextInv, Question, Picker!Up, Picker!NoMap
<1>2. CASE Picker!UseHere \/ Picker!LateFails \/ \E p \in Spots : Picker!Choose(p)
  <2>1. UNCHANGED <<pin, asks, typed, list, map, center, moving, pinCenter, pinned>>
    BY <1>2 DEF Picker!UseHere, Picker!LateFails, Picker!Choose
  <2> QED BY <2>1 DEF PinInv, TextInv, Question
<1>3. ASSUME NEW c \in Spots \union {Nowhere}, Picker!Lookup(c), UNCHANGED <<pin, typed, list>>,
             \/ UNCHANGED <<map, center, moving>> /\ map = Picker!Up /\ (moving \/ c = center)
             \/ map' = Picker!Up /\ center' = c
      PROVE  PinInv' /\ TextInv'
  <2>1. \A b \in asks' : b \in Question /\ (b.live => b.kind = "address" /\ b.of = c)
    BY <1>3, OneWanted DEF Picker!Lookup, PinInv
  <2>2. pinCenter' = c /\ pinned' = Nowhere
    BY <1>3 DEF Picker!Lookup
  <2> QED BY <1>3, <2>1, <2>2 DEF PinInv, TextInv, Question, Picker!Up
<1>4. CASE Picker!MapLoads
  <2>1. map' = Picker!Up /\ center' = map.at /\ map.at \in Spots /\ UNCHANGED <<pin, typed, list>>
    BY <1>4 DEF Picker!MapLoads, PinInv, Picker!Up, Picker!NoMap
  <2>2. CASE pin /\ (map.lookup \/ pinned = Nowhere)
    BY <1>3, <1>4, <2>1, <2>2 DEF Picker!MapLoads
  <2>3. CASE ~(pin /\ (map.lookup \/ pinned = Nowhere))
    <3>1. UNCHANGED <<asks, pinCenter, pinned>> /\ map.state = "loading"
      BY <1>4, <2>3 DEF Picker!MapLoads
    <3> QED BY <2>1, <2>3, <3>1 DEF PinInv, TextInv, Question, Picker!Up, Picker!NoMap
  <2> QED BY <2>2, <2>3
<1>5. CASE Picker!MapFails
  BY <1>5 DEF Picker!MapFails, PinInv, TextInv, Question, Picker!Up, Picker!NoMap
<1>6. CASE Picker!Idle
  <2>1. CASE pin /\ center # pinCenter
    <3>1. /\ \A b \in asks' : b \in Question /\ b.live = FALSE
          /\ pinCenter' = center /\ pinned' = Nowhere /\ UNCHANGED <<map, center>>
      BY <1>6, <2>1, NoneWanted DEF Picker!Idle, PinInv
    <3> QED BY <1>6, <3>1 DEF Picker!Idle, PinInv, TextInv, Question, Picker!Up, Picker!NoMap
  <2>2. CASE ~(pin /\ center # pinCenter)
    BY <1>6, <2>2 DEF Picker!Idle, PinInv, TextInv, Question, Picker!Up
  <2> QED BY <2>1, <2>2
<1>7. CASE Picker!LookupCenter
  <2>1. UNCHANGED <<pin, typed, list, map, center, moving>>
    BY <1>7 DEF Picker!LookupCenter
  <2>2. PICK c \in (IF moving THEN Spots ELSE {center}) :
              IF map = Picker!Up /\ pin THEN Picker!Lookup(c) ELSE UNCHANGED <<asks, pinCenter, pinned>>
    BY <1>7 DEF Picker!LookupCenter
  <2>3. CASE map = Picker!Up /\ pin
    <3>1. c \in Spots \union {Nowhere} /\ (moving \/ c = center) /\ Picker!Lookup(c)
      BY <2>2, <2>3 DEF PinInv
    <3> QED BY <1>3, <2>1, <2>3, <3>1
  <2>4. CASE ~(map = Picker!Up /\ pin)
    BY <2>1, <2>2, <2>4 DEF PinInv, TextInv, Question, Picker!Up
  <2> QED BY <2>3, <2>4
<1>8. ASSUME NEW a \in asks, Picker!Found(a) \/ Picker!AddressComes(a) PROVE PinInv' /\ TextInv'
  <2>1. /\ asks' \subseteq asks /\ UNCHANGED <<pin, typed, map, center, moving, pinCenter>>
        /\ pinned' \in {pinned, Nowhere, pinCenter}
        /\ list' = list \/ list' = typed
    BY <1>8 DEF Picker!Found, Picker!AddressComes, Picker!Wanted, PinInv, TextInv
  <2> QED BY <2>1 DEF PinInv, TextInv, Question, Picker!Up
<1>9. ASSUME NEW p \in Spots,
             Picker!ChooseKnown(p) \/ Picker!ChooseOnMap(p) \/ Picker!DetailsCome(p) \/ Picker!HereComes(p)
      PROVE  PinInv' /\ TextInv'
  BY <1>9, PinOpens DEF Picker!ChooseKnown, Picker!ChooseOnMap, Picker!DetailsCome, Picker!HereComes
<1>10. ASSUME NEW p \in Spots, Picker!Move(p) PROVE PinInv' /\ TextInv'
  BY <1>10 DEF Picker!Move, PinInv, TextInv, Question, Picker!Up
<1> QED BY <1>1, <1>2, <1>4, <1>5, <1>6, <1>7, <1>8, <1>9, <1>10

\* The screens that close: the last ones of those there are.
LEMMA LayersDrop ==
  ASSUME NEW n \in Nat, layers \in Seq(Screens), Picker!DropLayers(n)
  PROVE  layers' \in Seq(Screens)
<1>1. PICK k : k = (IF Len(layers) > n THEN Len(layers) - n ELSE 0)
  OBVIOUS
<1>2. k \in Nat /\ k <= Len(layers)
  BY <1>1
<1>3. SubSeq(layers, 1, k) \in Seq(Screens)
  BY <1>2, SubSeqProperties
<1> QED BY <1>1, <1>3 DEF Picker!DropLayers

\* The picker's screens stay a sequence of screens.
LEMMA LayersStep == layers \in Seq(Screens) /\ Picker!Next => layers' \in Seq(Screens)
<1> SUFFICES ASSUME layers \in Seq(Screens), Picker!Next PROVE layers' \in Seq(Screens)
  OBVIOUS
<1> USE DEF Picker!screen
<1>1. CASE Picker!PickPlace \/ Picker!ChangeFrom
  BY <1>1 DEF Picker!PickPlace, Picker!ChangeFrom, Picker!Push, Screens
<1>2. CASE Picker!GoBack \/ Picker!TakeSaved \/ Picker!Confirm
  BY <1>2, LayersDrop DEF Picker!GoBack, Picker!TakeSaved, Picker!Confirm, Picker!Finish
<1>3. ASSUME NEW p \in Spots,
             Picker!ChooseKnown(p) \/ Picker!ChooseOnMap(p) \/ Picker!DetailsCome(p) \/ Picker!HereComes(p)
      PROVE  layers' \in Seq(Screens)
  BY <1>3 DEF Picker!ChooseKnown, Picker!ChooseOnMap, Picker!DetailsCome, Picker!HereComes, Picker!OpenPin,
    Picker!Push, Screens
<1>4. CASE UNCHANGED layers
  BY <1>4
<1> QED
  BY <1>1, <1>2, <1>3, <1>4 DEF Picker!Next, Picker!Search, Picker!UseHere, Picker!LateFails, Picker!MapLoads,
    Picker!MapFails, Picker!Idle, Picker!LookupCenter, Picker!Type, Picker!Found, Picker!AddressComes,
    Picker!Choose, Picker!Move

\* Two sequences with the same elements in the same places are one.
LEMMA SameSequence ==
  ASSUME NEW S, NEW s \in Seq(S), NEW t \in Seq(S), Len(s) = Len(t), \A i \in 1 .. Len(s) : s[i] = t[i]
  PROVE  s = t
BY SeqEqual

\* A screen above one, and above two.
LEMMA ScreenAbove ==
  ASSUME NEW a \in Screens, NEW b \in Screens, NEW c \in Screens
  PROVE  Append(<<a>>, b) = <<a, b>> /\ Append(<<a, b>>, c) = <<a, b, c>>
<1>1. /\ <<a>> \in Seq(Screens) /\ Len(<<a>>) = 1 /\ <<a>>[1] = a
      /\ <<a, b>> \in Seq(Screens) /\ Len(<<a, b>>) = 2 /\ <<a, b>>[1] = a /\ <<a, b>>[2] = b
      /\ <<a, b, c>> \in Seq(Screens) /\ Len(<<a, b, c>>) = 3
      /\ <<a, b, c>>[1] = a /\ <<a, b, c>>[2] = b /\ <<a, b, c>>[3] = c
  OBVIOUS
<1>2. Append(<<a>>, b) = <<a, b>>
  <2>1. /\ Append(<<a>>, b) \in Seq(Screens) /\ Len(Append(<<a>>, b)) = 2
        /\ Append(<<a>>, b)[1] = a /\ Append(<<a>>, b)[2] = b
    BY <1>1, AppendProperties
  <2>2. \A i \in 1 .. 2 : Append(<<a>>, b)[i] = <<a, b>>[i]
    BY <1>1, <2>1
  <2> QED BY <1>1, <2>1, <2>2, SameSequence
<1>3. Append(<<a, b>>, c) = <<a, b, c>>
  <2>1. /\ Append(<<a, b>>, c) \in Seq(Screens) /\ Len(Append(<<a, b>>, c)) = 3
        /\ Append(<<a, b>>, c)[1] = a /\ Append(<<a, b>>, c)[2] = b /\ Append(<<a, b>>, c)[3] = c
    BY <1>1, AppendProperties
  <2>2. \A i \in 1 .. 3 : Append(<<a, b>>, c)[i] = <<a, b, c>>[i]
    BY <1>1, <2>1
  <2> QED BY <1>1, <2>1, <2>2, SameSequence
<1> QED BY <1>2, <1>3

\* One, two and three screens, one after the other.
LEMMA ScreensJoined ==
  ASSUME NEW a \in Screens, NEW b \in Screens, NEW c \in Screens
  PROVE  /\ (<<>> \o <<>>) \o <<>> = <<>>
         /\ (<<a>> \o <<>>) \o <<>> = <<a>>
         /\ (<<a>> \o <<b>>) \o <<>> = <<a, b>>
         /\ (<<a>> \o <<>>) \o <<c>> = <<a, c>>
         /\ (<<a>> \o <<b>>) \o <<c>> = <<a, b, c>>
<1>1. <<>> \in Seq(Screens) /\ <<a>> \in Seq(Screens) /\ <<a, b>> \in Seq(Screens) /\ <<a, c>> \in Seq(Screens)
  OBVIOUS
<1>2. \A s \in Seq(Screens) : s \o <<>> = s
  BY ConcatEmptySeq
<1>3. \A s \in Seq(Screens), d \in Screens : s \o <<d>> = Append(s, d)
  BY AppendIsConcat
<1>4. Append(<<a>>, b) = <<a, b>> /\ Append(<<a>>, c) = <<a, c>> /\ Append(<<a, b>>, c) = <<a, b, c>>
  BY ScreenAbove
<1> QED BY <1>1, <1>2, <1>3, <1>4

\* The screens below the top, and below the two at the top.
LEMMA ScreensBelow ==
  ASSUME NEW a \in Screens, NEW b \in Screens, NEW c \in Screens
  PROVE  /\ SubSeq(<<a, b>>, 1, 1) = <<a>>
         /\ SubSeq(<<a, b, c>>, 1, 2) = <<a, b>> /\ SubSeq(<<a, b, c>>, 1, 1) = <<a>>
<1>1. /\ <<a>> \in Seq(Screens) /\ Len(<<a>>) = 1 /\ <<a>>[1] = a
      /\ <<a, b>> \in Seq(Screens) /\ Len(<<a, b>>) = 2 /\ <<a, b>>[1] = a /\ <<a, b>>[2] = b
      /\ <<a, b, c>> \in Seq(Screens) /\ Len(<<a, b, c>>) = 3
      /\ <<a, b, c>>[1] = a /\ <<a, b, c>>[2] = b /\ <<a, b, c>>[3] = c
  OBVIOUS
<1>2. ASSUME NEW s, s[1] = a
      PROVE  SubSeq(s, 1, 1) = <<a>>
  <2>1. SubSeq(s, 1, 1) \in Seq(Screens) /\ Len(SubSeq(s, 1, 1)) = 1 /\ SubSeq(s, 1, 1)[1] = a
    BY <1>2, SubSeqProperties
  <2>2. \A i \in 1 .. 1 : SubSeq(s, 1, 1)[i] = <<a>>[i]
    BY <1>1, <2>1
  <2> QED BY <1>1, <2>1, <2>2, SameSequence
<1>3. SubSeq(<<a, b, c>>, 1, 2) = <<a, b>>
  <2>1. /\ SubSeq(<<a, b, c>>, 1, 2) \in Seq(Screens) /\ Len(SubSeq(<<a, b, c>>, 1, 2)) = 2
        /\ SubSeq(<<a, b, c>>, 1, 2)[1] = a /\ SubSeq(<<a, b, c>>, 1, 2)[2] = b
    BY <1>1, SubSeqProperties
  <2>2. \A i \in 1 .. 2 : SubSeq(<<a, b, c>>, 1, 2)[i] = <<a, b>>[i]
    BY <1>1, <2>1
  <2> QED BY <1>1, <2>1, <2>2, SameSequence
<1> QED BY <1>1, <1>2, <1>3

\* What a customer who waits sees is what back will close.
LEMMA BackStep == BackInv /\ Picker!Next => BackInv'
<1> SUFFICES ASSUME BackInv, Picker!Next, patient PROVE BackInv'
  BY DEF BackInv, Picker!Next, Picker!PickPlace, Picker!ChangeFrom, Picker!GoBack, Picker!TakeSaved, Picker!Confirm,
    Picker!Finish, Picker!Search, Picker!UseHere, Picker!LateFails, Picker!MapLoads, Picker!MapFails, Picker!Idle,
    Picker!LookupCenter, Picker!Type, Picker!Found, Picker!AddressComes, Picker!Choose, Picker!Move,
    Picker!ChooseKnown, Picker!ChooseOnMap, Picker!DetailsCome, Picker!HereComes, Picker!OpenPin
<1>0. /\ layers = Layers
      /\ \/ details = {} /\ ~locating
         \/ shown /\ ~pin /\ \/ details = {} /\ locating
                             \/ (\E p \in details : details = {p}) /\ ~locating
  BY DEF BackInv
<1> USE DEF Picker!screen, Picker!late
<1>1. CASE Picker!PickPlace
  <2>1. layers = <<>> /\ layers' = Append(layers, "picker") /\ shown' /\ ~sub' /\ ~pin' /\ UNCHANGED <<details, locating>>
        /\ details = {} /\ ~locating
    BY <1>0, <1>1 DEF Picker!PickPlace, Picker!Configure, Picker!Push, Picker!Acts, Layers
  <2>2. layers' = <<"picker">>
    BY <2>1
  <2> QED BY <2>1, <2>2 DEF BackInv, Layers
<1>2. CASE Picker!ChangeFrom
  <2>1. /\ layers = <<"picker">> /\ layers' = Append(layers, "from") /\ shown' /\ sub' /\ ~pin'
        /\ UNCHANGED <<details, locating>> /\ details = {} /\ ~locating
    BY <1>0, <1>2 DEF Picker!ChangeFrom, Picker!OnList, Picker!Configure, Picker!Push, Picker!Acts, Layers
  <2>2. layers' = <<"picker", "from">>
    BY <2>1, ScreenAbove DEF Screens
  <2> QED BY <2>1, <2>2 DEF BackInv, Layers
<1>3. CASE Picker!GoBack
  <2>1. shown /\ details = {} /\ ~locating /\ UNCHANGED <<details, locating>>
    BY <1>0, <1>3 DEF Picker!GoBack, Picker!Acts, Layers
  <2>2. CASE ~sub /\ ~pin
    <3>1. layers = <<"picker">> /\ layers' = <<>>
      BY <1>0, <1>3, <2>1, <2>2 DEF Picker!GoBack, Picker!DropLayers, Layers
    <3> QED BY <1>3, <2>1, <3>1 DEF Picker!GoBack, BackInv, Layers
  <2>3. CASE ~sub /\ pin
    <3>1. layers = <<"picker", "map">> /\ layers' = <<"picker">>
      BY <1>0, <1>3, <2>1, <2>3, ScreensBelow DEF Picker!GoBack, Picker!DropLayers, Layers, Screens
    <3> QED BY <1>3, <2>1, <2>3, <3>1 DEF Picker!GoBack, BackInv, Layers
  <2>4. CASE sub /\ ~pin
    <3>1. layers = <<"picker", "from">> /\ layers' = <<"picker">>
      BY <1>0, <1>3, <2>1, <2>4, ScreensBelow DEF Picker!GoBack, Picker!DropLayers, Layers, Screens
    <3> QED BY <1>3, <2>1, <2>4, <3>1 DEF Picker!GoBack, Picker!Configure, BackInv, Layers
  <2>5. CASE sub /\ pin
    <3>1. layers = <<"picker", "from", "map">> /\ layers' = <<"picker", "from">>
      BY <1>0, <1>3, <2>1, <2>5, ScreensBelow DEF Picker!GoBack, Picker!DropLayers, Layers, Screens
    <3> QED BY <1>3, <2>1, <2>5, <3>1 DEF Picker!GoBack, BackInv, Layers
  <2> QED BY <2>2, <2>3, <2>4, <2>5
<1>4. ASSUME NEW n \in {1, 2}, Picker!Finish(n), shown, pin <=> n = 2, details = {}, ~locating
      PROVE  BackInv'
  <2>1. UNCHANGED <<details, locating>>
    BY <1>4 DEF Picker!Finish
  <2>2. CASE sub
    <3>1. layers' = <<"picker">>
      BY <1>0, <1>4, <2>2, ScreensBelow DEF Picker!Finish, Picker!DropLayers, Layers, Screens
    <3> QED BY <1>4, <2>1, <2>2, <3>1 DEF Picker!Finish, Picker!Configure, BackInv, Layers
  <2>3. CASE ~sub
    <3>1. layers' = <<>>
      BY <1>0, <1>4, <2>3 DEF Picker!Finish, Picker!DropLayers, Layers
    <3> QED BY <1>4, <2>1, <2>3, <3>1 DEF Picker!Finish, BackInv, Layers
  <2> QED BY <2>2, <2>3
<1>5. CASE Picker!TakeSaved \/ Picker!Confirm
  BY <1>4, <1>5 DEF Picker!TakeSaved, Picker!Confirm, Picker!OnList, Picker!OnMap, Picker!Acts
<1>6. ASSUME NEW p \in Spots,
             Picker!ChooseKnown(p) \/ Picker!ChooseOnMap(p) \/ Picker!DetailsCome(p) \/ Picker!HereComes(p)
      PROVE  BackInv'
  <2>1. /\ shown /\ ~pin /\ layers' = Append(layers, "map") /\ UNCHANGED <<shown, sub>> /\ pin'
        /\ details' = {} /\ ~locating'
    <3>1. PICK bare \in BOOLEAN : Picker!OpenPin(p, bare)
      BY <1>6 DEF Picker!ChooseKnown, Picker!ChooseOnMap, Picker!DetailsCome, Picker!HereComes
    <3>2. layers' = Append(layers, "map") /\ UNCHANGED <<shown, sub>> /\ pin'
      BY <3>1 DEF Picker!OpenPin, Picker!Push
    <3> DEFINE ended == shown /\ ~pin /\ details' = {} /\ ~locating'
    <3>3. ASSUME Picker!ChooseKnown(p) \/ Picker!ChooseOnMap(p) PROVE ended
      <4>1. shown /\ ~pin /\ details = {} /\ ~locating
        BY <1>0, <3>3 DEF Picker!ChooseKnown, Picker!ChooseOnMap, Picker!OnList, Picker!Acts
      <4>2. UNCHANGED <<details, locating>>
        BY <3>3 DEF Picker!ChooseKnown, Picker!ChooseOnMap, Picker!late
      <4> QED BY <4>1, <4>2
    <3>4. ASSUME Picker!DetailsCome(p) PROVE ended
      BY <1>0, <3>4 DEF Picker!DetailsCome
    <3>5. ASSUME Picker!HereComes(p) PROVE ended
      BY <1>0, <3>5 DEF Picker!HereComes
    <3>6. ended
      BY <1>6, <3>3, <3>4, <3>5
    <3> QED BY <3>2, <3>6
  <2>2. layers' = IF sub THEN <<"picker", "from", "map">> ELSE <<"picker", "map">>
    BY <1>0, <2>1, ScreenAbove DEF Layers, Screens
  <2> QED BY <2>1, <2>2 DEF BackInv, Layers
<1>7. CASE Picker!UseHere \/ (\E p \in Spots : Picker!Choose(p)) \/ Picker!LateFails
  BY <1>0, <1>7 DEF Picker!UseHere, Picker!Choose, Picker!LateFails, Picker!OnList, Picker!Acts, BackInv, Layers
<1>8. CASE UNCHANGED <<layers, shown, sub, pin, details, locating, patient>>
  BY <1>8 DEF BackInv, Layers
<1> QED
  BY <1>1, <1>2, <1>3, <1>5, <1>6, <1>7, <1>8 DEF Picker!Next, Picker!Search, Picker!MapLoads, Picker!MapFails,
    Picker!Idle, Picker!LookupCenter, Picker!Type, Picker!Found, Picker!AddressComes, Picker!Move

\* The picker begins closed.
LEMMA PickInit == Init => PinInv /\ TextInv /\ layers \in Seq(Screens) /\ BackInv
<1>1. Init => Picker!Init
  BY DEF Init
<1>2. Picker!Init => PinInv /\ TextInv
  BY NullsAssumption DEF Picker!Init, PinInv, TextInv, Picker!NoMap, Picker!Up
<1>3. Picker!Init => layers \in Seq(Screens) /\ BackInv
  BY DEF Picker!Init, BackInv, Layers
<1> QED BY <1>1, <1>2, <1>3

\* The invariants of the picker are inductive.
LEMMA PickKept ==
  PinInv /\ TextInv /\ layers \in Seq(Screens) /\ BackInv /\ [Next]_vars
    => PinInv' /\ TextInv' /\ layers' \in Seq(Screens) /\ BackInv'
<1> SUFFICES ASSUME PinInv, TextInv, layers \in Seq(Screens), BackInv, [Next]_vars
             PROVE  PinInv' /\ TextInv' /\ layers' \in Seq(Screens) /\ BackInv'
  OBVIOUS
<1>1. Picker!Next \/ UNCHANGED pick
  BY DEF Next, vars, phone, ServerStep, PhoneStep, Tracking
<1>2. CASE Picker!Next
  <2>1. PinInv' /\ TextInv'
    BY <1>2, ScreenStep, MapStep DEF Picker!Next
  <2> QED BY <1>2, <2>1, LayersStep, BackStep
<1>3. CASE UNCHANGED pick
  BY <1>3 DEF pick, PinInv, TextInv, BackInv, Layers, Question, Picker!Up
<1> QED BY <1>1, <1>2, <1>3

\* They say what is stated of the picker.
LEMMA PickImplied == PinInv /\ TextInv /\ BackInv => Picker!PickerAgrees
<1>1. PinInv => Picker!AddressOfThePin
  BY DEF PinInv, Picker!AddressOfThePin
<1>2. TextInv => Picker!ResultsOfTheText
  BY DEF TextInv, Picker!ResultsOfTheText
<1>3. BackInv => Picker!BackClosesWhatIsSeen
  <2> DEFINE all == ((IF shown THEN <<"picker">> ELSE <<>>) \o (IF shown /\ sub THEN <<"from">> ELSE <<>>))
                      \o (IF shown /\ pin THEN <<"map">> ELSE <<>>)
  <2>1. PICK a \in Screens, b \in Screens, c \in Screens : a = "picker" /\ b = "from" /\ c = "map"
    BY DEF Screens
  <2>2. ASSUME ~shown PROVE all = Layers
    <3>1. all = (<<>> \o <<>>) \o <<>> /\ Layers = <<>>
      BY <2>2 DEF Layers
    <3> HIDE DEF all
    <3> QED BY <3>1, <2>1, ScreensJoined
  <2>3. ASSUME shown /\ ~sub /\ ~pin PROVE all = Layers
    <3>1. all = (<<a>> \o <<>>) \o <<>> /\ Layers = <<a>>
      BY <2>1, <2>3 DEF Layers
    <3> HIDE DEF all
    <3> QED BY <3>1, ScreensJoined
  <2>4. ASSUME shown /\ sub /\ ~pin PROVE all = Layers
    <3>1. all = (<<a>> \o <<b>>) \o <<>> /\ Layers = <<a, b>>
      BY <2>1, <2>4 DEF Layers
    <3> HIDE DEF all
    <3> QED BY <3>1, ScreensJoined
  <2>5. ASSUME shown /\ ~sub /\ pin PROVE all = Layers
    <3>1. all = (<<a>> \o <<>>) \o <<c>> /\ Layers = <<a, c>>
      BY <2>1, <2>5 DEF Layers
    <3> HIDE DEF all
    <3> QED BY <3>1, ScreensJoined
  <2>6. ASSUME shown /\ sub /\ pin PROVE all = Layers
    <3>1. all = (<<a>> \o <<b>>) \o <<c>> /\ Layers = <<a, b, c>>
      BY <2>1, <2>6 DEF Layers
    <3> HIDE DEF all
    <3> QED BY <3>1, ScreensJoined
  <2> HIDE DEF all
  <2>7. all = Layers
    BY <2>2, <2>3, <2>4, <2>5, <2>6
  <2>8. BackInv /\ all = Layers => (patient => layers = all)
    BY DEF BackInv
  <2> USE DEF all
  <2> QED BY <2>7, <2>8 DEF Picker!BackClosesWhatIsSeen
<1> QED BY <1>1, <1>2, <1>3 DEF Picker!PickerAgrees

----------------------------------------------------------------------------
(* The map of the review.                                                  *)

\* A sequence with one of its elements replaced, or none.
LEMMA Replaced ==
  ASSUME NEW S, NEW s \in Seq(S), NEW k, NEW x, k \in 1 .. Len(s) => x \in S
  PROVE  /\ [s EXCEPT ![k] = x] \in Seq(S)
         /\ Len([s EXCEPT ![k] = x]) = Len(s)
         /\ \A i \in 1 .. Len(s) : [s EXCEPT ![k] = x][i] = IF i = k THEN x ELSE s[i]
<1>1. Len(s) \in Nat /\ DOMAIN s = 1 .. Len(s) /\ s \in [1 .. Len(s) -> S]
  BY LenProperties
<1>2. [s EXCEPT ![k] = x] \in [1 .. Len(s) -> S]
  BY <1>1
<1>3. [s EXCEPT ![k] = x] \in Seq(S) /\ Len([s EXCEPT ![k] = x]) = Len(s)
  BY <1>1, <1>2, IsASeq, LenProperties
<1> QED BY <1>1, <1>3

\* A function of the numbers up to one is a sequence.
LEMMA Mapped ==
  ASSUME NEW S, NEW n \in Nat, NEW f \in [1 .. n -> S]
  PROVE  f \in Seq(S) /\ Len(f) = n /\ DOMAIN f = 1 .. n
OBVIOUS

\* A map remembers what the page put on it, and draws that if it draws.
Maps == {m \in [kind : {"google", "leaflet", "switching", "broken"},
                recs : [Map!Things -> Nat], drawn : [Map!Things -> Nat]] :
           m.kind \in {"google", "leaflet"} => m.drawn = m.recs}
Views   == [maps : Seq(Maps), map : Nat, at : [Map!Things -> Nat], timer : BOOLEAN, near : SUBSET Nat]
Callers == {"stops", "route"} \X Nat

\* A mark is drawn and remembered, or neither, on a map that draws.
LEMMA MarkKeeps ==
  ASSUME NEW m \in Maps, NEW what \in Map!Things, NEW t \in Nat
  PROVE  Map!Mark(m, what, t) \in Maps
BY DEF Map!Mark, Maps

\* Taking a thing off a map leaves a page with maps.
LEMMA EraseKeeps ==
  ASSUME NEW pg \in Views, NEW what \in Map!Things
  PROVE  Map!Erase(pg, what) \in Views
<1>1. CASE pg.at[what] = 0
  BY <1>1 DEF Map!Erase
<1>2. CASE pg.at[what] # 0
  <2> DEFINE k == pg.at[what]
             new == [pg.maps EXCEPT ![k] = Map!Mark(pg.maps[k], what, 0)]
  <2>1. new \in Seq(Maps)
    <3>1. k \in 1 .. Len(pg.maps) => Map!Mark(pg.maps[k], what, 0) \in Maps
      BY MarkKeeps DEF Views
    <3> QED BY <3>1, Replaced DEF Views
  <2>2. Map!Erase(pg, what) = [maps |-> new, map |-> pg.map, at |-> [pg.at EXCEPT ![what] = 0],
                               timer |-> pg.timer, near |-> pg.near]
    BY <1>2 DEF Map!Erase, Views
  <2> HIDE DEF new
  <2> QED BY <2>1, <2>2 DEF Views
<1> QED BY <1>1, <1>2

\* What is drawn is drawn on the map the page holds.
LEMMA PutKeeps ==
  ASSUME NEW pg \in Views, NEW what \in Map!Things, NEW t \in Nat
  PROVE  Map!Put(pg, what, t) \in Views
<1>1. PICK clean \in Views : clean = Map!Erase(pg, what)
  BY EraseKeeps
<1> DEFINE new == [clean.maps EXCEPT ![pg.map] = Map!Mark(clean.maps[pg.map], what, t)]
<1>2. new \in Seq(Maps)
  <2>1. pg.map \in 1 .. Len(clean.maps) => Map!Mark(clean.maps[pg.map], what, t) \in Maps
    BY MarkKeeps DEF Views
  <2> QED BY <2>1, Replaced DEF Views
<1>3. Map!Put(pg, what, t) = [maps |-> new, map |-> clean.map, at |-> [clean.at EXCEPT ![what] = pg.map],
                              timer |-> clean.timer, near |-> clean.near]
  <2>1. Map!Put(pg, what, t) = [clean EXCEPT !.maps[pg.map] = Map!Mark(@, what, t), !.at[what] = pg.map]
    BY <1>1 DEF Map!Put
  <2> QED BY <2>1 DEF Views
<1> HIDE DEF new
<1> QED BY <1>2, <1>3 DEF Views

\* drawStops and drawRoute leave every map as it should be.
LEMMA DrawKeeps ==
  ASSUME NEW pg \in Views, NEW caller \in Callers, NEW now \in Nat
  PROVE  Map!Draw(pg, caller, now) \in Views
<1>1. CASE caller[1] = "stops"
  <2>1. PICK put \in Views : put = Map!Put(Map!Erase(pg, "route"), "stops", now)
    BY PutKeeps, EraseKeeps DEF Map!Things
  <2>2. Map!Draw(pg, caller, now) = [maps |-> put.maps, map |-> put.map, at |-> put.at,
                                     timer |-> TRUE, near |-> put.near \union {now}]
    BY <1>1, <2>1 DEF Map!Draw, Map!DrawStops, Views
  <2> QED BY <2>1, <2>2 DEF Views
<1>2. CASE caller[1] # "stops"
  BY <1>2, PutKeeps DEF Map!Draw, Map!Things, Callers
<1> QED BY <1>1, <1>2

\* Build, but for a second Leaflet map: a map without anything on it, and what is drawn.
LEMMA BuildForm ==
  ASSUME NEW pg \in Views, NEW kind, NEW caller, NEW now, ~(kind = "leaflet" /\ pg.maps # <<>>)
  PROVE  Map!Build(pg, kind, caller, now) =
           Map!Draw([maps |-> Append(pg.maps, IF kind = "google" THEN Map!GoogleMap ELSE Map!LeafletMap),
                     map |-> Len(pg.maps) + 1, at |-> pg.at, timer |-> pg.timer, near |-> pg.near], caller, now)
<1> DEFINE m == IF kind = "google" THEN Map!GoogleMap ELSE Map!LeafletMap
           new == [maps |-> Append(pg.maps, m), map |-> Len(pg.maps) + 1, at |-> pg.at,
                   timer |-> pg.timer, near |-> pg.near]
<1>1. Map!Build(pg, kind, caller, now) =
        Map!Draw([pg EXCEPT !.maps = Append(@, m), !.map = Len(pg.maps) + 1], caller, now)
  BY DEF Map!Build
<1>2. PICK one, ms : one = [pg EXCEPT !.maps = Append(@, m)] /\ ms = Append(pg.maps, m)
  OBVIOUS
<1>3. one = [maps |-> ms, map |-> pg.map, at |-> pg.at, timer |-> pg.timer, near |-> pg.near]
  BY <1>2 DEF Views
<1>4. [pg EXCEPT !.maps = Append(@, m), !.map = Len(pg.maps) + 1] = [one EXCEPT !.map = Len(pg.maps) + 1]
  BY <1>2
<1>5. PICK n \in Nat : n = Len(pg.maps) + 1
  BY DEF Views
<1>6. [one EXCEPT !.map = n] = [maps |-> ms, map |-> n, at |-> pg.at, timer |-> pg.timer, near |-> pg.near]
  BY <1>3
<1> QED BY <1>1, <1>2, <1>4, <1>5, <1>6

\* A new map begins as it should be.
LEMMA BuildKeeps ==
  ASSUME NEW pg \in Views, NEW kind, NEW caller \in Callers, NEW now \in Nat
  PROVE  Map!Build(pg, kind, caller, now) \in Views
<1>1. CASE kind = "leaflet" /\ pg.maps # <<>>
  BY <1>1 DEF Map!Build
<1>2. CASE ~(kind = "leaflet" /\ pg.maps # <<>>)
  <2> DEFINE m == IF kind = "google" THEN Map!GoogleMap ELSE Map!LeafletMap
             new == [maps |-> Append(pg.maps, m), map |-> Len(pg.maps) + 1, at |-> pg.at,
                     timer |-> pg.timer, near |-> pg.near]
  <2>1. m \in Maps
    BY DEF Map!GoogleMap, Map!LeafletMap, Map!Blank, Maps
  <2>2. new \in Views
    BY <2>1, AppendProperties DEF Views
  <2>3. Map!Build(pg, kind, caller, now) = Map!Draw(new, caller, now)
    BY <1>2, BuildForm
  <2> HIDE DEF new
  <2> QED BY <2>2, <2>3, DrawKeeps
<1> QED BY <1>1, <1>2

\* made is how the page comes to be, a caller at a time.
MadeOf(made, pg, kind, callers, now) ==
  /\ made[0] = pg
  /\ \A i \in 1 .. Len(callers) : made[i] = Map!Build(made[i - 1], kind, callers[i], now)
  /\ Map!BuildAll(pg, kind, callers, now) = made[Len(callers)]

\* BuildAll: the callers get their maps one after the other.
LEMMA OneByOne ==
  ASSUME NEW pg \in Views, NEW kind, NEW callers \in Seq(Callers), NEW now \in Nat
  PROVE  \E made : MadeOf(made, pg, kind, callers, now)
<1> DEFINE n == Len(callers)
           S == 1 .. n
           F(g) == [s \in SUBSET S |-> IF s = {} THEN pg
                                       ELSE Map!Build(g[s \ {Map!Max(s)}], kind, callers[Map!Max(s)], now)]
           D == [q \in S \X Views |-> Map!Build(q[2], kind, callers[q[1]], now)]
           h == CHOOSE g : g = F(g)
<1>1. n \in Nat /\ DOMAIN callers = S /\ \A i \in S : callers[i] \in Callers
  OBVIOUS
<1>2. D \in [S \X Views -> Views]
  BY <1>1, BuildKeeps
<1>3. \A s \in SUBSET S : s # {} => Last(s) \in s /\ Last(s) = Map!Max(s)
  BY <1>1, LastIn DEF Last, Map!Max
<1>4. PICK f \in [SUBSET S -> Views] : WalksDown(f, n, pg, D)
  <2> HIDE DEF D
  <2> QED BY <1>1, <1>2, FromTheLastBefore
<1>5. f = F(f)
  <2>1. \A s \in SUBSET S : s # {} => D[<<Last(s), f[s \ {Last(s)}]>>] = F(f)[s]
    BY <1>3
  <2> HIDE DEF D
  <2> QED BY <1>4, <2>1 DEF WalksDown
<1>6. h = F(h)
  BY <1>5
<1>7. Map!BuildAll(pg, kind, callers, now) = h[S]
  BY <1>1 DEF Map!BuildAll, Map!FoldLeft, Map!MapThenFoldSet
<1> HIDE DEF h
<1> DEFINE steps == [i \in 0 .. n |-> h[1 .. i]]
<1>8. steps[0] = pg
  BY <1>1, <1>6
<1>9. \A i \in S : steps[i] = Map!Build(steps[i - 1], kind, callers[i], now)
  <2> SUFFICES ASSUME NEW i \in S PROVE steps[i] = Map!Build(steps[i - 1], kind, callers[i], now)
    OBVIOUS
  <2>1. 1 .. i \in SUBSET S /\ 1 .. i # {} /\ Map!Max(1 .. i) = i /\ (1 .. i) \ {i} = 1 .. i - 1
    BY <1>1, LastNumber DEF Last, Map!Max
  <2>2. h[1 .. i] = Map!Build(h[1 .. i - 1], kind, callers[i], now)
    BY <1>6, <2>1
  <2> QED BY <1>1, <2>2
<1>10. Map!BuildAll(pg, kind, callers, now) = steps[n]
  BY <1>1, <1>7
<1> HIDE DEF steps
<1>11. MadeOf(steps, pg, kind, callers, now)
  BY <1>8, <1>9, <1>10 DEF MadeOf
<1> QED BY <1>11

\* However many wait for a map, the maps are as they should be.
LEMMA BuildAllKeeps ==
  ASSUME NEW pg \in Views, NEW kind, NEW callers \in Seq(Callers), NEW now \in Nat
  PROVE  Map!BuildAll(pg, kind, callers, now) \in Views
<1>1. PICK r : MadeOf(r, pg, kind, callers, now)
  BY OneByOne
<1> DEFINE T == {k \in Nat : k <= Len(callers) => r[k] \in Views}
<1>2. 0 \in T
  BY <1>1 DEF MadeOf
<1>3. ASSUME NEW k \in Nat, k \in T PROVE k + 1 \in T
  <2> SUFFICES ASSUME k + 1 <= Len(callers) PROVE r[k + 1] \in Views
    OBVIOUS
  <2>1. k + 1 \in 1 .. Len(callers) /\ r[k] \in Views /\ callers[k + 1] \in Callers
    BY <1>3
  <2>2. r[k + 1] = Map!Build(r[k], kind, callers[k + 1], now)
    <3>1. r[k + 1] = Map!Build(r[(k + 1) - 1], kind, callers[k + 1], now)
      BY <1>1, <2>1 DEF MadeOf
    <3> QED BY <3>1
  <2> QED BY <2>1, <2>2, BuildKeeps
<1>4. Len(callers) \in T
  <2> HIDE DEF T
  <2>1. Nat \subseteq T
    BY <1>2, <1>3, Induction
  <2> QED BY <2>1
<1> QED BY <1>1, <1>4 DEF MadeOf

\* A caller alone gets his map, no caller none.
LEMMA OneCaller ==
  ASSUME NEW pg \in Views, NEW kind, NEW c \in Callers, NEW now \in Nat
  PROVE  /\ Map!BuildAll(pg, kind, <<c>>, now) = Map!Build(pg, kind, c, now)
         /\ Map!BuildAll(pg, kind, <<>>, now) = pg
<1>1. <<c>> \in Seq(Callers) /\ Len(<<c>>) = 1 /\ <<c>>[1] = c /\ <<>> \in Seq(Callers) /\ Len(<<>>) = 0
  OBVIOUS
<1>2. PICK one : MadeOf(one, pg, kind, <<c>>, now)
  BY <1>1, OneByOne
<1>3. PICK none : MadeOf(none, pg, kind, <<>>, now)
  BY <1>1, OneByOne
<1>4. Map!BuildAll(pg, kind, <<c>>, now) = Map!Build(pg, kind, c, now)
  <2>1. one[1] = Map!Build(one[1 - 1], kind, <<c>>[1], now) /\ one[0] = pg
        /\ Map!BuildAll(pg, kind, <<c>>, now) = one[1]
    BY <1>1, <1>2 DEF MadeOf
  <2>2. one[1 - 1] = one[0]
    OBVIOUS
  <2> QED BY <1>1, <2>1, <2>2
<1> QED BY <1>1, <1>3, <1>4 DEF MadeOf

\* The maps and the callers are what they should be.
MapInv == view \in Views /\ waiting \in Seq(Callers) /\ looked \in Nat

\* Whoever asks is served at once or waits.
LEMMA EnsureKeeps ==
  ASSUME MapInv, NEW c \in Callers, NEW now \in Nat, looked' = now, Map!EnsureMap(c)
  PROVE  MapInv'
<1>1. CASE view.map # 0
  BY <1>1, DrawKeeps DEF Map!EnsureMap, MapInv
<1>2. CASE view.map = 0 /\ library \in {"google", "leaflet"}
  <2>1. view' = Map!BuildAll(view, library, <<c>>, now) /\ UNCHANGED waiting
    BY <1>2 DEF Map!EnsureMap
  <2> QED BY <2>1, OneCaller, BuildKeeps DEF MapInv
<1>3. CASE view.map = 0 /\ ~(library \in {"google", "leaflet"})
  BY <1>3, AppendProperties DEF Map!EnsureMap, MapInv
<1> QED BY <1>1, <1>2, <1>3

\* A library arrives for whoever waits.
LEMMA ArrivesKeeps ==
  ASSUME MapInv, NEW kind, NEW ms \in Seq(Maps), Map!Arrives(kind, ms)
  PROVE  MapInv'
<1>1. [view EXCEPT !.maps = ms] \in Views
  BY DEF Views, MapInv
<1>2. view' = Map!BuildAll([view EXCEPT !.maps = ms], kind, waiting, looked) /\ waiting' = <<>> /\ UNCHANGED looked
  BY DEF Map!Arrives
<1>3. view' \in Views
  BY <1>1, <1>2, BuildAllKeeps DEF MapInv
<1> QED BY <1>2, <1>3 DEF MapInv

\* A map of another kind.
LEMMA KindKeeps ==
  ASSUME NEW m \in Maps
  PROVE  /\ Map!ToLeaflet(m) \in Maps /\ Map!ToLeaflet(m).recs = m.recs
         /\ Map!Replay(m) \in Maps /\ Map!Replay(m).recs = m.recs
         /\ [m EXCEPT !.kind = "broken"] \in Maps /\ [m EXCEPT !.kind = "broken"].recs = m.recs
BY DEF Map!ToLeaflet, Map!Replay, Map!Blank, Maps

\* What the maps draw is what was put on them, after every action.
LEMMA OverStep == MapInv /\ Map!Next => MapInv'
<1> SUFFICES ASSUME MapInv, Map!Next PROVE MapInv'
  OBVIOUS
<1>0. view \in Views /\ waiting \in Seq(Callers) /\ looked \in Nat
      /\ view.maps \in Seq(Maps) /\ Len(view.maps) \in Nat /\ DOMAIN view.maps = 1 .. Len(view.maps)
      /\ \A i \in 1 .. Len(view.maps) : view.maps[i] \in Maps
  BY DEF MapInv, Views
<1>1. CASE Map!GoogleArrives
  BY <1>0, <1>1, ArrivesKeeps DEF Map!GoogleArrives
<1>2. CASE Map!GoogleFails
  BY <1>2 DEF Map!GoogleFails, MapInv
<1>3. CASE Map!GoogleRefuses
  <2>1. PICK ms : ms = [i \in DOMAIN view.maps |-> Map!ToLeaflet(view.maps[i])]
    OBVIOUS
  <2>2. ms \in Seq(Maps)
    BY <1>0, <2>1, KindKeeps, Mapped
  <2>3. view' = [view EXCEPT !.maps = ms] /\ UNCHANGED <<waiting, looked>>
    BY <1>3, <2>1 DEF Map!GoogleRefuses
  <2> QED BY <1>0, <2>2, <2>3 DEF MapInv, Views
<1>4. CASE Map!LeafletArrives
  <2>1. PICK ms : ms = [i \in DOMAIN view.maps |-> Map!Replay(view.maps[i])]
    OBVIOUS
  <2>2. ms \in Seq(Maps)
    BY <1>0, <2>1, KindKeeps, Mapped
  <2> QED BY <1>4, <2>1, <2>2, ArrivesKeeps DEF Map!LeafletArrives
<1>5. CASE Map!LeafletFails
  <2>1. PICK ms : ms = [i \in DOMAIN view.maps |->
                          IF view.maps[i].kind = "switching" THEN [view.maps[i] EXCEPT !.kind = "broken"]
                          ELSE view.maps[i]]
    OBVIOUS
  <2>2. ms \in Seq(Maps)
    BY <1>0, <2>1, KindKeeps, Mapped
  <2>3. view' = [view EXCEPT !.maps = ms] /\ waiting' = <<>> /\ UNCHANGED looked
    BY <1>5, <2>1 DEF Map!LeafletFails
  <2>4. view' \in Views
    BY <1>0, <2>2, <2>3 DEF Views
  <2>5. <<>> \in Seq(Callers)
    OBVIOUS
  <2> QED BY <1>0, <2>3, <2>4, <2>5 DEF MapInv
<1>6. CASE Map!OpenReview
  <2>1. looked' = looked + 1 /\ Map!EnsureMap(<<"stops", looked'>>)
    BY <1>6 DEF Map!OpenReview
  <2>2. looked + 1 \in Nat /\ <<"stops", looked'>> \in Callers
    BY <1>0, <2>1 DEF Callers
  <2> QED BY <2>1, <2>2, EnsureKeeps
<1>7. CASE Map!CloseReview
  BY <1>0, <1>7 DEF Map!CloseReview, MapInv, Views
<1>8. CASE Map!OptionsCome
  <2>1. looked' = looked /\ Map!EnsureMap(<<"route", looked>>) /\ <<"route", looked>> \in Callers
    BY <1>0, <1>8 DEF Map!OptionsCome, Callers
  <2> QED BY <1>0, <2>1, EnsureKeeps
<1>9. CASE Map!AskNearby
  BY <1>0, <1>9 DEF Map!AskNearby, MapInv, Views
<1>10. ASSUME NEW t \in view.near, Map!NearbyComes(t) PROVE MapInv'
  <2>1. t \in Nat
    BY <1>0 DEF Views
  <2>2. PICK put \in Views : put = Map!Put(view, "nearby", t)
    BY <1>0, <2>1, PutKeeps DEF Map!Things
  <2>3. view' = [put EXCEPT !.near = @ \ {t}] /\ UNCHANGED <<waiting, looked>>
    BY <1>10, <2>2 DEF Map!NearbyComes
  <2> QED BY <1>0, <2>2, <2>3 DEF MapInv, Views
<1> QED BY <1>1, <1>2, <1>3, <1>4, <1>5, <1>6, <1>7, <1>8, <1>9, <1>10 DEF Map!Next

\* The only route on the maps is that of trip t, where the page knows it to be; there are
\* maps when the page holds one.
RouteOn(pg, t) ==
  /\ pg.map = 0 <=> Len(pg.maps) = 0
  /\ pg.map <= Len(pg.maps)
  /\ \A i \in 1 .. Len(pg.maps) :
       pg.maps[i].recs["route"] # 0 => pg.maps[i].recs["route"] = t /\ pg.at["route"] = i

\* What is erased, in full.
LEMMA EraseForm ==
  ASSUME NEW pg \in Views, NEW what \in Map!Things, pg.at[what] # 0
  PROVE  Map!Erase(pg, what) =
           [maps |-> [pg.maps EXCEPT ![pg.at[what]] = Map!Mark(pg.maps[pg.at[what]], what, 0)], map |-> pg.map,
            at |-> [pg.at EXCEPT ![what] = 0], timer |-> pg.timer, near |-> pg.near]
BY DEF Map!Erase, Views

\* What is marked on one map leaves the others.
LEMMA Marked ==
  ASSUME NEW ms \in Seq(Maps), NEW k \in Nat, NEW what \in Map!Things, NEW t \in Nat
  PROVE  LET new == [ms EXCEPT ![k] = Map!Mark(ms[k], what, t)]
         IN  /\ Len(new) = Len(ms)
             /\ \A i \in 1 .. Len(ms) : \A x \in Map!Things :
                  new[i].recs[x] = IF i = k /\ x = what THEN t ELSE ms[i].recs[x]
<1>1. \A i \in 1 .. Len(ms) : ms[i] \in Maps
  OBVIOUS
<1>2. k \in 1 .. Len(ms) => Map!Mark(ms[k], what, t) \in Maps
  BY <1>1, MarkKeeps
<1>3. ASSUME NEW m \in Maps, NEW x \in Map!Things
      PROVE  Map!Mark(m, what, t).recs[x] = IF x = what THEN t ELSE m.recs[x]
  BY DEF Map!Mark, Maps
<1>4. PICK new : new = [ms EXCEPT ![k] = Map!Mark(ms[k], what, t)]
  OBVIOUS
<1>5. Len(new) = Len(ms) /\ \A i \in 1 .. Len(ms) : new[i] = IF i = k THEN Map!Mark(ms[k], what, t) ELSE ms[i]
  BY <1>2, <1>4, Replaced
<1>6. ASSUME NEW i \in 1 .. Len(ms), NEW x \in Map!Things
      PROVE  new[i].recs[x] = IF i = k /\ x = what THEN t ELSE ms[i].recs[x]
  BY <1>1, <1>3, <1>5
<1> QED BY <1>4, <1>5, <1>6

\* Without its route a page shows the route of no trip, or of any.
LEMMA RouteErased ==
  ASSUME NEW pg \in Views, NEW t \in Nat, NEW u, RouteOn(pg, t)
  PROVE  RouteOn(Map!Erase(pg, "route"), u)
<1> DEFINE k == pg.at["route"]
<1>0. pg.maps \in Seq(Maps) /\ k \in Nat /\ Len(pg.maps) \in Nat /\ "route" \in Map!Things
  BY DEF Views, Map!Things
<1>1. CASE k = 0
  BY <1>0, <1>1 DEF RouteOn, Map!Erase
<1>2. CASE k # 0
  <2>1. PICK new : new = [pg.maps EXCEPT ![k] = Map!Mark(pg.maps[k], "route", 0)]
    OBVIOUS
  <2>2. Len(new) = Len(pg.maps) /\ \A i \in 1 .. Len(pg.maps) :
           new[i].recs["route"] = IF i = k THEN 0 ELSE pg.maps[i].recs["route"]
    BY <1>0, <2>1, Marked
  <2>3. Map!Erase(pg, "route").maps = new /\ Map!Erase(pg, "route").map = pg.map
    BY <1>0, <1>2, <2>1, EraseForm
  <2>4. \A i \in 1 .. Len(pg.maps) : new[i].recs["route"] = 0
    BY <1>0, <2>2 DEF RouteOn
  <2> QED BY <2>2, <2>3, <2>4 DEF RouteOn
<1> QED BY <1>1, <1>2

\* Erasing something else leaves it.
LEMMA OtherErased ==
  ASSUME NEW pg \in Views, NEW t \in Nat, NEW what \in {"stops", "nearby"}, RouteOn(pg, t)
  PROVE  RouteOn(Map!Erase(pg, what), t)
<1> DEFINE k == pg.at[what]
<1>0. /\ pg.maps \in Seq(Maps) /\ k \in Nat /\ Len(pg.maps) \in Nat /\ "route" \in Map!Things /\ what \in Map!Things
      /\ pg.at \in [Map!Things -> Nat] /\ what # "route"
  BY DEF Views, Map!Things
<1>1. CASE k = 0
  BY <1>1 DEF Map!Erase
<1>2. CASE k # 0
  <2>1. PICK new : new = [pg.maps EXCEPT ![k] = Map!Mark(pg.maps[k], what, 0)]
    OBVIOUS
  <2>2. Len(new) = Len(pg.maps) /\ \A i \in 1 .. Len(pg.maps) :
           new[i].recs["route"] = pg.maps[i].recs["route"]
    BY <1>0, <2>1, Marked
  <2>3. /\ Map!Erase(pg, what).maps = new /\ Map!Erase(pg, what).map = pg.map
        /\ Map!Erase(pg, what).at["route"] = pg.at["route"]
    BY <1>0, <1>2, <2>1, EraseForm
  <2> QED BY <2>2, <2>3 DEF RouteOn
<1> QED BY <1>1, <1>2

\* What is put on the map, in full.
LEMMA PutForm ==
  ASSUME NEW pg \in Views, NEW what \in Map!Things, NEW t \in Nat,
         NEW clean \in Views, clean = Map!Erase(pg, what)
  PROVE  Map!Put(pg, what, t) =
           [maps |-> [clean.maps EXCEPT ![pg.map] = Map!Mark(clean.maps[pg.map], what, t)], map |-> clean.map,
            at |-> [clean.at EXCEPT ![what] = pg.map], timer |-> clean.timer, near |-> clean.near]
<1>1. Map!Put(pg, what, t) = [clean EXCEPT !.maps[pg.map] = Map!Mark(@, what, t), !.at[what] = pg.map]
  BY DEF Map!Put
<1> QED BY <1>1 DEF Views

\* The page holds the map it held.
LEMMA EraseMap ==
  ASSUME NEW pg \in Views, NEW what \in Map!Things
  PROVE  Map!Erase(pg, what).map = pg.map
<1>1. CASE pg.at[what] = 0
  BY <1>1 DEF Map!Erase
<1>2. CASE pg.at[what] # 0
  BY <1>2, EraseForm
<1> QED BY <1>1, <1>2

\* The route that is drawn takes the place of the one there was.
LEMMA RoutePut ==
  ASSUME NEW pg \in Views, NEW t \in Nat, NEW u \in Nat, RouteOn(pg, t)
  PROVE  RouteOn(Map!Put(pg, "route", u), u)
<1>0. "route" \in Map!Things
  BY DEF Map!Things
<1>1. PICK clean \in Views : clean = Map!Erase(pg, "route") /\ clean.map = pg.map
  BY <1>0, EraseKeeps, EraseMap
<1>2. clean.maps \in Seq(Maps) /\ Len(clean.maps) \in Nat /\ pg.map \in Nat /\ clean.at \in [Map!Things -> Nat]
  BY DEF Views
<1>3. RouteOn(clean, u + 1) /\ RouteOn(clean, u)
  BY <1>1, RouteErased
<1>4. \A i \in 1 .. Len(clean.maps) : clean.maps[i].recs["route"] = 0
  BY <1>3 DEF RouteOn
<1>5. PICK new : new = [clean.maps EXCEPT ![pg.map] = Map!Mark(clean.maps[pg.map], "route", u)]
  OBVIOUS
<1>6. Len(new) = Len(clean.maps) /\ \A i \in 1 .. Len(clean.maps) :
         new[i].recs["route"] = IF i = pg.map THEN u ELSE 0
  BY <1>0, <1>2, <1>4, <1>5, Marked
<1>7. /\ Map!Put(pg, "route", u).maps = new /\ Map!Put(pg, "route", u).map = clean.map
      /\ Map!Put(pg, "route", u).at["route"] = pg.map
  <2>1. Map!Put(pg, "route", u) =
          [maps |-> [clean.maps EXCEPT ![pg.map] = Map!Mark(clean.maps[pg.map], "route", u)], map |-> clean.map,
           at |-> [clean.at EXCEPT !["route"] = pg.map], timer |-> clean.timer, near |-> clean.near]
    BY <1>0, <1>1, PutForm
  <2> QED BY <1>0, <1>2, <1>5, <2>1
<1> QED BY <1>3, <1>6, <1>7 DEF RouteOn

\* Drawing something else leaves the route.
LEMMA OtherPut ==
  ASSUME NEW pg \in Views, NEW t \in Nat, NEW u \in Nat, NEW what \in {"stops", "nearby"}, RouteOn(pg, t)
  PROVE  RouteOn(Map!Put(pg, what, u), t)
<1>0. "route" \in Map!Things /\ what \in Map!Things /\ what # "route"
  BY DEF Map!Things
<1>1. PICK clean \in Views : clean = Map!Erase(pg, what) /\ clean.map = pg.map
  BY <1>0, EraseKeeps, EraseMap
<1>2. clean.maps \in Seq(Maps) /\ Len(clean.maps) \in Nat /\ pg.map \in Nat /\ clean.at \in [Map!Things -> Nat]
  BY DEF Views
<1>3. RouteOn(clean, t)
  BY <1>1, OtherErased
<1>5. PICK new : new = [clean.maps EXCEPT ![pg.map] = Map!Mark(clean.maps[pg.map], what, u)]
  OBVIOUS
<1>6. Len(new) = Len(clean.maps) /\ \A i \in 1 .. Len(clean.maps) :
         new[i].recs["route"] = clean.maps[i].recs["route"]
  BY <1>0, <1>2, <1>5, Marked
<1>7. /\ Map!Put(pg, what, u).maps = new /\ Map!Put(pg, what, u).map = clean.map
      /\ Map!Put(pg, what, u).at["route"] = clean.at["route"]
  <2>1. Map!Put(pg, what, u) =
          [maps |-> [clean.maps EXCEPT ![pg.map] = Map!Mark(clean.maps[pg.map], what, u)], map |-> clean.map,
           at |-> [clean.at EXCEPT ![what] = pg.map], timer |-> clean.timer, near |-> clean.near]
    BY <1>0, <1>1, PutForm
  <2> QED BY <1>0, <1>2, <1>5, <2>1
<1> QED BY <1>3, <1>6, <1>7 DEF RouteOn

\* drawStops and drawRoute: the route on the page is of the trip there is.
LEMMA RouteDrawn ==
  ASSUME NEW pg \in Views, NEW t \in Nat, NEW c \in Callers, NEW now \in Nat, RouteOn(pg, t),
         c[1] = "route" => c[2] = now
  PROVE  RouteOn(Map!Draw(pg, c, now), now)
<1>1. CASE c[1] = "stops"
  <2>1. PICK clean \in Views : clean = Map!Erase(pg, "route") /\ RouteOn(clean, now)
    BY EraseKeeps, RouteErased DEF Map!Things
  <2>2. PICK put \in Views : put = Map!Put(clean, "stops", now) /\ RouteOn(put, now)
    <3>1. Map!Put(clean, "stops", now) \in Views
      BY PutKeeps DEF Map!Things
    <3>2. RouteOn(Map!Put(clean, "stops", now), now)
      BY <2>1, OtherPut
    <3> QED BY <3>1, <3>2
  <2>3. Map!Draw(pg, c, now) = [put EXCEPT !.timer = TRUE, !.near = @ \union {now}]
    BY <1>1, <2>1, <2>2 DEF Map!Draw, Map!DrawStops
  <2>4. /\ Map!Draw(pg, c, now).maps = put.maps /\ Map!Draw(pg, c, now).map = put.map
        /\ Map!Draw(pg, c, now).at = put.at
    BY <2>3 DEF Views
  <2> QED BY <2>2, <2>4 DEF RouteOn
<1>2. CASE c[1] = "route"
  BY <1>2, RoutePut DEF Map!Draw
<1> QED BY <1>1, <1>2 DEF Callers

\* The first map shows the route of the trip there is.
LEMMA RouteBuilt ==
  ASSUME NEW pg \in Views, NEW c \in Callers, NEW now \in Nat, RouteOn(pg, now), NEW kind,
         c[1] = "route" => c[2] = now, Len(pg.maps) = 0
  PROVE  RouteOn(Map!Build(pg, kind, c, now), now)
<1> DEFINE m == IF kind = "google" THEN Map!GoogleMap ELSE Map!LeafletMap
           new == [maps |-> Append(pg.maps, m), map |-> Len(pg.maps) + 1, at |-> pg.at,
                   timer |-> pg.timer, near |-> pg.near]
<1>1. m \in Maps /\ m.recs["route"] = 0
  BY DEF Map!GoogleMap, Map!LeafletMap, Map!Blank, Maps, Map!Things
<1>2. ~(kind = "leaflet" /\ pg.maps # <<>>) /\ pg.maps \in Seq(Maps)
  BY DEF Views
<1>3. Map!Build(pg, kind, c, now) = Map!Draw(new, c, now)
  BY <1>2, BuildForm
<1>4. PICK ms \in Seq(Maps) : ms = Append(pg.maps, m) /\ Len(ms) = 1 /\ ms[1] = m
  <2> HIDE DEF m
  <2>1. /\ Append(pg.maps, m) \in Seq(Maps) /\ Len(Append(pg.maps, m)) = Len(pg.maps) + 1
        /\ Append(pg.maps, m)[Len(pg.maps) + 1] = m
    BY <1>1, <1>2, AppendProperties
  <2>2. Len(pg.maps) + 1 = 1
    OBVIOUS
  <2>3. PICK ms : ms = Append(pg.maps, m)
    OBVIOUS
  <2>4. ms \in Seq(Maps) /\ Len(ms) = 1 /\ ms[1] = m
    BY <2>1, <2>2, <2>3
  <2> QED BY <2>3, <2>4
<1>5. new \in Views /\ new.map = 1 /\ new.maps = ms
  <2> HIDE DEF m
  <2> QED BY <1>2, <1>4 DEF Views
<1>6. RouteOn(new, now)
  <2> HIDE DEF new, m
  <2> QED BY <1>1, <1>4, <1>5 DEF RouteOn
<1> HIDE DEF new
<1> QED BY <1>3, <1>5, <1>6, RouteDrawn

Libraries == {"google?", "leaflet?", "google", "leaflet", "none"}

\* While nobody asks for the map when another waits, the route on the page is that of the
\* trip under review, and whoever waits will draw no other.
RouteInv ==
  /\ library \in Libraries
  /\ oneByOne =>
       /\ RouteOn(view, looked)
       /\ \/ waiting = <<>>
          \/ /\ library \in {"google?", "leaflet?"} /\ view.map = 0
             /\ \E c \in Callers : waiting = <<c>> /\ (c[1] = "route" => c[2] = looked)

\* Who asks for the map, served at once or waiting.
LEMMA EnsureRoute ==
  ASSUME MapInv, RouteInv, NEW c \in Callers, NEW now \in Nat, looked' = now, Map!EnsureMap(c),
         UNCHANGED oneByOne, c[1] = "route" => c[2] = now
  PROVE  RouteInv'
<1>0. view \in Views /\ Len(view.maps) \in Nat /\ looked \in Nat
  BY DEF MapInv, Views
<1>1. library' \in Libraries
  BY DEF Map!EnsureMap, RouteInv, Libraries
<1> SUFFICES ASSUME oneByOne PROVE RouteInv'
  BY <1>1 DEF RouteInv
<1>2. CASE view.map # 0
  <2>1. view' = Map!Draw(view, c, now) /\ UNCHANGED waiting /\ waiting = <<>>
    BY <1>2 DEF Map!EnsureMap, RouteInv
  <2>2. RouteOn(Map!Draw(view, c, now), now)
    BY <1>0, RouteDrawn DEF RouteInv
  <2> QED BY <1>1, <2>1, <2>2 DEF RouteInv, RouteOn
<1>3. CASE view.map = 0 /\ library \in {"google", "leaflet"}
  <2>1. view' = Map!BuildAll(view, library, <<c>>, now) /\ UNCHANGED waiting /\ waiting = <<>>
    BY <1>3 DEF Map!EnsureMap, RouteInv
  <2>2. RouteOn(view, now) /\ Len(view.maps) = 0
    BY <1>0, <1>3 DEF RouteInv, RouteOn
  <2>3. PICK built : built = Map!Build(view, library, c, now) /\ RouteOn(built, now)
    BY <1>0, <2>2, RouteBuilt
  <2>4. view' = built
    BY <1>0, <2>1, <2>3, OneCaller
  <2> QED BY <1>1, <2>1, <2>3, <2>4 DEF RouteInv, RouteOn
<1>4. CASE view.map = 0 /\ ~(library \in {"google", "leaflet"})
  <2>1. /\ waiting' = Append(waiting, c) /\ UNCHANGED view /\ waiting = <<>>
        /\ library' \in {"google?", "leaflet?"}
    BY <1>4 DEF Map!EnsureMap, RouteInv, Libraries
  <2>2. waiting' = <<c>>
    BY <2>1
  <2>3. Len(view.maps) = 0
    BY <1>0, <1>4 DEF RouteInv, RouteOn
  <2>4. RouteOn(view, now)
    BY <1>4, <2>3 DEF RouteOn
  <2> QED BY <1>1, <1>4, <2>1, <2>2, <2>4 DEF RouteInv, RouteOn
<1> QED BY <1>2, <1>3, <1>4

\* The maps change, not what the page put on them.
LEMMA RouteMoved ==
  ASSUME MapInv, NEW t, RouteOn(view, t), NEW ms \in Seq(Maps), Len(ms) = Len(view.maps),
         \A i \in 1 .. Len(ms) : ms[i].recs = view.maps[i].recs
  PROVE  [view EXCEPT !.maps = ms] \in Views /\ RouteOn([view EXCEPT !.maps = ms], t)
<1>1. view \in Views
  BY DEF MapInv
<1>2. PICK pg : pg = [view EXCEPT !.maps = ms]
  OBVIOUS
<1>3. pg.maps = ms /\ pg.map = view.map /\ pg.at = view.at /\ pg \in Views
  BY <1>1, <1>2 DEF Views
<1> QED BY <1>2, <1>3 DEF RouteOn

\* A library arrives, and the one who waited draws.
LEMMA ArrivesRoute ==
  ASSUME MapInv, RouteInv, NEW kind \in {"google", "leaflet"}, NEW ms \in Seq(Maps), Len(ms) = Len(view.maps),
         \A i \in 1 .. Len(ms) : ms[i].recs = view.maps[i].recs, Map!Arrives(kind, ms)
  PROVE  RouteInv'
<1>0. view \in Views /\ Len(view.maps) \in Nat /\ looked \in Nat
  BY DEF MapInv, Views
<1>1. library' \in Libraries /\ waiting' = <<>> /\ UNCHANGED <<looked, oneByOne>>
  BY DEF Map!Arrives, Libraries
<1> SUFFICES ASSUME oneByOne PROVE RouteOn(view', looked)
  BY <1>1 DEF RouteInv, RouteOn
<1>2. PICK pg \in Views : pg = [view EXCEPT !.maps = ms] /\ RouteOn(pg, looked)
  BY RouteMoved DEF RouteInv
<1>3. view' = Map!BuildAll(pg, kind, waiting, looked)
  BY <1>2 DEF Map!Arrives
<1>4. CASE waiting = <<>>
  <2>1. view' = pg
    <3>1. <<"stops", 0>> \in Callers
      BY DEF Callers
    <3> QED BY <1>0, <1>3, <1>4, <3>1, OneCaller
  <2> QED BY <1>2, <2>1
<1>5. CASE waiting # <<>>
  <2>1. PICK c \in Callers : waiting = <<c>> /\ (c[1] = "route" => c[2] = looked)
    BY <1>5 DEF RouteInv
  <2>2. Len(pg.maps) = 0
    <3>1. view.map = 0
      BY <1>5 DEF RouteInv
    <3>2. pg.map = view.map
      BY <1>0, <1>2 DEF Views
    <3> QED BY <1>2, <3>1, <3>2 DEF RouteOn
  <2>3. RouteOn(Map!Build(pg, kind, c, looked), looked)
    BY <1>0, <1>2, <2>1, <2>2, RouteBuilt
  <2>4. view' = Map!Build(pg, kind, c, looked)
    BY <1>0, <1>3, <2>1, OneCaller
  <2> QED BY <2>3, <2>4
<1> QED BY <1>4, <1>5

\* No action leaves the route of another trip on the maps.
LEMMA RouteStep == MapInv /\ RouteInv /\ Map!Next => RouteInv'
<1> SUFFICES ASSUME MapInv, RouteInv, Map!Next PROVE RouteInv'
  OBVIOUS
<1>0. view \in Views /\ waiting \in Seq(Callers) /\ looked \in Nat
      /\ view.maps \in Seq(Maps) /\ Len(view.maps) \in Nat /\ DOMAIN view.maps = 1 .. Len(view.maps)
      /\ \A i \in 1 .. Len(view.maps) : view.maps[i] \in Maps
  BY DEF MapInv, Views
<1>1. CASE Map!GoogleArrives
  BY <1>0, <1>1, ArrivesRoute DEF Map!GoogleArrives
<1>2. CASE Map!GoogleFails
  BY <1>2 DEF Map!GoogleFails, RouteInv, RouteOn, Libraries
<1>3. CASE Map!GoogleRefuses
  <2>1. PICK ms : ms = [i \in DOMAIN view.maps |-> Map!ToLeaflet(view.maps[i])]
    OBVIOUS
  <2>2. ms \in Seq(Maps) /\ Len(ms) = Len(view.maps) /\ \A i \in 1 .. Len(ms) : ms[i].recs = view.maps[i].recs
    <3>1. \A i \in 1 .. Len(view.maps) : ms[i] \in Maps /\ ms[i].recs = view.maps[i].recs
      BY <1>0, <2>1, KindKeeps
    <3>2. ms \in [1 .. Len(view.maps) -> Maps]
      BY <1>0, <2>1, <3>1
    <3> QED BY <1>0, <3>1, <3>2, Mapped
  <2>3. view' = [view EXCEPT !.maps = ms] /\ UNCHANGED <<waiting, looked, oneByOne>> /\ library' = "leaflet?"
    BY <1>3, <2>1 DEF Map!GoogleRefuses
  <2>4. oneByOne => RouteOn(view', looked)
    BY <2>2, <2>3, RouteMoved DEF RouteInv
  <2>5. view'.map = view.map
    BY <1>0, <2>3 DEF Views
  <2> QED BY <2>3, <2>4, <2>5 DEF RouteInv, RouteOn, Libraries
<1>4. CASE Map!LeafletArrives
  <2>1. PICK ms : ms = [i \in DOMAIN view.maps |-> Map!Replay(view.maps[i])]
    OBVIOUS
  <2>2. ms \in Seq(Maps) /\ Len(ms) = Len(view.maps) /\ \A i \in 1 .. Len(ms) : ms[i].recs = view.maps[i].recs
    <3>1. \A i \in 1 .. Len(view.maps) : ms[i] \in Maps /\ ms[i].recs = view.maps[i].recs
      BY <1>0, <2>1, KindKeeps
    <3>2. ms \in [1 .. Len(view.maps) -> Maps]
      BY <1>0, <2>1, <3>1
    <3> QED BY <1>0, <3>1, <3>2, Mapped
  <2> QED BY <1>4, <2>1, <2>2, ArrivesRoute DEF Map!LeafletArrives
<1>5. CASE Map!LeafletFails
  <2>1. PICK ms : ms = [i \in DOMAIN view.maps |->
                          IF view.maps[i].kind = "switching" THEN [view.maps[i] EXCEPT !.kind = "broken"]
                          ELSE view.maps[i]]
    OBVIOUS
  <2>2. ms \in Seq(Maps) /\ Len(ms) = Len(view.maps) /\ \A i \in 1 .. Len(ms) : ms[i].recs = view.maps[i].recs
    <3>1. \A i \in 1 .. Len(view.maps) : ms[i] \in Maps /\ ms[i].recs = view.maps[i].recs
      BY <1>0, <2>1, KindKeeps
    <3>2. ms \in [1 .. Len(view.maps) -> Maps]
      BY <1>0, <2>1, <3>1
    <3> QED BY <1>0, <3>1, <3>2, Mapped
  <2>3. view' = [view EXCEPT !.maps = ms] /\ waiting' = <<>> /\ UNCHANGED <<looked, oneByOne>> /\ library' = "none"
    BY <1>5, <2>1 DEF Map!LeafletFails
  <2>4. oneByOne => RouteOn(view', looked)
    BY <2>2, <2>3, RouteMoved DEF RouteInv
  <2> QED BY <2>3, <2>4 DEF RouteInv, RouteOn, Libraries
<1>6. CASE Map!OpenReview
  <2>1. looked' = looked + 1 /\ Map!EnsureMap(<<"stops", looked'>>) /\ UNCHANGED oneByOne
    BY <1>6 DEF Map!OpenReview
  <2>2. looked + 1 \in Nat /\ <<"stops", looked'>> \in Callers
    BY <1>0, <2>1 DEF Callers
  <2> QED BY <2>1, <2>2, EnsureRoute
<1>7. CASE Map!CloseReview
  <2>1. view' = [view EXCEPT !.timer = FALSE] /\ UNCHANGED <<library, waiting, looked, oneByOne>>
    BY <1>7 DEF Map!CloseReview
  <2>2. view'.maps = view.maps /\ view'.map = view.map /\ view'.at = view.at
    BY <1>0, <2>1 DEF Views
  <2> QED BY <2>1, <2>2 DEF RouteInv, RouteOn
<1>8. CASE Map!OptionsCome
  <2>1. looked' = looked /\ Map!EnsureMap(<<"route", looked>>) /\ <<"route", looked>> \in Callers /\ UNCHANGED oneByOne
    BY <1>0, <1>8 DEF Map!OptionsCome, Callers
  <2> QED BY <1>0, <2>1, EnsureRoute
<1>9. CASE Map!AskNearby
  <2>1. view' = [view EXCEPT !.near = @ \union {looked}] /\ UNCHANGED <<library, waiting, looked, oneByOne>>
    BY <1>9 DEF Map!AskNearby
  <2>2. view'.maps = view.maps /\ view'.map = view.map /\ view'.at = view.at
    BY <1>0, <2>1 DEF Views
  <2> QED BY <2>1, <2>2 DEF RouteInv, RouteOn
<1>10. ASSUME NEW t \in view.near, Map!NearbyComes(t) PROVE RouteInv'
  <2>1. t \in Nat
    BY <1>0 DEF Views
  <2>2. PICK put \in Views : put = Map!Put(view, "nearby", t)
    BY <1>0, <2>1, PutKeeps DEF Map!Things
  <2>3. view' = [put EXCEPT !.near = @ \ {t}] /\ UNCHANGED <<library, waiting, looked, oneByOne>>
    BY <1>10, <2>2 DEF Map!NearbyComes
  <2>4. view'.maps = put.maps /\ view'.map = put.map /\ view'.at = put.at
    BY <2>3 DEF Views
  <2>5. oneByOne => RouteOn(put, looked)
    BY <1>0, <2>1, <2>2, OtherPut DEF RouteInv
  <2>6. put.map = view.map
    <3>1. PICK clean \in Views : clean = Map!Erase(view, "nearby") /\ clean.map = view.map
      BY <1>0, EraseKeeps, EraseMap DEF Map!Things
    <3>2. put.map = clean.map
      BY <1>0, <2>1, <2>2, <3>1, PutForm DEF Map!Things
    <3> QED BY <3>1, <3>2
  <2> QED BY <2>3, <2>4, <2>5, <2>6 DEF RouteInv, RouteOn
<1> QED BY <1>1, <1>2, <1>3, <1>4, <1>5, <1>6, <1>7, <1>8, <1>9, <1>10 DEF Map!Next

\* At first there are no maps.
LEMMA OverInit == Init => MapInv /\ RouteInv
<1>1. Init => Map!Init
  BY DEF Init
<1>2. <<>> \in Seq(Maps) /\ <<>> \in Seq(Callers) /\ Len(<<>>) = 0
  OBVIOUS
<1>3. Map!Init => MapInv
  BY <1>2 DEF Map!Init, MapInv, Views, Map!Blank
<1>4. Map!Init => RouteInv
  BY <1>2 DEF Map!Init, RouteInv, RouteOn, Libraries
<1> QED BY <1>1, <1>3, <1>4

\* Both invariants of the maps are inductive.
LEMMA OverKept == MapInv /\ RouteInv /\ [Next]_vars => MapInv' /\ RouteInv'
<1>1. [Next]_vars => Map!Next \/ UNCHANGED over
  BY DEF Next, vars, phone, ServerStep, PhoneStep, Tracking
<1>2. MapInv /\ UNCHANGED over => MapInv'
  BY DEF over, MapInv
<1>3. RouteInv /\ UNCHANGED over => RouteInv'
  BY DEF over, RouteInv, RouteOn
<1> QED BY <1>1, <1>2, <1>3, OverStep, RouteStep

\* They say what is stated of the maps.
LEMMA OverImplied == MapInv /\ RouteInv => Map!MapAgrees
<1> SUFFICES ASSUME MapInv, RouteInv PROVE Map!MapAgrees
  OBVIOUS
<1>1. /\ DOMAIN view.maps = 1 .. Len(view.maps)
      /\ \A i \in 1 .. Len(view.maps) : view.maps[i] \in Maps
  BY DEF MapInv, Views
<1>2. ASSUME NEW i \in DOMAIN view.maps, view.maps[i].kind \in {"google", "leaflet"}
      PROVE  view.maps[i].drawn = view.maps[i].recs
  BY <1>1, <1>2 DEF Maps
<1>3. ASSUME oneByOne, NEW i \in DOMAIN view.maps PROVE view.maps[i].recs["route"] \in {0, looked}
  BY <1>1, <1>3 DEF RouteInv, RouteOn
<1> QED BY <1>2, <1>3 DEF Map!MapAgrees

----------------------------------------------------------------------------
(* The list of trips.                                                      *)

Trips == [id : Nat, status : {"active", "completed"}]
OfTab(t) == {x \in Trips : t \in {"all", x.status}}

\* How many pages.
LEMMA PagesBound ==
  ASSUME NEW len \in Nat, NEW k, k = (len + PageSize - 1) \div PageSize
  PROVE  k \in Nat /\ k * PageSize <= len + PageSize - 1 /\ len + PageSize - 1 < (k + 1) * PageSize
BY LimitsAssumption
\* A page before the last one ends within the list.
LEMMA Fits ==
  ASSUME NEW len \in Nat, NEW k \in Nat, k * PageSize <= len + PageSize - 1, NEW m \in Nat, m < k
  PROVE  m * PageSize < len
<1>1. PageSize \in Nat /\ (m + 1) * PageSize = m * PageSize + PageSize
  BY LimitsAssumption
<1>2. (m + 1) * PageSize <= k * PageSize
  BY <1>1
<1> QED BY <1>1, <1>2

\* TabRows: a trip of the tab goes behind those before it.
TabStep(t, rows, x) == IF t \in {"all", x.status} THEN Append(rows, x) ELSE rows
\* The rows of a tab are trips of the tab.
LEMMA RowsOfTab ==
  ASSUME trips \in Seq(Trips), NEW t
  PROVE  List!TabRows(t) \in Seq(OfTab(t))
<1> DEFINE n == Len(trips)
           S == 1 .. n
           V == Seq(OfTab(t))
           F(g) == [s \in SUBSET S |-> IF s = {} THEN <<>> ELSE TabStep(t, g[s \ {List!Max(s)}], trips[List!Max(s)])]
           D == [q \in S \X V |-> TabStep(t, q[2], trips[q[1]])]
           h == CHOOSE g : g = F(g)
<1>1. n \in Nat /\ DOMAIN trips = S /\ \A i \in S : trips[i] \in Trips
  OBVIOUS
<1>2. D \in [S \X V -> V] /\ <<>> \in V
  <2>1. \A i \in S, rows \in V : TabStep(t, rows, trips[i]) \in V
    BY <1>1, AppendProperties DEF TabStep, OfTab
  <2> QED BY <2>1
<1>3. \A s \in SUBSET S : s # {} => Last(s) \in s /\ Last(s) = List!Max(s)
  BY <1>1, LastIn DEF Last, List!Max
<1>4. PICK f \in [SUBSET S -> V] : WalksDown(f, n, <<>>, D)
  <2> HIDE DEF D, V
  <2> QED BY <1>1, <1>2, FromTheLastBefore
<1>5. f = F(f)
  <2>1. \A s \in SUBSET S : s # {} => D[<<Last(s), f[s \ {Last(s)}]>>] = F(f)[s]
    BY <1>3
  <2> HIDE DEF D
  <2> QED BY <1>4, <2>1 DEF WalksDown
<1>6. h = F(h)
  BY <1>5
<1>7. List!TabRows(t) = h[S]
  BY <1>1 DEF List!TabRows, List!FoldLeft, List!MapThenFoldSet, TabStep
<1> DEFINE T == {k \in Nat : k <= n => h[1 .. k] \in V}
<1> HIDE DEF h
<1>8. 0 \in T
  BY <1>2, <1>6
<1>9. ASSUME NEW k \in Nat, k \in T PROVE k + 1 \in T
  <2> SUFFICES ASSUME k + 1 <= n PROVE h[1 .. k + 1] \in V
    OBVIOUS
  <2>1. 1 .. k + 1 \in SUBSET S /\ 1 .. k + 1 # {} /\ List!Max(1 .. k + 1) = k + 1 /\ (1 .. k + 1) \ {k + 1} = 1 .. k
    <3>1. PICK i \in Nat : i = k + 1
      OBVIOUS
    <3>2. Last(1 .. i) = i /\ (1 .. i) \ {i} = 1 .. i - 1
      BY <3>1, LastNumber
    <3> QED BY <1>1, <3>1, <3>2 DEF Last, List!Max
  <2>2. h[1 .. k + 1] = TabStep(t, h[1 .. k], trips[k + 1])
    BY <1>6, <2>1
  <2>3. h[1 .. k] \in V /\ trips[k + 1] \in Trips
    BY <1>1, <1>9
  <2> QED BY <2>2, <2>3, AppendProperties DEF TabStep, OfTab
<1>10. n \in T
  <2> HIDE DEF T
  <2>1. Nat \subseteq T
    BY <1>8, <1>9, Induction
  <2> QED BY <1>1, <2>1
<1> QED BY <1>1, <1>7, <1>10

\* The rows of a tab change with the trips only.
LEMMA RowsStay ==
  ASSUME UNCHANGED trips PROVE \A t : List!TabRows(t)' = List!TabRows(t)
BY DEF List!TabRows, List!FoldLeft, List!MapThenFoldSet

\* Rows that follow one another.
LEMMA RowsFollow ==
  ASSUME NEW S, NEW rows \in Seq(S), NEW a \in Nat, NEW b \in Nat, a <= b, b <= Len(rows)
  PROVE  /\ SubSeq(rows, a + 1, b) \in Seq(S)
         /\ SubSeq(rows, 1, a) \o SubSeq(rows, a + 1, b) = SubSeq(rows, 1, b)
         /\ SubSeq(rows, 1, Len(rows)) = rows
<1>1. Len(rows) \in Nat /\ \A i \in 1 .. Len(rows) : rows[i] \in S
  OBVIOUS
<1>2. PICK one : one = SubSeq(rows, 1, a) /\ one \in Seq(S) /\ Len(one) = a /\ \A i \in 1 .. a : one[i] = rows[i]
  <2>1. /\ SubSeq(rows, 1, a) \in Seq(S) /\ Len(SubSeq(rows, 1, a)) = a
        /\ \A i \in 1 .. a : SubSeq(rows, 1, a)[i] = rows[i]
    BY <1>1, SubSeqProperties
  <2> QED BY <2>1
<1>3. PICK two : two = SubSeq(rows, a + 1, b) /\ two \in Seq(S) /\ Len(two) = b - a
                 /\ \A i \in 1 .. b - a : two[i] = rows[a + i]
  <2>1. /\ SubSeq(rows, a + 1, b) \in Seq(S) /\ Len(SubSeq(rows, a + 1, b)) = b - a
        /\ \A i \in 1 .. b - a : SubSeq(rows, a + 1, b)[i] = rows[a + i]
    <3>1. \A i \in a + 1 .. b : rows[i] \in S
      BY <1>1
    <3>2. /\ SubSeq(rows, a + 1, b) \in Seq(S)
          /\ Len(SubSeq(rows, a + 1, b)) = IF a + 1 <= b THEN b - (a + 1) + 1 ELSE 0
          /\ \A i \in 1 .. b - (a + 1) + 1 : SubSeq(rows, a + 1, b)[i] = rows[(a + 1) + i - 1]
      BY <3>1, SubSeqProperties
    <3>3. b - (a + 1) + 1 = b - a /\ \A i \in Int : (a + 1) + i - 1 = a + i
      OBVIOUS
    <3> QED BY <3>2, <3>3
  <2> QED BY <2>1
<1>4. PICK all : all = SubSeq(rows, 1, b) /\ all \in Seq(S) /\ Len(all) = b /\ \A i \in 1 .. b : all[i] = rows[i]
  <2>1. /\ SubSeq(rows, 1, b) \in Seq(S) /\ Len(SubSeq(rows, 1, b)) = b
        /\ \A i \in 1 .. b : SubSeq(rows, 1, b)[i] = rows[i]
    BY <1>1, SubSeqProperties
  <2> QED BY <2>1
<1>5. one \o two = all
  <2>1. /\ one \o two \in Seq(S) /\ Len(one \o two) = b
        /\ \A i \in 1 .. b : (one \o two)[i] = IF i <= a THEN one[i] ELSE two[i - a]
    BY <1>2, <1>3, ConcatProperties
  <2>2. \A i \in 1 .. b : (one \o two)[i] = all[i]
    BY <1>2, <1>3, <1>4, <2>1
  <2> QED BY <1>4, <2>1, <2>2, SameSequence
<1>6. SubSeq(rows, 1, Len(rows)) = rows
  <2>1. /\ SubSeq(rows, 1, Len(rows)) \in Seq(S) /\ Len(SubSeq(rows, 1, Len(rows))) = Len(rows)
        /\ \A i \in 1 .. Len(rows) : SubSeq(rows, 1, Len(rows))[i] = rows[i]
    BY <1>1, SubSeqProperties
  <2> QED BY <2>1, SameSequence
<1> QED BY <1>2, <1>3, <1>4, <1>5, <1>6

\* The pages of a list, and where one of them begins and ends.
LEMMA PagesFit ==
  ASSUME NEW S, NEW rows \in Seq(S)
  PROVE  /\ List!Pages(rows) \in Nat \ {0}
         /\ \A m \in Nat : m < List!Pages(rows) => m * PageSize <= Len(rows) /\ m * PageSize \in Nat
<1>0. Len(rows) \in Nat /\ PageSize \in Nat \ {0}
  BY LimitsAssumption
<1>1. CASE rows = <<>>
  <2>1. List!Pages(rows) = 1
    BY <1>1 DEF List!Pages
  <2>2. \A m \in Nat : m < 1 => m = 0 /\ 0 * PageSize = 0
    BY <1>0
  <2> QED BY <1>0, <2>1, <2>2
<1>2. CASE rows # <<>>
  <2>1. PICK k : k = (Len(rows) + PageSize - 1) \div PageSize
    OBVIOUS
  <2>2. k \in Nat /\ k * PageSize <= Len(rows) + PageSize - 1 /\ Len(rows) + PageSize - 1 < (k + 1) * PageSize
    BY <1>0, <2>1, PagesBound
  <2>3. Len(rows) # 0
    BY <1>2
  <2>4. k # 0
    BY <1>0, <2>2, <2>3
  <2>5. \A m \in Nat : m < k => m * PageSize <= Len(rows) /\ m * PageSize \in Nat
    BY <1>0, <2>2, Fits
  <2>6. List!Pages(rows) = k
    BY <1>2, <2>1 DEF List!Pages
  <2> QED BY <2>2, <2>4, <2>5, <2>6
<1> QED BY <1>1, <1>2

\* A page is rows of the list, and the page after those before it makes them longer.
LEMMA PageOfRows ==
  ASSUME NEW S, NEW rows \in Seq(S), NEW n \in Nat \ {0}
  PROVE  LET got == List!GetPage(rows, n)
         IN  /\ got = [cards |-> got.cards, next |-> got.next]
             /\ got.cards \in Seq(S) /\ got.next \in Nat
             /\ n <= List!Pages(rows) =>
                  LET longer == SubSeq(rows, 1, (n - 1) * PageSize) \o got.cards
                  IN  IF got.next = 0 THEN longer = rows
                      ELSE got.next <= List!Pages(rows) /\ longer = SubSeq(rows, 1, (got.next - 1) * PageSize)
<1>1. PICK k \in Nat \ {0} : /\ k = List!Pages(rows)
                             /\ \A m \in Nat : m < k => m * PageSize <= Len(rows) /\ m * PageSize \in Nat
  BY PagesFit
<1>2. PICK m \in Nat \ {0} : m = (IF n > k THEN k ELSE n) /\ m <= k
  BY <1>1
<1>3. PICK a \in Nat : a = (m - 1) * PageSize /\ a <= Len(rows)
  <2>1. m - 1 \in Nat /\ m - 1 < k
    BY <1>1, <1>2
  <2> QED BY <1>1, <2>1
<1>4. PICK b \in Nat : b = (IF m < k THEN m * PageSize ELSE Len(rows)) /\ a <= b /\ b <= Len(rows)
  <2>1. CASE m < k
    <3>1. m * PageSize \in Nat /\ m * PageSize <= Len(rows)
      BY <1>1, <2>1
    <3>2. a <= m * PageSize
      BY <1>3, LimitsAssumption
    <3> QED BY <2>1, <3>1, <3>2
  <2>2. CASE ~(m < k)
    BY <1>3, <2>2
  <2> QED BY <2>1, <2>2
<1>5. PICK got : got = List!GetPage(rows, n)
  OBVIOUS
<1>6. got = [cards |-> SubSeq(rows, a + 1, b), next |-> IF m < k THEN m + 1 ELSE 0]
  BY <1>1, <1>2, <1>3, <1>4, <1>5 DEF List!GetPage, List!Number
<1>7. /\ SubSeq(rows, a + 1, b) \in Seq(S)
      /\ SubSeq(rows, 1, a) \o SubSeq(rows, a + 1, b) = SubSeq(rows, 1, b)
      /\ SubSeq(rows, 1, Len(rows)) = rows
  <2>1. a <= b /\ b <= Len(rows)
    BY <1>4
  <2> QED BY <2>1, RowsFollow
<1>8. got = [cards |-> got.cards, next |-> got.next] /\ got.cards \in Seq(S) /\ got.next \in Nat
  BY <1>6, <1>7
<1>9. ASSUME n <= k
      PROVE  IF got.next = 0 THEN SubSeq(rows, 1, (n - 1) * PageSize) \o got.cards = rows
             ELSE /\ got.next <= k
                  /\ SubSeq(rows, 1, (n - 1) * PageSize) \o got.cards = SubSeq(rows, 1, (got.next - 1) * PageSize)
  <2>1. m = n /\ SubSeq(rows, 1, (n - 1) * PageSize) \o got.cards = SubSeq(rows, 1, b)
    <3>1. m = n
      BY <1>2, <1>9
    <3>2. (n - 1) * PageSize = a
      BY <1>3, <3>1
    <3>3. SubSeq(rows, 1, (n - 1) * PageSize) = SubSeq(rows, 1, a) /\ got.cards = SubSeq(rows, a + 1, b)
      BY <1>6, <3>2
    <3> QED BY <1>7, <3>1, <3>3
  <2>2. CASE m < k
    <3>1. got.next = m + 1 /\ (got.next - 1) * PageSize = m * PageSize
      BY <1>6, <2>2, LimitsAssumption
    <3>2. b = (got.next - 1) * PageSize /\ got.next <= k /\ got.next # 0
      BY <1>4, <2>2, <3>1
    <3> QED BY <2>1, <3>2
  <2>3. CASE ~(m < k)
    BY <1>4, <1>6, <1>7, <2>1, <2>3
  <2> QED BY <2>2, <2>3
<1> QED BY <1>1, <1>5, <1>8, <1>9

\* A page asked for, and its answer when the server has it.
Asking(a) ==
  /\ a = [seq |-> a.seq, tab |-> a.tab, page |-> a.page, reset |-> a.reset, answer |-> a.answer]
  /\ a.seq \in Nat /\ a.tab \in List!Tabs /\ a.page \in Nat \ {0} /\ a.reset \in BOOLEAN
  /\ a.answer # <<>> => \E got \in [cards : Seq(OfTab(a.tab)), next : Nat] : a.answer = <<got>>

\* The cards are of the tab, those that are asked for too.
ListInv ==
  /\ trips \in Seq(Trips) /\ turn \in Nat /\ tab \in List!Tabs /\ next \in Nat
  /\ scrolled \in Seq(OfTab(tab))
  /\ \A a \in pages : Asking(a) /\ a.seq <= turn /\ (a.seq = turn => a.tab = tab)

\* While nothing changes on the server: the pages before the next one are there, and the
\* one that counts is the next.
SteadyInv ==
  steady =>
    /\ ~error
    /\ \A a, b \in pages : a.seq = b.seq => a = b
    /\ \A a \in pages :
         /\ a.answer # <<>> => a.answer = <<List!GetPage(List!TabRows(a.tab), a.page)>>
         /\ a.seq = turn => a.page = next /\ loading /\ (a.reset => scrolled = <<>>)
    /\ IF next = 0 THEN scrolled = List!TabRows(tab)
       ELSE /\ next <= List!Pages(List!TabRows(tab))
            /\ scrolled = SubSeq(List!TabRows(tab), 1, (next - 1) * PageSize)

\* A page is asked for.
LEMMA ListLoad ==
  ASSUME ListInv, NEW t \in List!Tabs, NEW n \in Nat \ {0}, NEW reset \in BOOLEAN, List!Load(t, n, reset),
         tab' = t, UNCHANGED trips, next' \in Nat, scrolled' \in Seq(OfTab(t))
  PROVE  ListInv'
<1>1. turn' = turn + 1 /\ turn \in Nat
  BY DEF List!Load, ListInv
<1>2. PICK new : /\ new = [seq |-> turn + 1, tab |-> t, page |-> n, reset |-> reset, answer |-> <<>>]
                 /\ pages' = pages \union {new}
  BY DEF List!Load
<1>3. Asking(new) /\ new.seq = turn + 1 /\ new.tab = t
  BY <1>1, <1>2 DEF Asking
<1>4. \A a \in pages' : Asking(a) /\ a.seq <= turn + 1 /\ (a.seq = turn + 1 => a.tab = t)
  <2>1. \A a \in pages : Asking(a) /\ a.seq \in Nat /\ a.seq <= turn
    BY DEF ListInv, Asking
  <2> QED BY <1>1, <1>2, <1>3, <2>1
<1> QED BY <1>1, <1>4 DEF ListInv

\* A page comes, or one that no longer counts.
LEMMA ListArrives ==
  ASSUME ListInv, NEW a \in pages, List!Arrives(a)
  PROVE  ListInv'
<1>1. /\ pages' \subseteq pages /\ UNCHANGED <<trips, tab, turn>> /\ Asking(a) /\ a.answer # <<>>
      /\ a.seq = turn => a.tab = tab
  BY DEF List!Arrives, ListInv
<1>2. PICK got \in [cards : Seq(OfTab(a.tab)), next : Nat] : a.answer = <<got>>
  BY <1>1 DEF Asking
<1>3. scrolled' \in Seq(OfTab(tab)) /\ next' \in Nat
  <2>1. CASE a.seq = turn
    <3>1. PICK cards_ : cards_ = got.cards /\ cards_ \in Seq(OfTab(tab))
      BY <1>1, <1>2, <2>1
    <3>2. scrolled' = (IF a.reset THEN <<>> ELSE scrolled) \o cards_ /\ next' = got.next
      BY <1>2, <2>1, <3>1 DEF List!Arrives, List!Current
    <3>3. PICK before \in Seq(OfTab(tab)) : before = IF a.reset THEN <<>> ELSE scrolled
      <4>1. <<>> \in Seq(OfTab(tab)) /\ scrolled \in Seq(OfTab(tab))
        BY DEF ListInv
      <4> QED BY <4>1
    <3>4. before \o cards_ \in Seq(OfTab(tab))
      BY <3>1, <3>3, ConcatProperties
    <3> QED BY <1>2, <3>2, <3>3, <3>4
  <2>2. CASE a.seq # turn
    BY <2>2 DEF List!Arrives, List!Current, ListInv
  <2> QED BY <2>1, <2>2
<1> QED BY <1>1, <1>3 DEF ListInv

\* The server answers with a page of the tab it was asked for.
LEMMA ListServe ==
  ASSUME ListInv, NEW a \in pages, List!Serve(a)
  PROVE  ListInv'
<1>1. Asking(a) /\ a.answer = <<>> /\ a.seq <= turn /\ (a.seq = turn => a.tab = tab)
      /\ UNCHANGED <<trips, tab, turn, next, scrolled>>
  BY DEF ListInv, List!Serve, List!page
<1>2. PICK got : got = List!GetPage(List!TabRows(a.tab), a.page)
  OBVIOUS
<1>3. got \in [cards : Seq(OfTab(a.tab)), next : Nat]
  <2>1. List!TabRows(a.tab) \in Seq(OfTab(a.tab)) /\ a.page \in Nat \ {0}
    BY <1>1, RowsOfTab DEF ListInv, Asking
  <2>2. got = [cards |-> got.cards, next |-> got.next] /\ got.cards \in Seq(OfTab(a.tab)) /\ got.next \in Nat
    BY <1>2, <2>1, PageOfRows
  <2> QED BY <2>2
<1>4. PICK b : b = [a EXCEPT !.answer = <<got>>] /\ pages' = (pages \ {a}) \union {b}
  BY <1>2 DEF List!Serve
<1>5. b = [seq |-> a.seq, tab |-> a.tab, page |-> a.page, reset |-> a.reset, answer |-> <<got>>]
  BY <1>1, <1>4 DEF Asking
<1>6. Asking(b) /\ b.seq = a.seq /\ b.tab = a.tab
  BY <1>1, <1>3, <1>5 DEF Asking
<1> QED BY <1>1, <1>4, <1>6 DEF ListInv

\* The cards are of the tab after every action.
LEMMA ListStep == ListInv /\ List!Next => ListInv'
<1> SUFFICES ASSUME ListInv, List!Next PROVE ListInv'
  OBVIOUS
<1>0. trips \in Seq(Trips) /\ turn \in Nat /\ tab \in List!Tabs /\ next \in Nat /\ scrolled \in Seq(OfTab(tab))
      /\ (\A S : <<>> \in Seq(S)) /\ 1 \in Nat \ {0}
  BY DEF ListInv
<1>1. ASSUME NEW t \in List!Tabs, List!SetTab(t) PROVE ListInv'
  <2>1. List!Load(t, 1, TRUE) /\ UNCHANGED trips /\ tab' = t /\ next' = 1 /\ scrolled' = <<>>
    BY <1>1 DEF List!SetTab, List!LoadFirst
  <2>2. next' \in Nat /\ scrolled' \in Seq(OfTab(t))
    BY <1>0, <2>1
  <2>3. PICK n \in Nat \ {0} : n = 1
    BY <1>0
  <2>4. List!Load(t, n, TRUE)
    BY <2>1, <2>3
  <2> QED BY <2>1, <2>2, <2>4, ListLoad
<1>2. CASE List!Scroll
  <2>1. List!Load(tab, next, FALSE) /\ next \in Nat \ {0} /\ UNCHANGED <<trips, tab, next, scrolled>>
    BY <1>0, <1>2 DEF List!Scroll
  <2> QED BY <1>0, <2>1, ListLoad
<1>3. CASE List!Retry
  <2>1. List!Load(tab, 1, TRUE) /\ UNCHANGED <<trips, tab>> /\ next' = 1 /\ scrolled' = <<>>
    BY <1>3 DEF List!Retry, List!LoadFirst
  <2>2. PICK t \in List!Tabs, n \in Nat \ {0} : n = 1 /\ t = tab
    BY <1>0
  <2>3. List!Load(t, n, TRUE) /\ tab' = t /\ next' \in Nat /\ scrolled' \in Seq(OfTab(t))
    BY <1>0, <2>1, <2>2
  <2> QED BY <2>1, <2>3, ListLoad
<1>4. ASSUME NEW a \in pages, List!Fails(a) PROVE ListInv'
  <2>1. /\ pages' \subseteq pages /\ UNCHANGED <<trips, tab, turn, next>>
        /\ scrolled' = <<>> \/ scrolled' = scrolled
    BY <1>4 DEF List!Fails
  <2>2. scrolled' \in Seq(OfTab(tab))
    BY <1>0, <2>1
  <2> QED BY <2>1, <2>2 DEF ListInv
<1>5. CASE List!Book
  <2>1. PICK booked : booked = [id |-> Len(trips) + 1, status |-> "active"] /\ trips' = <<booked>> \o trips
    BY <1>5 DEF List!Book
  <2>2. booked \in Trips
    BY <1>0, <2>1 DEF Trips
  <2>3. <<booked>> \in Seq(Trips)
    BY <2>2
  <2>4. trips' \in Seq(Trips)
    BY <1>0, <2>1, <2>3, ConcatProperties
  <2> QED BY <1>5, <2>4 DEF List!Book, List!page, ListInv
<1>6. ASSUME NEW i \in 1 .. MaxTrips, List!TripEnds(i) PROVE ListInv'
  <2>0. i \in 1 .. Len(trips) /\ trips[i] \in Trips
    BY <1>0, <1>6 DEF List!TripEnds
  <2>1. PICK done : done = [trips[i] EXCEPT !.status = "completed"] /\ trips' = [trips EXCEPT ![i] = done]
    BY <1>6 DEF List!TripEnds
  <2>2. done \in Trips
    BY <2>0, <2>1 DEF Trips
  <2>3. trips' \in Seq(Trips)
    BY <1>0, <2>1, <2>2, Replaced
  <2> QED BY <1>6, <2>3 DEF List!TripEnds, List!page, ListInv
<1> QED BY <1>1, <1>2, <1>3, <1>4, <1>5, <1>6, ListArrives, ListServe DEF List!Next

\* Another page is asked for, the one that counts from then on.
LEMMA SteadyLoad ==
  ASSUME ListInv, SteadyInv, steady, NEW t \in List!Tabs, NEW n \in Nat \ {0}, NEW reset \in BOOLEAN,
         List!Load(t, n, reset), tab' = t, next' = n, UNCHANGED <<trips, steady>>, ~error', reset => scrolled' = <<>>,
         n <= List!Pages(List!TabRows(t)), scrolled' = SubSeq(List!TabRows(t), 1, (n - 1) * PageSize)
  PROVE  SteadyInv'
<1>1. turn' = turn + 1 /\ turn \in Nat /\ loading'
  BY DEF List!Load, ListInv
<1>2. PICK new : /\ new = [seq |-> turn + 1, tab |-> t, page |-> n, reset |-> reset, answer |-> <<>>]
                 /\ pages' = pages \union {new}
  BY DEF List!Load
<1>3. \A u : List!TabRows(u)' = List!TabRows(u)
  BY RowsStay
<1>4. \A a \in pages : a.seq \in Nat /\ a.seq <= turn
  BY DEF ListInv, Asking
<1>5. new.seq = turn + 1 /\ new.page = n /\ new.reset = reset /\ new.answer = <<>>
  BY <1>2
<1>6. \A a, b \in pages' : a.seq = b.seq => a = b
  BY <1>1, <1>2, <1>4, <1>5 DEF SteadyInv
<1>7. ASSUME NEW a \in pages'
      PROVE  /\ a.answer # <<>> => a.answer = <<List!GetPage(List!TabRows(a.tab), a.page)>>
             /\ a.seq = turn + 1 => a.page = n /\ (a.reset => scrolled' = <<>>)
  <2>1. CASE a = new
    BY <1>5, <2>1
  <2>2. CASE a \in pages
    BY <1>1, <1>4, <2>2 DEF SteadyInv
  <2> QED BY <1>2, <2>1, <2>2
<1>8. PICK rows : rows = List!TabRows(t)
  OBVIOUS
<1> QED BY <1>1, <1>3, <1>6, <1>7 DEF SteadyInv

\* The next page comes: one page more of the list, or all of it.
LEMMA SteadyArrives ==
  ASSUME ListInv, SteadyInv, steady, NEW a \in pages, List!Arrives(a)
  PROVE  SteadyInv'
<1>1. /\ pages' = pages \ {a} /\ UNCHANGED <<trips, tab, turn, steady>> /\ Asking(a) /\ a.answer # <<>>
      /\ a.seq = turn => a.tab = tab
      /\ trips \in Seq(Trips) /\ next \in Nat
  BY DEF List!Arrives, ListInv
<1>2. \A u : List!TabRows(u)' = List!TabRows(u)
  BY <1>1, RowsStay
<1>3. CASE a.seq # turn
  BY <1>1, <1>2, <1>3 DEF List!Arrives, List!Current, SteadyInv
<1>4. CASE a.seq = turn
  <2>1. PICK rows \in Seq(OfTab(tab)) : rows = List!TabRows(tab)
    BY <1>1, RowsOfTab
  <2>2. PICK n \in Nat \ {0} : n = next /\ a.page = n /\ a.answer = <<List!GetPage(rows, n)>>
    BY <1>1, <1>4, <2>1 DEF SteadyInv, Asking
  <2>3. PICK got : got = List!GetPage(rows, n) /\ a.answer[1] = got
    BY <2>2
  <2>4. n <= List!Pages(rows) /\ scrolled = SubSeq(rows, 1, (n - 1) * PageSize)
    BY <2>1, <2>2 DEF SteadyInv
  <2>5. scrolled' = (IF a.reset THEN <<>> ELSE scrolled) \o got.cards
    BY <1>4, <2>3 DEF List!Arrives, List!Current
  <2>6. a.reset => scrolled = <<>>
    BY <1>4 DEF SteadyInv
  <2>7. scrolled' = scrolled \o got.cards
    BY <2>5, <2>6
  <2>8. ~error' /\ next' = got.next
    BY <1>4, <2>3 DEF List!Arrives, List!Current, SteadyInv
  <2>9. IF got.next = 0 THEN scrolled' = rows
        ELSE got.next <= List!Pages(rows) /\ scrolled' = SubSeq(rows, 1, (got.next - 1) * PageSize)
    BY <2>3, <2>4, <2>7, PageOfRows
  <2>10. /\ \A b, c \in pages' : b.seq = c.seq => b = c
         /\ \A b \in pages' : /\ b.answer # <<>> => b.answer = <<List!GetPage(List!TabRows(b.tab), b.page)>>
                              /\ b.seq # turn
    BY <1>1, <1>4 DEF SteadyInv
  <2> QED BY <1>1, <1>2, <2>1, <2>8, <2>9, <2>10 DEF SteadyInv
<1> QED BY <1>3, <1>4

\* The server answers with the page it was asked for.
LEMMA SteadyServe ==
  ASSUME ListInv, SteadyInv, steady, NEW a \in pages, List!Serve(a)
  PROVE  SteadyInv'
<1>1. Asking(a) /\ UNCHANGED <<trips, tab, turn, next, scrolled, error, loading, steady>>
  BY DEF ListInv, List!Serve, List!page
<1>2. \A u : List!TabRows(u)' = List!TabRows(u)
  BY <1>1, RowsStay
<1>3. PICK got : got = List!GetPage(List!TabRows(a.tab), a.page)
  OBVIOUS
<1>4. PICK b : b = [a EXCEPT !.answer = <<got>>] /\ pages' = (pages \ {a}) \union {b}
  BY <1>3 DEF List!Serve
<1>5. b = [seq |-> a.seq, tab |-> a.tab, page |-> a.page, reset |-> a.reset, answer |-> <<got>>]
  BY <1>1, <1>4 DEF Asking
<1>6. b.seq = a.seq /\ b.tab = a.tab /\ b.page = a.page /\ b.reset = a.reset /\ b.answer = <<got>>
  BY <1>5
<1>7. \A c, d \in pages' : c.seq = d.seq => c = d
  <2>1. \A c, d \in pages : c.seq = d.seq => c = d
    BY DEF SteadyInv
  <2>2. \A c \in pages \ {a} : c.seq # b.seq
    BY <1>6, <2>1
  <2> QED BY <1>4, <2>1, <2>2
<1>8. ASSUME NEW c \in pages'
      PROVE  /\ c.answer # <<>> => c.answer = <<List!GetPage(List!TabRows(c.tab), c.page)>>
             /\ c.seq = turn => c.page = next /\ loading /\ (c.reset => scrolled = <<>>)
  BY <1>3, <1>4, <1>6 DEF SteadyInv
<1> QED BY <1>1, <1>2, <1>7, <1>8 DEF SteadyInv

\* While nothing changes on the server no action loses or repeats a row.
LEMMA SteadyStep == ListInv /\ SteadyInv /\ List!Next => SteadyInv'
<1> SUFFICES ASSUME ListInv, SteadyInv, List!Next PROVE SteadyInv'
  OBVIOUS
<1>0. UNCHANGED steady
  BY DEF List!Next, List!SetTab, List!Scroll, List!Retry, List!Book, List!Arrives, List!Fails, List!Serve, List!TripEnds
<1>1. CASE ~steady
  BY <1>0, <1>1 DEF SteadyInv
<1>2. CASE steady
  <2>0. /\ trips \in Seq(Trips) /\ tab \in List!Tabs /\ next \in Nat /\ ~error
        /\ \A u : List!TabRows(u) \in Seq(OfTab(u))
    BY <1>2, RowsOfTab DEF ListInv, SteadyInv
  <2>1. ASSUME NEW t \in List!Tabs, List!SetTab(t) PROVE SteadyInv'
    <3>1. List!Load(t, 1, TRUE) /\ UNCHANGED trips /\ tab' = t /\ next' = 1 /\ scrolled' = <<>> /\ ~error'
      BY <2>1 DEF List!SetTab, List!LoadFirst
    <3>2. PICK n \in Nat \ {0} : n = 1
      OBVIOUS
    <3>3. n <= List!Pages(List!TabRows(t))
      BY <2>0, <3>2, PagesFit
    <3>4. SubSeq(List!TabRows(t), 1, (n - 1) * PageSize) = <<>>
      <4>1. (n - 1) * PageSize = 0
        BY <3>2, LimitsAssumption
      <4> QED BY <4>1, SubSeqEmpty
    <3>5. List!Load(t, n, TRUE) /\ next' = n
      BY <3>1, <3>2
    <3> QED BY <1>0, <1>2, <3>1, <3>3, <3>4, <3>5, SteadyLoad
  <2>2. CASE List!Scroll
    <3>1. /\ List!Load(tab, next, FALSE) /\ next \in Nat \ {0}
          /\ UNCHANGED <<trips, tab, next, scrolled, error, steady>>
      BY <2>0, <2>2 DEF List!Scroll
    <3>2. PICK t \in List!Tabs, n \in Nat \ {0} : t = tab /\ n = next
      BY <2>0, <3>1
    <3>3. n <= List!Pages(List!TabRows(t)) /\ scrolled = SubSeq(List!TabRows(t), 1, (n - 1) * PageSize)
      BY <1>2, <3>1, <3>2 DEF SteadyInv
    <3>4. List!Load(t, n, FALSE) /\ tab' = t /\ next' = n /\ ~error' /\ UNCHANGED <<trips, steady>>
          /\ scrolled' = SubSeq(List!TabRows(t), 1, (n - 1) * PageSize)
      BY <2>0, <3>1, <3>2, <3>3
    <3> QED BY <1>2, <3>3, <3>4, SteadyLoad
  <2>3. ASSUME NEW a \in pages, List!Arrives(a) \/ List!Fails(a) \/ List!Serve(a) PROVE SteadyInv'
    BY <1>2, <2>3, SteadyArrives, SteadyServe DEF List!Fails
  <2> QED BY <1>2, <2>0, <2>1, <2>2, <2>3 DEF List!Next, List!Retry, List!Book, List!TripEnds
<1> QED BY <1>1, <1>2

\* The page opens with its first page asked for.
LEMMA ListInit == Init => ListInv /\ SteadyInv
<1> SUFFICES ASSUME List!Init PROVE ListInv /\ SteadyInv
  BY DEF Init
<1>1. trips \in Seq(Trips)
  <2>1. PICK n \in 0 .. MaxTrips, s \in [1 .. MaxTrips -> {"active", "completed"}] :
               trips = [i \in 1 .. n |-> [id |-> n - i + 1, status |-> s[i]]]
    BY DEF List!Init
  <2>2. MaxTrips \in Nat
    BY BoundsAssumption
  <2>3. \A i \in 1 .. n : i \in 1 .. MaxTrips /\ n - i + 1 \in Nat
    BY <2>2
  <2>4. trips \in [1 .. n -> Trips]
    BY <2>1, <2>3 DEF Trips
  <2> QED BY <2>2, <2>4, Mapped
<1>2. PICK a : a = [seq |-> 1, tab |-> tab, page |-> 1, reset |-> TRUE, answer |-> <<>>] /\ pages = {a}
  BY DEF List!Init
<1>3. Asking(a) /\ a.seq = 1 /\ a.tab = tab /\ a.page = 1 /\ a.answer = <<>> /\ a.reset
  BY <1>2 DEF Asking, List!Init
<1>4. turn = 1 /\ tab \in List!Tabs /\ next = 1 /\ scrolled = <<>> /\ ~error /\ loading
  BY DEF List!Init
<1>5. ListInv
  BY <1>1, <1>2, <1>3, <1>4 DEF ListInv
<1>6. SteadyInv
  <2>1. PICK rows \in Seq(OfTab(tab)) : rows = List!TabRows(tab)
    BY <1>1, RowsOfTab
  <2>2. 1 <= List!Pages(rows)
    BY PagesFit
  <2>3. SubSeq(rows, 1, (next - 1) * PageSize) = <<>>
    <3>1. (next - 1) * PageSize = 0
      BY <1>4, LimitsAssumption
    <3> QED BY <3>1, SubSeqEmpty
  <2>4. next # 0 /\ next <= List!Pages(List!TabRows(tab))
        /\ scrolled = SubSeq(List!TabRows(tab), 1, (next - 1) * PageSize)
    <3>1. next <= List!Pages(rows)
      BY <1>4, <2>2
    <3>2. scrolled = SubSeq(rows, 1, (next - 1) * PageSize)
      BY <1>4, <2>3
    <3> QED BY <1>4, <2>1, <3>1, <3>2
  <2> QED BY <1>2, <1>3, <1>4, <2>4 DEF SteadyInv
<1> QED BY <1>5, <1>6

\* Both invariants of the list are inductive.
LEMMA ListKept == ListInv /\ SteadyInv /\ [Next]_vars => ListInv' /\ SteadyInv'
<1> SUFFICES ASSUME ListInv, SteadyInv, [Next]_vars PROVE ListInv' /\ SteadyInv'
  OBVIOUS
<1>1. List!Next \/ UNCHANGED bookings
  BY DEF Next, vars, phone, ServerStep, PhoneStep, Tracking
<1>2. CASE UNCHANGED bookings
  <2>1. UNCHANGED <<trips, tab, next, loading, turn, pages, scrolled, error, steady>>
    BY <1>2 DEF bookings
  <2>2. \A u : List!TabRows(u)' = List!TabRows(u)
    BY <2>1, RowsStay
  <2>3. ListInv'
    BY <2>1 DEF ListInv
  <2>4. SteadyInv'
    BY <2>1, <2>2 DEF SteadyInv
  <2> QED BY <2>3, <2>4
<1> QED BY <1>1, <1>2, ListStep, SteadyStep

\* They say what is stated of the list.
LEMMA ListImplied == ListInv /\ SteadyInv => List!ListAgrees
<1> SUFFICES ASSUME ListInv, SteadyInv PROVE List!ListAgrees
  OBVIOUS
<1>1. List!CardsOfTab
  BY DEF List!CardsOfTab, ListInv, OfTab
<1>2. ASSUME steady PROVE List!IsPrefix(scrolled, List!TabRows(tab)) /\ (next = 0 => scrolled = List!TabRows(tab))
  <2>1. PICK rows \in Seq(OfTab(tab)) : rows = List!TabRows(tab)
    BY RowsOfTab DEF ListInv
  <2>2. PICK b \in Nat : b <= Len(rows) /\ scrolled = SubSeq(rows, 1, b)
    <3>1. CASE next = 0
      <4>1. scrolled = rows
        BY <1>2, <2>1, <3>1 DEF SteadyInv
      <4>2. Len(rows) \in Nat /\ 0 <= Len(rows)
        BY <2>1
      <4>3. rows = SubSeq(rows, 1, Len(rows))
        BY <4>2, RowsFollow
      <4>4. scrolled = SubSeq(rows, 1, Len(rows))
        BY <4>1, <4>3
      <4> QED BY <4>2, <4>4
    <3>2. CASE next # 0
      <4>1. next - 1 \in Nat /\ next - 1 < List!Pages(rows) /\ scrolled = SubSeq(rows, 1, (next - 1) * PageSize)
        BY <1>2, <2>1, <3>2, PagesFit DEF SteadyInv, ListInv
      <4>2. (next - 1) * PageSize <= Len(rows) /\ (next - 1) * PageSize \in Nat
        BY <4>1, PagesFit
      <4> QED BY <4>1, <4>2
    <3> QED BY <3>1, <3>2
  <2>3. PICK s \in Seq(OfTab(tab)) : s = SubSeq(rows, 1, b) /\ Len(s) = b
    BY <2>2, SubSeqProperties
  <2>4. SubSeq(s, 1, b) = s
    BY <2>3, RowsFollow
  <2> QED BY <1>2, <2>1, <2>2, <2>3, <2>4 DEF List!IsPrefix, SteadyInv
<1> QED BY <1>1, <1>2 DEF List!ListAgrees, List!FirstOfTab

----------------------------------------------------------------------------
(* The screens together.                                                   *)

ScreensInv ==
  /\ LoginInv /\ HomeInv
  /\ PinInv /\ TextInv /\ layers \in Seq(Screens) /\ BackInv
  /\ MapInv /\ RouteInv
  /\ ListInv /\ SteadyInv

\* The pages of the customer, for any number of places, texts, trips, callers and answers
\* on their way: a trip is booked at its own fare, the address above the button is the
\* pin's, results are the text's, back closes the screens in their order, what is on the
\* map survives the change of maps, the cards are those of the tab, and nobody leaves the
\* sign-in page who is not signed in and named (home.js, places.js, mobmap.js, trips.html
\* and login.html).
THEOREM ScreensFollow == Spec => []ScreensAgree
<1>1. Init => ScreensInv
  BY LoginInit, HomeInit, PickInit, OverInit, ListInit DEF ScreensInv
<1>2. ScreensInv /\ [Next]_vars => ScreensInv'
  BY LoginKept, HomeKept, PickKept, OverKept, ListKept DEF ScreensInv
<1>3. ScreensInv => ScreensAgree
  BY PickImplied, OverImplied, ListImplied DEF ScreensInv, ScreensAgree, LoginInv, HomeInv, Login!LoginHolds
<1> QED BY <1>1, <1>2, <1>3, PTL DEF Spec
=============================================================================
