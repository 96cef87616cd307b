--------------------------- MODULE Booking_proofs ---------------------------
(***************************************************************************)
(* What the server promises its customers, for any number of servers,      *)
(* codes, addresses and requests.                                          *)
(***************************************************************************)
EXTENDS Booking, Recursion_proofs, FiniteSetTheorems, SequenceTheorems, TLAPS

\* A step of the customer's side is one of the codes or leaves them alone.
LEMMA CodesStep == [Next]_vars => Code!Next \/ UNCHANGED codes
BY DEF Next, vars, server, phone, ServerStep, PhoneStep, Tracking

----------------------------------------------------------------------------
(* The ways to count the servers.                                          *)

Below == 0 .. MaxTries - 1
N     == Cardinality(Servers)

\* Counting means the same in the part.
LEMMA CountsAgree == \A S : Code!Cardinality(S) = Cardinality(S)
BY DEF Cardinality, IsFiniteSet, Code!Cardinality, Code!IsFiniteSet

\* f makes the first count in which the two differ smaller.
Less(f, g) == \E j \in Below : f[j] < g[j] /\ \A i \in Below : i < j => f[i] <= g[i]

Above(f) == {g \in Code!Counts : Less(f, g)}

\* A way to count is a count for every number of tries, none falling.
LEMMA CountsType ==
  /\ N \in Nat
  /\ Code!Counts = {f \in [Below -> 0 .. N] : \A i, j \in Below : i <= j => f[i] <= f[j]}
<1>1. N \in Nat
  BY ServersAssumption, FS_CardinalityType DEF N
<1>2. \A f \in [Below -> 0 .. N] : DOMAIN f = Below
  OBVIOUS
<1> QED BY <1>1, <1>2, CountsAgree DEF Code!Counts, Below, N

\* There are finitely many ways to count: each is the set of its pairs.
LEMMA CountsFinite == IsFiniteSet(Code!Counts)
<1> DEFINE F == [Below -> 0 .. N]
           P == SUBSET (Below \X (0 .. N))
           pairs == [f \in F |-> {q \in Below \X (0 .. N) : q[2] = f[q[1]]}]
<1>1. N \in Nat /\ MaxTries \in Nat \ {0}
  BY CountsType, LimitsAssumption
<1>2. IsFiniteSet(Below) /\ IsFiniteSet(0 .. N)
  BY <1>1, FS_Interval DEF Below
<1>3. IsFiniteSet(P)
  BY <1>2, FS_Product, FS_SUBSET
<1>4. pairs \in Injection(F, P)
  <2>1. pairs \in [F -> P]
    OBVIOUS
  <2>2. ASSUME NEW f \in F, NEW g \in F, pairs[f] = pairs[g] PROVE f = g
    <3>1. ASSUME NEW j \in Below PROVE f[j] = g[j]
      <4>1. <<j, f[j]>> \in pairs[f]
        OBVIOUS
      <4>2. <<j, f[j]>> \in pairs[g]
        BY <4>1, <2>2
      <4> QED BY <4>2
    <3> QED BY <3>1
  <2> QED BY <2>1, <2>2 DEF Injection, IsInjective
<1>5. IsFiniteSet(F)
  <2> HIDE DEF F, P, pairs
  <2> QED BY <1>3, <1>4, FS_Injection
<1>6. Code!Counts \in SUBSET F
  BY CountsType
<1> QED BY <1>5, <1>6, FS_Subset

\* There are fewer ways above one than there are.
LEMMA AboveIsBounded ==
  ASSUME NEW f \in Code!Counts
  PROVE  /\ IsFiniteSet(Above(f)) /\ Cardinality(Above(f)) \in Nat
         /\ Cardinality(Above(f)) <= Cardinality(Code!Counts) - 1
<1>1. f \notin Above(f)
  <2>1. ASSUME NEW j \in Below PROVE ~(f[j] < f[j])
    BY CountsType
  <2> QED BY <2>1 DEF Above, Less
<1>2. Above(f) \in SUBSET (Code!Counts \ {f})
  BY <1>1 DEF Above
<1>3. IsFiniteSet(Code!Counts \ {f}) /\ Cardinality(Code!Counts \ {f}) = Cardinality(Code!Counts) - 1
  BY CountsFinite, FS_RemoveElement
<1>4. IsFiniteSet(Above(f)) /\ Cardinality(Above(f)) <= Cardinality(Code!Counts \ {f})
  BY <1>2, <1>3, FS_Subset
<1> QED BY <1>3, <1>4, FS_CardinalityType

\* A smaller way has as many above it.
LEMMA AboveGrows ==
  ASSUME NEW f \in Code!Counts, NEW h \in Code!Counts, \A j \in Below : h[j] <= f[j]
  PROVE  Cardinality(Above(f)) <= Cardinality(Above(h))
<1>1. \A g \in [Below -> 0 .. N] : \A j \in Below : g[j] \in Int
  BY CountsType
<1>2. ASSUME NEW g \in Code!Counts, Less(f, g) PROVE Less(h, g)
  <2>1. f \in [Below -> 0 .. N] /\ g \in [Below -> 0 .. N] /\ h \in [Below -> 0 .. N]
    BY CountsType
  <2> QED BY <1>1, <1>2, <2>1 DEF Less
<1>3. Above(f) \in SUBSET Above(h)
  BY <1>2 DEF Above
<1> QED BY <1>3, AboveIsBounded, FS_Subset

\* One that comes before it in the order has one more.
LEMMA AboveGrowsByOne ==
  ASSUME NEW f \in Code!Counts, NEW h \in Code!Counts, Less(h, f)
  PROVE  Cardinality(Above(f)) + 1 <= Cardinality(Above(h))
<1>1. /\ f \in [Below -> 0 .. N] /\ h \in [Below -> 0 .. N]
      /\ \A g \in [Below -> 0 .. N] : \A j \in Below : g[j] \in Int
  BY CountsType
<1>2. ASSUME NEW g \in Code!Counts, Less(f, g) PROVE Less(h, g)
  <2>1. g \in [Below -> 0 .. N]
    BY CountsType
  <2>2. PICK j \in Below : h[j] < f[j] /\ \A i \in Below : i < j => h[i] <= f[i]
    BY DEF Less
  <2>3. PICK l \in Below : f[l] < g[l] /\ \A i \in Below : i < l => f[i] <= g[i]
    BY <1>2 DEF Less
  <2>4. j \in Int /\ l \in Int
    BY DEF Below
  <2>5. CASE j <= l
    <3>1. h[j] < g[j]
      BY <1>1, <2>1, <2>2, <2>3, <2>4, <2>5
    <3>2. \A i \in Below : i < j => h[i] <= g[i]
      <4>1. \A i \in Below : i \in Int /\ h[i] \in Int /\ f[i] \in Int /\ g[i] \in Int
        BY <1>1, <2>1 DEF Below
      <4> QED BY <4>1, <2>2, <2>3, <2>4, <2>5
    <3> QED BY <3>1, <3>2 DEF Less
  <2>6. CASE l < j
    <3>1. h[l] < g[l]
      BY <1>1, <2>1, <2>2, <2>3, <2>4, <2>6
    <3>2. \A i \in Below : i < l => h[i] <= g[i]
      <4>1. \A i \in Below : i \in Int /\ h[i] \in Int /\ f[i] \in Int /\ g[i] \in Int
        BY <1>1, <2>1 DEF Below
      <4> QED BY <4>1, <2>2, <2>3, <2>4, <2>6
    <3> QED BY <3>1, <3>2 DEF Less
  <2> QED BY <2>4, <2>5, <2>6
<1>3. Above(f) \union {f} \in SUBSET Above(h) /\ f \notin Above(f)
  <2>1. \A j \in Below : ~(f[j] < f[j])
    BY <1>1
  <2> QED BY <1>2, <2>1 DEF Above, Less
<1>4. Cardinality(Above(f) \union {f}) = Cardinality(Above(f)) + 1
  BY <1>3, AboveIsBounded, FS_AddElement
<1>5. Cardinality(Above(f) \union {f}) <= Cardinality(Above(h))
  BY <1>3, AboveIsBounded, FS_Subset
<1> QED BY <1>4, <1>5

----------------------------------------------------------------------------
(* The codes.                                                              *)

Answers == [id : 1 .. sent, tries : 0 .. MaxTries]

\* A server holds a copy of a code that was sent, or lets in with one.
CodesTyped ==
  /\ sent \in 0 .. MaxSent /\ code \in Answers \union {Code!None}
  /\ wrong \in [Code!Codes -> Nat] /\ used \in [Code!Codes -> Nat]
  /\ DOMAIN verify = Servers
  /\ \A s \in Servers :
       \/ verify[s] = Code!Ready
       \/ /\ verify[s].op = "compare" /\ verify[s].copy \in Answers /\ verify[s].typed \in Nat
          /\ verify[s] = [op |-> "compare", copy |-> verify[s].copy, typed |-> verify[s].typed]
       \/ /\ verify[s].op = "enter" /\ verify[s].id \in 1 .. sent
          /\ verify[s] = [op |-> "enter", id |-> verify[s].id]
  /\ \A c \in Code!Codes : c > sent => wrong[c] = 0 /\ used[c] = 0

Holds(s, c) == verify[s].op = "compare" /\ verify[s].copy.id = c

\* The servers that can go on with code c from j wrong answers or fewer, and their number.
From(c, j) ==
  {s \in Servers : (code.id = c /\ code.tries <= j) \/ (Holds(s, c) /\ verify[s].copy.tries <= j)}
Way(c) == [j \in Below |-> Cardinality(From(c, j))]

\* The guesses a code has answered are ways to count that it will not come back to.
GuessesInv == \A c \in Code!Codes : wrong[c] <= Cardinality(Above(Way(c)))

\* One request at a time: the server that has a copy has what the cache has.
SingleInv ==
  single =>
    /\ \A s, v \in Servers : verify[s] = Code!Ready \/ verify[v] = Code!Ready \/ s = v
    /\ code.id \in {0, sent}
    /\ \A s \in Servers : /\ verify[s].op = "compare" => verify[s].copy.id = sent /\ code \in {Code!None, verify[s].copy}
                          /\ verify[s].op = "enter" => code = Code!None /\ used[verify[s].id] = 0
    /\ \A c \in Code!Codes :
         /\ wrong[c] <= MaxTries
         /\ code.id = c => wrong[c] <= code.tries /\ used[c] = 0
         /\ \A s \in Servers : Holds(s, c) => wrong[c] <= verify[s].copy.tries /\ used[c] = 0
         /\ used[c] <= 1

CodesInv == CodesTyped /\ GuessesInv /\ SingleInv

\* The way a code stands in is one of the ways.
LEMMA WayIsCounted == CodesTyped => \A c \in Code!Codes : Way(c) \in Code!Counts
<1> SUFFICES ASSUME CodesTyped, NEW c \in Code!Codes PROVE Way(c) \in Code!Counts
  OBVIOUS
<1>1. \A j \in Below : From(c, j) \in SUBSET Servers
  BY DEF From
<1>2. \A j \in Below : IsFiniteSet(From(c, j)) /\ Cardinality(From(c, j)) \in 0 .. N
  BY <1>1, ServersAssumption, CountsType, FS_Subset, FS_CardinalityType DEF N
<1>3. ASSUME NEW i \in Below, NEW j \in Below, i <= j PROVE Cardinality(From(c, i)) <= Cardinality(From(c, j))
  <2>1. /\ i \in Int /\ j \in Int
        /\ code.id = c => code.tries \in Int
        /\ \A s \in Servers : Holds(s, c) => verify[s].copy.tries \in Int
    BY DEF Below, CodesTyped, Answers, Code!None, Code!Ready, Holds
  <2>2. From(c, i) \in SUBSET From(c, j)
    BY <1>3, <2>1 DEF From
  <2> QED BY <1>2, <2>2, FS_Subset
<1> QED BY <1>2, <1>3, CountsType DEF Way

\* And so does the way it stands in next.
LEMMA WayIsCountedNext == (CodesTyped => \A c \in Code!Codes : Way(c) \in Code!Counts)'
BY WayIsCounted, PTL

\* No more servers than before can go on with the code.
LEMMA WayShrinks ==
  ASSUME CodesTyped, CodesTyped', NEW c \in Code!Codes,
         \A j \in Below : From(c, j)' \subseteq From(c, j)
  PROVE  Cardinality(Above(Way(c))) <= Cardinality(Above(Way(c)))'
<1>1. PICK f : f = Way(c)
  OBVIOUS
<1>2. PICK h : h = Way(c)'
  OBVIOUS
<1>3. Above(Way(c)) = Above(f) /\ Above(Way(c))' = Above(h)
  BY <1>1, <1>2 DEF Above, Less
<1>4. f \in Code!Counts
  BY <1>1, WayIsCounted
<1>5. h \in Code!Counts
  BY <1>2, WayIsCountedNext
<1>6. ASSUME NEW j \in Below PROVE h[j] <= f[j]
  <2>1. From(c, j)' \in SUBSET From(c, j)
    OBVIOUS
  <2>2. From(c, j) \in SUBSET Servers
    BY DEF From
  <2>3. IsFiniteSet(From(c, j)) /\ Cardinality(From(c, j)') <= Cardinality(From(c, j))
    BY <2>1, <2>2, ServersAssumption, FS_Subset
  <2>4. f[j] = Cardinality(From(c, j)) /\ h[j] = Cardinality(From(c, j)')
    BY <1>1, <1>2 DEF Way
  <2> QED BY <2>3, <2>4
<1>7. Cardinality(Above(f)) <= Cardinality(Above(h))
  BY <1>4, <1>5, <1>6, AboveGrows
<1> QED BY <1>3, <1>7

\* No guess, and no more servers than before: the bound stands.
LEMMA NoGuess ==
  ASSUME CodesTyped, CodesTyped', GuessesInv, NEW c \in Code!Codes, wrong'[c] = wrong[c],
         \A j \in Below : From(c, j)' \subseteq From(c, j)
  PROVE  wrong'[c] <= Cardinality(Above(Way(c)))'
<1>1. wrong[c] <= Cardinality(Above(Way(c))) /\ wrong[c] \in Nat
  BY DEF GuessesInv, CodesTyped
<1>2. Cardinality(Above(Way(c))) <= Cardinality(Above(Way(c)))'
  BY WayShrinks
<1>3. Cardinality(Above(Way(c))) \in Nat
  BY WayIsCounted, AboveIsBounded
<1>4. Cardinality(Above(Way(c)))' \in Nat
  <2>1. PICK h : h = Way(c)'
    OBVIOUS
  <2>2. Above(Way(c))' = Above(h) /\ h \in Code!Counts
    BY <2>1, WayIsCountedNext DEF Above, Less
  <2> QED BY <2>2, AboveIsBounded
<1> QED BY <1>1, <1>2, <1>3, <1>4

\* The records of the requests.
LEMMA CodesTypedStep == CodesTyped /\ Code!Next => CodesTyped'
<1> SUFFICES ASSUME CodesTyped, Code!Next PROVE CodesTyped'
  OBVIOUS
<1> USE LimitsAssumption, BoundsAssumption DEF CodesTyped, Code!Codes
<1>1. CASE Code!RequestOtp
  BY <1>1 DEF Code!RequestOtp, Answers, Code!None
<1>2. CASE Code!ThrottleExpires \/ Code!SwitchCompany
  BY <1>2 DEF Code!ThrottleExpires, Code!SwitchCompany, Answers
<1>3. CASE Code!CodeExpires
  BY <1>3 DEF Code!CodeExpires, Answers
<1>4. ASSUME NEW s \in Servers, NEW t \in 0 .. sent, Code!VerifyFetch(s, t) PROVE CodesTyped'
  BY <1>4 DEF Code!VerifyFetch, Answers, Code!None
<1>5. ASSUME NEW s \in Servers, Code!VerifyTooMany(s) PROVE CodesTyped'
  BY <1>5 DEF Code!VerifyTooMany, Code!Answer, Answers
<1>6. ASSUME NEW s \in Servers, Code!VerifyWrong(s) PROVE CodesTyped'
  <2>1. PICK c \in 1 .. sent, t \in 0 .. MaxTries - 1 : verify[s].copy = [id |-> c, tries |-> t]
    BY <1>6 DEF Code!VerifyWrong, Code!TooMany, Code!Ready, Answers
  <2>2. code' = [id |-> c, tries |-> t + 1]
    BY <1>6, <2>1 DEF Code!VerifyWrong
  <2>3. code' \in Answers
    BY <2>2 DEF Answers
  <2>4. wrong' = [wrong EXCEPT ![c] = @ + 1] /\ c \in Code!Codes
    BY <1>6, <2>1 DEF Code!VerifyWrong
  <2>5. wrong' \in [Code!Codes -> Nat] /\ \A d \in Code!Codes : d > sent => wrong'[d] = 0
    BY <2>1, <2>4
  <2>6. sent' = sent /\ used' = used /\ verify' = [verify EXCEPT ![s] = Code!Ready]
    BY <1>6 DEF Code!VerifyWrong, Code!Answer
  <2> QED BY <2>3, <2>5, <2>6 DEF Answers
<1>7. ASSUME NEW s \in Servers, Code!VerifyRight(s) PROVE CodesTyped'
  <2>1. verify[s].copy.id \in 1 .. sent
    BY <1>7 DEF Code!VerifyRight, Code!Ready, Answers
  <2> QED BY <1>7, <2>1 DEF Code!VerifyRight, Answers
<1>8. ASSUME NEW s \in Servers, Code!Enter(s) PROVE CodesTyped'
  <2>1. verify[s].id \in 1 .. sent
    BY <1>8 DEF Code!Enter, Code!Ready
  <2>2. /\ used' \in [Code!Codes -> Nat] /\ \A c \in Code!Codes : c > sent => used'[c] = 0
    <3>1. used' = used \/ used' = [used EXCEPT ![verify[s].id] = @ + 1]
      BY <1>8 DEF Code!Enter
    <3>2. verify[s].id \in Code!Codes /\ verify[s].id <= sent
      BY <2>1
    <3>3. CASE used' = used
      BY <3>3
    <3>4. CASE used' = [used EXCEPT ![verify[s].id] = @ + 1]
      BY <3>2, <3>4
    <3> QED BY <3>1, <3>3, <3>4
  <2> QED BY <1>8, <2>2 DEF Code!Enter, Code!Answer, Answers
<1>9. ASSUME NEW s \in Servers, Code!Die(s) PROVE CodesTyped'
  BY <1>9 DEF Code!Die, Code!Answer, Answers
<1> QED BY <1>1, <1>2, <1>3, <1>4, <1>5, <1>6, <1>7, <1>8, <1>9 DEF Code!Next

\* A wrong answer makes the first count that it changes smaller: no server goes on from
\* where this one did, or the code in the cache, did.
LEMMA GuessMakesLess ==
  ASSUME CodesTyped, CodesTyped', NEW s \in Servers, NEW c, c = verify[s].copy.id, Code!VerifyWrong(s)
  PROVE  Less(Way(c)', Way(c))
<1>1. PICK t : t = verify[s].copy.tries
  OBVIOUS
<1>2. /\ c \in Code!Codes /\ t \in 0 .. MaxTries - 1 /\ Holds(s, c)
      /\ code' = [id |-> c, tries |-> t + 1] /\ verify' = [verify EXCEPT ![s] = Code!Ready]
  <2>1. verify[s].copy \in Answers /\ verify[s].copy.tries < MaxTries /\ verify[s].op = "compare"
    BY LimitsAssumption DEF CodesTyped, Code!VerifyWrong, Code!TooMany, Code!Ready, Answers
  <2>2. verify[s].copy = [id |-> c, tries |-> t] /\ c \in 1 .. sent /\ t \in 0 .. MaxTries - 1
    BY <1>1, <2>1, LimitsAssumption DEF Answers
  <2>3. c \in Code!Codes
    BY <2>2, BoundsAssumption DEF CodesTyped, Code!Codes
  <2> QED BY <1>1, <2>1, <2>2, <2>3 DEF Code!VerifyWrong, Code!Answer, Holds
<1>3. \A v \in Servers : Holds(v, c)' <=> Holds(v, c) /\ v # s
  BY <1>2 DEF Holds, Code!Ready, CodesTyped
<1>4. \A v \in Servers : v # s => verify'[v] = verify[v]
  BY <1>2 DEF CodesTyped
<1>5. /\ code.id = c => code.tries \in Nat
      /\ \A v \in Servers : Holds(v, c) => verify[v].copy.tries \in Nat
  BY <1>2 DEF CodesTyped, Answers, Code!None, Code!Codes, Holds, Code!Ready
<1>0. PICK k : k = IF code.id = c /\ code.tries < t THEN code.tries ELSE t
  OBVIOUS
<1>6. k \in Below /\ k <= t /\ (code.id = c => code.tries <= k \/ k = t)
  BY <1>0, <1>2, <1>5, LimitsAssumption DEF Below
<1>7. From(c, k)' \subseteq From(c, k) \ {s} /\ s \in From(c, k)
  <2>1. s \in From(c, k)
    BY <1>0, <1>1, <1>2, <1>5, <1>6 DEF From, Below
  <2>2. ~(code'.tries <= k)
    BY <1>2, <1>6 DEF Below
  <2>3. From(c, k)' = {v \in Servers : Holds(v, c)' /\ verify'[v].copy.tries <= k}
    BY <2>2 DEF From
  <2> QED BY <1>3, <1>4, <2>1, <2>3 DEF From
<1>8. \A i \in Below : i < k => From(c, i)' \subseteq From(c, i)
  BY <1>1, <1>2, <1>3, <1>4, <1>5, <1>6 DEF From, Below
<1>9. \A i \in Below : IsFiniteSet(From(c, i)) /\ Cardinality(From(c, i)) \in Nat
  <2>1. \A i \in Below : From(c, i) \in SUBSET Servers
    BY DEF From
  <2> QED BY <2>1, ServersAssumption, FS_Subset, FS_CardinalityType
<1>10. Cardinality(From(c, k)') < Cardinality(From(c, k))
  <2>1. Cardinality(From(c, k) \ {s}) = Cardinality(From(c, k)) - 1 /\ IsFiniteSet(From(c, k) \ {s})
    BY <1>6, <1>7, <1>9, FS_RemoveElement
  <2>2. Cardinality(From(c, k)') <= Cardinality(From(c, k) \ {s}) /\ Cardinality(From(c, k)') \in Nat
    <3>1. From(c, k)' \in SUBSET (From(c, k) \ {s})
      BY <1>7
    <3> QED BY <2>1, <3>1, FS_Subset, FS_CardinalityType
  <2> QED BY <1>6, <1>9, <2>1, <2>2
<1>11. \A i \in Below : i < k => Cardinality(From(c, i)') <= Cardinality(From(c, i))
  BY <1>8, <1>9, FS_Subset
<1> QED
  <2>1. PICK f, h : f = Way(c) /\ h = Way(c)'
    OBVIOUS
  <2>2. \A i \in Below : f[i] = Cardinality(From(c, i)) /\ h[i] = Cardinality(From(c, i)')
    BY <2>1 DEF Way
  <2>3. Less(h, f)
    BY <1>6, <1>10, <1>11, <2>2 DEF Less
  <2> QED BY <2>1, <2>3

\* Each action: either no guess, or one that the order has room for.
LEMMA GuessesStep == CodesTyped /\ GuessesInv /\ Code!Next => GuessesInv'
<1> SUFFICES ASSUME CodesTyped, GuessesInv, Code!Next, NEW c \in Code!Codes
             PROVE  wrong'[c] <= Cardinality(Above(Way(c)))'
  BY DEF GuessesInv, Code!Codes
<1>0. CodesTyped'
  BY CodesTypedStep
<1>1. CASE Code!RequestOtp
  <2>1. CASE c = sent + 1
    <3>1. PICK h : h = Way(c)'
      OBVIOUS
    <3>2. Above(Way(c))' = Above(h) /\ h \in Code!Counts
      BY <1>0, <3>1, WayIsCountedNext DEF Above, Less
    <3>3. wrong'[c] = 0
      BY <1>1, <2>1 DEF Code!RequestOtp, CodesTyped
    <3> QED BY <3>2, <3>3, AboveIsBounded
  <2>2. CASE c # sent + 1
    BY <1>0, <1>1, <2>2, NoGuess DEF Code!RequestOtp, From, Holds
  <2> QED BY <2>1, <2>2
<1>2. CASE Code!ThrottleExpires \/ Code!SwitchCompany
  BY <1>0, <1>2, NoGuess DEF Code!ThrottleExpires, Code!SwitchCompany, From, Holds
<1>3. CASE Code!CodeExpires
  BY <1>0, <1>3, NoGuess DEF Code!CodeExpires, From, Holds, Code!None, Code!Codes
<1>4. ASSUME NEW s \in Servers, NEW t \in 0 .. sent, Code!VerifyFetch(s, t)
      PROVE  wrong'[c] <= Cardinality(Above(Way(c)))'
  <2>1. \A j \in Below : From(c, j)' \subseteq From(c, j)
    BY <1>4 DEF Code!VerifyFetch, From, Holds, CodesTyped
  <2> QED BY <1>0, <1>4, <2>1, NoGuess DEF Code!VerifyFetch
<1>5. ASSUME NEW s \in Servers, Code!VerifyTooMany(s) PROVE wrong'[c] <= Cardinality(Above(Way(c)))'
  <2>1. \A j \in Below : From(c, j)' \subseteq From(c, j)
    BY <1>5 DEF Code!VerifyTooMany, Code!Answer, Code!Ready, Code!None, Code!Codes, From, Holds, CodesTyped
  <2> QED BY <1>0, <1>5, <2>1, NoGuess DEF Code!VerifyTooMany
<1>6. ASSUME NEW s \in Servers, Code!VerifyWrong(s) PROVE wrong'[c] <= Cardinality(Above(Way(c)))'
  <2>1. CASE verify[s].copy.id = c
    <3>1. PICK f, h : f = Way(c) /\ h = Way(c)'
      OBVIOUS
    <3>2. f \in Code!Counts /\ h \in Code!Counts
      BY <1>0, <3>1, WayIsCounted, WayIsCountedNext
    <3>3. Less(h, f)
      BY <1>0, <1>6, <2>1, <3>1, GuessMakesLess
    <3>4. Cardinality(Above(f)) + 1 <= Cardinality(Above(h))
      BY <3>2, <3>3, AboveGrowsByOne
    <3>5. wrong[c] <= Cardinality(Above(f)) /\ Above(Way(c))' = Above(h)
      BY <3>1 DEF GuessesInv, Above, Less
    <3>6. wrong'[c] = wrong[c] + 1 /\ wrong[c] \in Nat
      BY <1>6, <2>1 DEF Code!VerifyWrong, CodesTyped
    <3>7. Cardinality(Above(f)) \in Nat /\ Cardinality(Above(h)) \in Nat
      BY <3>2, AboveIsBounded
    <3> QED BY <3>4, <3>5, <3>6, <3>7
  <2>2. CASE verify[s].copy.id # c
    <3>1. code'.id # c
      BY <1>6, <2>2 DEF Code!VerifyWrong, CodesTyped, Code!Ready, Answers
    <3>2. \A j \in Below : From(c, j)' \subseteq From(c, j)
      BY <1>6, <3>1 DEF Code!VerifyWrong, Code!Answer, Code!Ready, From, Holds, CodesTyped
    <3>3. wrong'[c] = wrong[c]
      BY <1>6, <2>2 DEF Code!VerifyWrong, CodesTyped
    <3> QED BY <1>0, <3>2, <3>3, NoGuess
  <2> QED BY <2>1, <2>2
<1>7. ASSUME NEW s \in Servers, Code!VerifyRight(s) PROVE wrong'[c] <= Cardinality(Above(Way(c)))'
  <2>1. \A j \in Below : From(c, j)' \subseteq From(c, j)
    BY <1>7 DEF Code!VerifyRight, Code!None, Code!Codes, From, Holds, CodesTyped
  <2> QED BY <1>0, <1>7, <2>1, NoGuess DEF Code!VerifyRight
<1>8. ASSUME NEW s \in Servers, Code!Enter(s) PROVE wrong'[c] <= Cardinality(Above(Way(c)))'
  <2>1. \A j \in Below : From(c, j)' \subseteq From(c, j)
    BY <1>8 DEF Code!Enter, Code!Answer, Code!Ready, From, Holds, CodesTyped
  <2> QED BY <1>0, <1>8, <2>1, NoGuess DEF Code!Enter
<1>9. ASSUME NEW s \in Servers, Code!Die(s) PROVE wrong'[c] <= Cardinality(Above(Way(c)))'
  <2>1. \A j \in Below : From(c, j)' \subseteq From(c, j)
    BY <1>9 DEF Code!Die, Code!Answer, Code!Ready, From, Holds, CodesTyped
  <2> QED BY <1>0, <1>9, <2>1, NoGuess DEF Code!Die
<1> QED BY <1>1, <1>2, <1>3, <1>4, <1>5, <1>6, <1>7, <1>8, <1>9 DEF Code!Next

\* A request that ends, the code as it was or gone, leaves no copy.
LEMMA NoneHeld ==
  ASSUME CodesTyped, SingleInv, single, UNCHANGED <<sent, used, wrong, single>>, code' \in {code, Code!None},
         \A v \in Servers : verify'[v] = Code!Ready
  PROVE  SingleInv'
<1>1. \A v \in Servers : verify'[v].op # "compare" /\ verify'[v].op # "enter"
  BY DEF Code!Ready
<1>2. \A c \in Code!Codes : code'.id = c => code.id = c /\ code' = code
  BY DEF Code!None, Code!Codes
<1>3. code'.id \in {0, sent}
  BY DEF SingleInv, Code!None
<1> QED BY <1>1, <1>2, <1>3 DEF SingleInv, Holds, Code!Codes

\* One request at a time.
LEMMA SingleStep == CodesTyped /\ SingleInv /\ Code!Next => SingleInv'
<1> SUFFICES ASSUME CodesTyped, SingleInv, Code!Next, single PROVE SingleInv'
  BY DEF SingleInv, Code!Next, Code!RequestOtp, Code!ThrottleExpires, Code!CodeExpires, Code!SwitchCompany,
    Code!VerifyFetch, Code!VerifyTooMany, Code!VerifyWrong, Code!VerifyRight, Code!Enter, Code!Die
<1> USE LimitsAssumption, BoundsAssumption DEF CodesTyped, SingleInv, Holds
<1>1. CASE Code!RequestOtp
  BY <1>1 DEF Code!RequestOtp, Code!Ready, Code!Codes
<1>2. CASE Code!ThrottleExpires \/ Code!SwitchCompany
  BY <1>2 DEF Code!ThrottleExpires, Code!SwitchCompany
<1>3. CASE Code!CodeExpires
  BY <1>3 DEF Code!CodeExpires, Code!None, Code!Codes
<1>4. ASSUME NEW s \in Servers, NEW t \in 0 .. sent, Code!VerifyFetch(s, t) PROVE SingleInv'
  BY <1>4 DEF Code!VerifyFetch, Code!Ready, Code!None, Answers
<1>5. ASSUME NEW s \in Servers, Code!VerifyTooMany(s) PROVE SingleInv'
  <2>1. verify' = [verify EXCEPT ![s] = Code!Ready] /\ code' = Code!None /\ UNCHANGED <<sent, used, wrong, single>>
    BY <1>5 DEF Code!VerifyTooMany, Code!Answer
  <2>2. \A v \in Servers : verify'[v] = Code!Ready
    BY <1>5, <2>1 DEF Code!VerifyTooMany, Code!Ready
  <2> QED BY <2>1, <2>2, NoneHeld
<1>6. ASSUME NEW s \in Servers, Code!VerifyWrong(s) PROVE SingleInv'
  <2>1. PICK c \in 1 .. sent, t \in 0 .. MaxTries - 1 : verify[s].copy = [id |-> c, tries |-> t]
    BY <1>6 DEF Code!VerifyWrong, Code!TooMany, Code!Ready, Answers
  <2>2. /\ code' = [id |-> c, tries |-> t + 1] /\ wrong' = [wrong EXCEPT ![c] = @ + 1]
        /\ verify' = [verify EXCEPT ![s] = Code!Ready] /\ UNCHANGED <<sent, used, single>>
        /\ verify[s].op = "compare" /\ verify[s] # Code!Ready
    BY <1>6, <2>1 DEF Code!VerifyWrong, Code!Answer, Code!Ready
  <2>3. c = sent /\ c \in Code!Codes /\ wrong[c] <= t /\ used[c] = 0
    BY <2>1, <2>2 DEF Code!Codes
  <2>4. \A v \in Servers : verify'[v] = Code!Ready
    BY <2>2
  <2>5. \A d \in Code!Codes : wrong'[d] = IF d = c THEN wrong[c] + 1 ELSE wrong[d]
    BY <2>2
  <2> QED BY <2>1, <2>2, <2>3, <2>4, <2>5 DEF Code!Ready
<1>7. ASSUME NEW s \in Servers, Code!VerifyRight(s) PROVE SingleInv'
  <2>1. PICK c \in 1 .. sent, t \in 0 .. MaxTries - 1 : verify[s].copy = [id |-> c, tries |-> t]
    BY <1>7 DEF Code!VerifyRight, Code!TooMany, Code!Ready, Answers
  <2>2. /\ code' = Code!None /\ verify' = [verify EXCEPT ![s] = [op |-> "enter", id |-> c]]
        /\ UNCHANGED <<sent, used, wrong, single>>
        /\ verify[s].op = "compare" /\ verify[s] # Code!Ready
    BY <1>7, <2>1 DEF Code!VerifyRight, Code!Ready
  <2>3. c \in Code!Codes /\ used[c] = 0
    BY <2>1, <2>2 DEF Code!Codes
  <2>4. \A v \in Servers : IF v = s THEN verify'[v] = [op |-> "enter", id |-> c] ELSE verify'[v] = Code!Ready
    BY <2>2
  <2> QED BY <2>1, <2>2, <2>3, <2>4 DEF Code!Ready, Code!None, Code!Codes
<1>8. ASSUME NEW s \in Servers, Code!Enter(s) PROVE SingleInv'
  <2>1. PICK c \in 1 .. sent : verify[s].id = c
    BY <1>8 DEF Code!Enter, Code!Ready
  <2>2. /\ verify' = [verify EXCEPT ![s] = Code!Ready] /\ UNCHANGED <<sent, code, wrong, single>>
        /\ used' = used \/ used' = [used EXCEPT ![c] = @ + 1]
        /\ verify[s].op = "enter" /\ verify[s] # Code!Ready
    BY <1>8, <2>1 DEF Code!Enter, Code!Answer, Code!Ready
  <2>3. code = Code!None /\ c \in Code!Codes /\ used[c] = 0
    BY <2>1, <2>2 DEF Code!Codes
  <2>4. \A v \in Servers : verify'[v] = Code!Ready
    BY <2>2
  <2>5. \A d \in Code!Codes : used'[d] <= 1
    BY <2>2, <2>3
  <2> QED BY <2>2, <2>3, <2>4, <2>5 DEF Code!Ready, Code!None, Code!Codes
<1>9. ASSUME NEW s \in Servers, Code!Die(s) PROVE SingleInv'
  <2>1. verify' = [verify EXCEPT ![s] = Code!Ready] /\ UNCHANGED <<sent, code, used, wrong, single>>
    BY <1>9 DEF Code!Die, Code!Answer
  <2>2. \A v \in Servers : verify'[v] = Code!Ready
    BY <1>9, <2>1 DEF Code!Die
  <2> QED BY <2>1, <2>2, NoneHeld
<1> QED BY <1>1, <1>2, <1>3, <1>4, <1>5, <1>6, <1>7, <1>8, <1>9 DEF Code!Next

\* No code and no request to begin with.
LEMMA CodesInit == Init => CodesInv
<1> SUFFICES ASSUME Init PROVE CodesInv
  OBVIOUS
<1>1. CodesTyped /\ SingleInv
  BY BoundsAssumption, LimitsAssumption DEF Init, Code!Init, CodesTyped, SingleInv, Holds, Code!None, Code!Ready, Code!Codes, Answers
<1>2. ASSUME NEW c \in Code!Codes PROVE wrong[c] <= Cardinality(Above(Way(c)))
  <2>1. wrong[c] = 0 /\ Cardinality(Above(Way(c))) \in Nat
    BY <1>1, WayIsCounted, AboveIsBounded DEF Init, Code!Init
  <2> QED BY <2>1
<1> QED BY <1>1, <1>2 DEF CodesInv, GuessesInv

\* The rest of the program leaves the codes alone.
LEMMA CodesKept == CodesInv /\ [Next]_vars => CodesInv'
<1>1. CodesInv /\ Code!Next => CodesInv'
  BY CodesTypedStep, GuessesStep, SingleStep DEF CodesInv
<1>2. ASSUME CodesInv, UNCHANGED codes PROVE CodesInv'
  <2>1. CodesTyped'
    BY <1>2 DEF codes, CodesInv, CodesTyped, Answers
  <2>2. \A c \in Code!Codes, j \in Below : From(c, j)' = From(c, j)
    BY <1>2 DEF codes, From, Holds
  <2>3. ASSUME NEW c \in Code!Codes PROVE wrong'[c] <= Cardinality(Above(Way(c)))'
    BY <1>2, <2>1, <2>2, NoGuess DEF codes, CodesInv
  <2>4. GuessesInv'
    BY <2>3 DEF GuessesInv, Code!Codes
  <2>5. SingleInv'
    BY <1>2 DEF codes, CodesInv, SingleInv, Holds
  <2> QED BY <2>1, <2>4, <2>5 DEF CodesInv
<1> QED BY <1>1, <1>2, CodesStep

\* Above one way there are all but that one.
LEMMA CodesImplied == CodesInv => CodesHold
<1> SUFFICES ASSUME CodesInv PROVE Code!CodesHold
  BY DEF CodesHold
<1>1. ASSUME NEW c \in Code!Codes PROVE wrong[c] <= Code!Guesses
  <2>1. CASE single
    BY <2>1 DEF CodesInv, SingleInv, Code!Guesses
  <2>2. CASE ~single
    <3>1. Cardinality(Above(Way(c))) \in Nat /\ Cardinality(Above(Way(c))) <= Cardinality(Code!Counts) - 1
      BY WayIsCounted, AboveIsBounded DEF CodesInv
    <3>2. Code!Guesses = Cardinality(Code!Counts) - 1 /\ Cardinality(Code!Counts) \in Nat
      BY <2>2, CountsAgree, CountsFinite, FS_CardinalityType DEF Code!Guesses
    <3>3. wrong[c] <= Cardinality(Above(Way(c))) /\ wrong[c] \in Nat
      BY DEF CodesInv, GuessesInv, CodesTyped
    <3> QED BY <3>1, <3>2, <3>3
  <2> QED BY <2>1, <2>2
<1> QED BY <1>1 DEF CodesInv, SingleInv, Code!CodesHold

\* verify_otp, any number of servers and any OTP_MAX_ATTEMPTS: a code answers fewer wrong
\* guesses than there are ways to count the servers that can still go on with it; while
\* requests do not overlap it answers OTP_MAX_ATTEMPTS, lets in once, and is the last sent.
THEOREM GuessesBounded == Spec => []CodesHold
BY CodesInit, CodesKept, CodesImplied, PTL DEF Spec

----------------------------------------------------------------------------
(* Whose a booking is.                                                     *)

Status    == Book!Cancellable \union Book!Final \union {"none", "in_progress"}
TripTyped == trip \in [status : Status, customer : BOOLEAN, voice : BOOLEAN]

\* A step of the customer's side is a booking's or leaves it alone.
LEMMA BookStep == [Next]_vars => Book!Next \/ UNCHANGED book
BY DEF Next, vars, server, phone, ServerStep, PhoneStep, Tracking

\* The trip starts where create_trip will find it.
LEMMA TripInit == Init => TripTyped
BY DEF Init, Book!Init, Book!Booked, TripTyped, Status

\* Every action leaves the trip in a status, and what was assigned once never searches.
LEMMA TripStep ==
  ASSUME TripTyped, [Next]_vars
  PROVE  /\ TripTyped'
         /\ trip.status \notin Book!Searching \union {"none"} => trip'.status \notin Book!Searching
<1> USE DEF TripTyped, Status, Book!Cancellable, Book!Searching, Book!Final
<1>1. ASSUME NEW left \in SUBSET {"customer", "voice"}, Book!Book(left)
      PROVE  trip.status = "none" /\ TripTyped'
  BY <1>1 DEF Book!Book, Book!Booked
<1>2. CASE Book!StoreCustomer \/ Book!StoreVoiceNote
  BY <1>2 DEF Book!StoreCustomer, Book!StoreVoiceNote
<1>3. CASE Book!Die \/ Book!CancelFetch
  BY <1>3 DEF Book!Die, Book!CancelFetch
<1>4. CASE Book!Advance
  BY <1>4 DEF Book!Advance, Book!After
<1>5. CASE Book!CancelWrite
  BY <1>5 DEF Book!CancelWrite
<1>6. CASE UNCHANGED book
  BY <1>6 DEF book
<1> QED BY <1>1, <1>2, <1>3, <1>4, <1>5, <1>6, BookStep DEF Book!Next

\* book and book_test_trip: create_trip has committed the trip before its customer and its
\* voice note are stored; whatever was done to it in between, those saves put nothing back
\* to the search for a driver.
THEOREM StoringUndoesNothing == Spec => BookingKept
<1>1. TripTyped /\ [Next]_vars => TripTyped'
  BY TripStep
<1>2. TripTyped /\ [Next]_vars
      => [trip.status \notin Book!Searching \union {"none"} => trip'.status \notin Book!Searching]_(Book!vars)
  BY TripStep
<1> QED BY <1>1, <1>2, TripInit, PTL DEF Spec, BookingKept, Book!BookingKept

----------------------------------------------------------------------------
(* The saved addresses.                                                    *)

\* A step of the customer's side is one of the saved addresses or leaves them alone.
LEMMA PlacesStep == [Next]_vars => Kept!Next \/ UNCHANGED places
BY DEF Next, vars, server, phone, ServerStep, PhoneStep, Tracking

\* Counting means the same there.
LEMMA RowsCount == \A S : Kept!Cardinality(S) = Cardinality(S)
BY DEF Cardinality, IsFiniteSet, Kept!Cardinality, Kept!IsFiniteSet

Requests == [op : {"idle"}] \union [op : {"count"}, kind : Kept!Kind, row : {Nothing}]
            \union [op : {"save"}, kind : Kept!Kind, row : Rows] \union [op : {"remove"}, row : Rows]

\* A request that is served, and that may still write a row.
Serving(s) == saving[s] # Kept!Ready
Writing(s) == saving[s].op = "save"

\* The addresses there are and those that will be.
Promised == Kept!Saved \union {saving[s].row : s \in {s \in Servers : Writing(s)}}

\* What a request that may be alone remembers of Home and Work is so.
Remembered(s) ==
  \A k \in {"home", "work"} :
    /\ saving[s].op = "count" /\ saving[s].kind = k => Kept!OfKind(k) = {}
    /\ saving[s].op = "save" /\ saving[s].kind = k => Kept!OfKind(k) \subseteq {saving[s].row}

AtMostOne(k) == \A a, b \in Kept!OfKind(k) : a = b

PlaceTypes ==
  /\ place \in [Rows -> Kept!Kind \union {Nothing}]
  /\ recast \in BOOLEAN /\ alone \in BOOLEAN
  /\ saving \in [Servers -> Requests]

PlacesInv ==
  /\ PlaceTypes
  /\ alone => \A s, v \in Servers : Serving(s) /\ Serving(v) => s = v
  /\ IsFiniteSet(Promised) /\ Cardinality(Promised) <= MaxPlaces + Kept!Overshoot
  /\ alone /\ ~recast => /\ \A k \in {"home", "work"} : AtMostOne(k)
                         /\ \A s \in Servers : Remembered(s)

\* At most Overshoot of the others write when a request is counted.
LEMMA OthersWrite ==
  ASSUME PlacesInv, NEW s \in Servers, Serving(s)
  PROVE  LET others == {saving[v].row : v \in {v \in Servers \ {s} : Writing(v)}}
         IN  IsFiniteSet(others) /\ Cardinality(others) <= Kept!Overshoot
<1> DEFINE W == {v \in Servers \ {s} : Writing(v)}
           others == {saving[v].row : v \in W}
<1>1. /\ IsFiniteSet(Servers \ {s}) /\ Cardinality(Servers \ {s}) = N - 1 /\ N \in Nat
      /\ IsFiniteSet(W) /\ Cardinality(W) <= N - 1
  <2>1. IsFiniteSet(Servers \ {s}) /\ Cardinality(Servers \ {s}) = N - 1 /\ N \in Nat
    BY ServersAssumption, FS_CardinalityType, FS_RemoveElement DEF N
  <2> QED BY <2>1, FS_Subset
<1>2. IsFiniteSet(others) /\ Cardinality(others) <= Cardinality(W) /\ Cardinality(others) \in Nat
  <2> DEFINE f == [v \in W |-> saving[v].row]
  <2>1. f \in Surjection(W, others)
    BY DEF Surjection
  <2> QED BY <1>1, <2>1, FS_Surjection, FS_CardinalityType
<1>3. alone => others = {}
  <2>1. ASSUME alone, NEW v \in Servers \ {s} PROVE ~Writing(v)
    BY <2>1 DEF PlacesInv, Serving, Writing, Kept!Ready
  <2> QED BY <2>1
<1>4. Kept!Overshoot = IF alone THEN 0 ELSE N - 1
  BY RowsCount DEF Kept!Overshoot, N
<1>5. Cardinality(W) \in Nat
  BY <1>1, FS_CardinalityType
<1> HIDE DEF W
<1>6. IsFiniteSet(others) /\ Cardinality(others) <= Kept!Overshoot
  <2> HIDE DEF others
  <2>1. alone => Cardinality(others) = 0
    BY <1>3, FS_EmptySet
  <2> QED BY <1>1, <1>2, <1>4, <1>5, <2>1
<1> QED BY <1>6 DEF W

\* The bound does not change, and is a number that is not negative while a server serves.
LEMMA OvershootStays ==
  /\ Kept!Overshoot \in Int
  /\ UNCHANGED alone => Kept!Overshoot' = Kept!Overshoot
<1>1. N \in Nat
  BY ServersAssumption, FS_CardinalityType DEF N
<1> QED BY <1>1, RowsCount DEF Kept!Overshoot, N

\* When no more rows are promised than before, the limit holds as before.
LEMMA FewerPromised ==
  ASSUME PlacesInv, UNCHANGED alone, Promised' \subseteq Promised
  PROVE  IsFiniteSet(Promised') /\ Cardinality(Promised') <= MaxPlaces + Kept!Overshoot'
<1>1. IsFiniteSet(Promised') /\ Cardinality(Promised') <= Cardinality(Promised)
  BY FS_Subset DEF PlacesInv
<1>2. Cardinality(Promised) \in Nat /\ Cardinality(Promised') \in Nat
  BY <1>1, FS_CardinalityType DEF PlacesInv
<1> QED BY <1>1, <1>2, OvershootStays, LimitsAssumption DEF PlacesInv

\* A server's request changes and the others' stay; alone, it is the one there is.
LEMMA RequestMoves ==
  ASSUME PlacesInv, NEW s \in Servers, NEW r \in Requests, saving' = [saving EXCEPT ![s] = r],
         UNCHANGED alone, place' \in [Rows -> Kept!Kind \union {Nothing}], recast' \in BOOLEAN,
         Serving(s) \/ (alone => \A v \in Servers : ~Serving(v))
  PROVE  /\ saving'[s] = r /\ \A v \in Servers \ {s} : saving'[v] = saving[v]
         /\ PlaceTypes'
         /\ (alone => \A u, v \in Servers : Serving(u) /\ Serving(v) => u = v)'
         /\ alone => \A v \in Servers \ {s} : ~Serving(v) /\ ~Serving(v)' /\ Remembered(v)'
<1>1. saving'[s] = r /\ \A v \in Servers \ {s} : saving'[v] = saving[v]
  BY DEF PlacesInv, PlaceTypes
<1>2. PlaceTypes'
  BY DEF PlacesInv, PlaceTypes
<1>3. alone => \A v \in Servers \ {s} : ~Serving(v) /\ ~Serving(v)'
  BY <1>1 DEF PlacesInv, Serving
<1>4. \A v \in Servers \ {s} : ~Serving(v)' => Remembered(v)'
  BY DEF Serving, Remembered, Kept!Ready
<1> QED BY <1>1, <1>2, <1>3, <1>4

\* What is promised when the rows stay: the row of the server that moves, and no other.
LEMMA PromisedMoves ==
  ASSUME NEW s \in Servers, \A v \in Servers \ {s} : saving'[v] = saving[v], UNCHANGED place
  PROVE  Promised' \subseteq Promised \union (IF Writing(s)' THEN {saving'[s].row} ELSE {})
<1>1. Kept!Saved' = Kept!Saved
  BY DEF Kept!Saved
<1> QED BY <1>1 DEF Promised, Writing

\* A request begins: it counts, it has read a row, or it will remove one.
LEMMA PlaceBegins ==
  ASSUME PlacesInv, NEW s \in Servers, NEW r \in Requests, Kept!Accept(s, r), UNCHANGED <<place, alone>>,
         recast' \in BOOLEAN, recast => recast', r.op # "idle",
         r.op = "save" => place[r.row] # Nothing,
         ~recast' => \A k \in {"home", "work"} :
             /\ r.op = "count" /\ r.kind = k => Kept!OfKind(k) = {}
             /\ r.op = "save" /\ r.kind = k => place[r.row] = k
  PROVE  PlacesInv'
<1>1. /\ saving' = [saving EXCEPT ![s] = r] /\ ~Serving(s)
      /\ alone => \A v \in Servers : ~Serving(v)
  BY DEF Kept!Accept, Serving
<1>2. /\ saving'[s] = r /\ \A v \in Servers \ {s} : saving'[v] = saving[v]
      /\ PlaceTypes'
      /\ (alone => \A u, v \in Servers : Serving(u) /\ Serving(v) => u = v)'
      /\ alone => \A v \in Servers \ {s} : Remembered(v)'
  BY <1>1, RequestMoves DEF PlacesInv, PlaceTypes
<1>3. Promised' \subseteq Promised
  <2>1. r.op = "save" => r.row \in Kept!Saved
    BY DEF Requests, Kept!Saved
  <2> QED BY <1>2, <2>1, PromisedMoves DEF Writing, Promised
<1>4. \A k : Kept!OfKind(k)' = Kept!OfKind(k)
  BY DEF Kept!OfKind
<1>5. ASSUME alone', ~recast' PROVE (\A k \in {"home", "work"} : AtMostOne(k))' /\ (\A v \in Servers : Remembered(v))'
  <2>1. alone /\ ~recast /\ \A k \in {"home", "work"} : AtMostOne(k)
    BY <1>5 DEF PlacesInv
  <2>2. Remembered(s)'
    <3> SUFFICES ASSUME NEW k \in {"home", "work"}, r.op = "save", r.kind = k PROVE Kept!OfKind(k) \subseteq {r.row}
      BY <1>2, <1>4, <1>5 DEF Remembered
    <3>1. place[r.row] = k /\ r.row \in Rows
      BY <1>5 DEF Requests
    <3>2. r.row \in Kept!OfKind(k)
      BY <3>1 DEF Kept!OfKind
    <3> QED BY <2>1, <3>2 DEF AtMostOne
  <2>3. \A k \in {"home", "work"} : AtMostOne(k)'
    BY <1>4, <2>1 DEF AtMostOne
  <2> QED BY <1>2, <2>1, <2>2, <2>3
<1> QED BY <1>2, <1>3, <1>5, FewerPromised DEF PlacesInv

\* A request ends: nothing was written, or only what it said.
LEMMA PlaceEnds ==
  ASSUME PlacesInv, NEW s \in Servers, Kept!Answer(s), Serving(s), UNCHANGED <<recast, alone>>,
         \/ UNCHANGED place
         \/ Writing(s) /\ place' = [place EXCEPT ![saving[s].row] = saving[s].kind]
         \/ \E row : place' = [place EXCEPT ![row] = Nothing]
  PROVE  PlacesInv'
<1>1. /\ saving' = [saving EXCEPT ![s] = Kept!Ready] /\ Kept!Ready \in Requests
      /\ Writing(s) => saving[s].row \in Rows /\ saving[s].kind \in Kept!Kind
  <2>1. saving[s] \in Requests
    BY DEF PlacesInv, PlaceTypes
  <2> QED BY <2>1 DEF Kept!Answer, Kept!Ready, Requests, Writing
<1>2. place' \in [Rows -> Kept!Kind \union {Nothing}]
  BY <1>1 DEF PlacesInv, PlaceTypes
<1>3. /\ saving'[s] = Kept!Ready /\ \A v \in Servers \ {s} : saving'[v] = saving[v]
      /\ PlaceTypes'
      /\ (alone => \A u, v \in Servers : Serving(u) /\ Serving(v) => u = v)'
      /\ alone => \A v \in Servers \ {s} : Remembered(v)'
  BY <1>1, <1>2, RequestMoves DEF PlacesInv, PlaceTypes
<1>4. Promised' \subseteq Promised
  <2>1. Kept!Saved' \subseteq Promised
    BY <1>1 DEF Kept!Saved, Promised, PlacesInv, PlaceTypes
  <2>2. \A v \in Servers : Writing(v)' => Writing(v) /\ saving'[v].row = saving[v].row
    BY <1>3 DEF Writing, Kept!Ready
  <2> QED BY <2>1, <2>2 DEF Promised
<1>5. ASSUME alone', ~recast' PROVE (\A k \in {"home", "work"} : AtMostOne(k))' /\ (\A v \in Servers : Remembered(v))'
  <2>1. alone /\ ~recast /\ Remembered(s) /\ \A k \in {"home", "work"} : AtMostOne(k)
    BY <1>5 DEF PlacesInv
  <2>2. Remembered(s)'
    BY <1>3 DEF Remembered, Kept!Ready
  <2>3. ASSUME NEW k \in {"home", "work"} PROVE AtMostOne(k)'
    <3>1. CASE UNCHANGED place
      BY <2>1, <3>1 DEF AtMostOne, Kept!OfKind
    <3>2. CASE Writing(s) /\ place' = [place EXCEPT ![saving[s].row] = saving[s].kind]
      <4>1. saving[s].kind = k => Kept!OfKind(k)' \subseteq {saving[s].row}
        <5>1. saving[s].kind = k => Kept!OfKind(k) \subseteq {saving[s].row}
          BY <2>1, <3>2 DEF Remembered, Writing
        <5> QED BY <3>2, <5>1 DEF Kept!OfKind, PlacesInv, PlaceTypes
      <4>2. saving[s].kind # k => Kept!OfKind(k)' \subseteq Kept!OfKind(k)
        BY <1>1, <3>2 DEF Kept!OfKind, PlacesInv, PlaceTypes
      <4> QED BY <2>1, <4>1, <4>2 DEF AtMostOne
    <3>3. CASE \E row : place' = [place EXCEPT ![row] = Nothing]
      <4>1. Kept!OfKind(k)' \subseteq Kept!OfKind(k)
        BY <3>3, NullsAssumption DEF Kept!OfKind, PlacesInv, PlaceTypes
      <4> QED BY <2>1, <4>1 DEF AtMostOne
    <3> QED BY <3>1, <3>2, <3>3
  <2> QED BY <1>3, <2>1, <2>2, <2>3
<1> QED BY <1>3, <1>4, <1>5, FewerPromised DEF PlacesInv

\* A row that was counted will be inserted: the others write no more than the bound says.
LEMMA PlaceCounted ==
  ASSUME PlacesInv, NEW s \in Servers, NEW r \in Rows, Kept!AddCount(s, r), Cardinality(Kept!Saved) < MaxPlaces
  PROVE  PlacesInv'
<1>1. /\ saving[s].op = "count" /\ Serving(s) /\ UNCHANGED <<place, recast, alone>>
      /\ saving' = [saving EXCEPT ![s] = [op |-> "save", kind |-> saving[s].kind, row |-> r]]
  <2>1. ~(Kept!Cardinality(Kept!Saved) >= MaxPlaces)
    <3>1. IsFiniteSet(Kept!Saved)
      BY FS_Subset DEF PlacesInv, Promised
    <3> QED BY <3>1, RowsCount, FS_CardinalityType, LimitsAssumption
  <2> QED BY <2>1 DEF Kept!AddCount, Kept!Then, Serving, Kept!Ready
<1>2. PICK k \in Kept!Kind : saving[s] = [op |-> "count", kind |-> k, row |-> Nothing]
  <2>1. saving[s] \in Requests
    BY DEF PlacesInv, PlaceTypes
  <2> QED BY <1>1, <2>1 DEF Requests
<1> DEFINE q == [op |-> "save", kind |-> k, row |-> r]
<1>3. saving' = [saving EXCEPT ![s] = q] /\ q \in Requests
  BY <1>1, <1>2 DEF Requests
<1>4. /\ saving'[s] = q /\ \A v \in Servers \ {s} : saving'[v] = saving[v]
      /\ PlaceTypes'
      /\ (alone => \A u, v \in Servers : Serving(u) /\ Serving(v) => u = v)'
      /\ alone => \A v \in Servers \ {s} : Remembered(v)'
  BY <1>1, <1>3, RequestMoves DEF PlacesInv, PlaceTypes
<1>5. IsFiniteSet(Promised') /\ Cardinality(Promised') <= MaxPlaces + Kept!Overshoot'
  <2> DEFINE others == {saving[v].row : v \in {v \in Servers \ {s} : Writing(v)}}
             S      == Kept!Saved
  <2>1. IsFiniteSet(others) /\ Cardinality(others) <= Kept!Overshoot
    BY <1>1, OthersWrite
  <2>2. IsFiniteSet(S) /\ Cardinality(S) + 1 <= MaxPlaces
    <3>1. IsFiniteSet(S)
      BY FS_Subset DEF PlacesInv, Promised
    <3> QED BY <3>1, FS_CardinalityType, LimitsAssumption
  <2>3. Promised' = (S \union others) \union {r}
    <3>1. Kept!Saved' = S
      BY <1>1 DEF Kept!Saved
    <3>2. {saving'[v].row : v \in {v \in Servers : Writing(v)'}} = others \union {r}
      BY <1>4 DEF Writing
    <3> QED BY <3>1, <3>2 DEF Promised
  <2> HIDE DEF others, S
  <2>4. IsFiniteSet(S \union others) /\ Cardinality(S \union others) <= Cardinality(S) + Cardinality(others)
    <3>1. IsFiniteSet(S \intersect others)
      BY <2>2, FS_Intersection
    <3>2. Cardinality(S) \in Nat /\ Cardinality(others) \in Nat /\ Cardinality(S \intersect others) \in Nat
      BY <2>1, <2>2, <3>1, FS_CardinalityType
    <3>3. /\ IsFiniteSet(S \union others)
          /\ Cardinality(S \union others) = Cardinality(S) + Cardinality(others) - Cardinality(S \intersect others)
      BY <2>1, <2>2, FS_Union
    <3> QED BY <3>2, <3>3
  <2>5. IsFiniteSet(Promised') /\ Cardinality(Promised') <= Cardinality(S \union others) + 1
    <3> DEFINE U == S \union others
    <3>1. Cardinality(U) \in Nat /\ IsFiniteSet(U)
      BY <2>4, FS_CardinalityType
    <3>2. Promised' = U \union {r}
      BY <2>3
    <3> HIDE DEF U
    <3>3. IsFiniteSet(U \union {r}) /\ Cardinality(U \union {r}) = IF r \in U THEN Cardinality(U) ELSE Cardinality(U) + 1
      BY <3>1, FS_AddElement
    <3>4. IsFiniteSet(Promised') /\ Cardinality(Promised') <= Cardinality(U) + 1
      BY <3>1, <3>2, <3>3
    <3> QED BY <3>4 DEF U
  <2>6. /\ Cardinality(S) \in Nat /\ Cardinality(others) \in Nat /\ Cardinality(S \union others) \in Nat
        /\ Cardinality(Promised') \in Nat
    BY <2>1, <2>2, <2>4, <2>5, FS_CardinalityType
  <2>7. Cardinality(Promised') <= MaxPlaces + Kept!Overshoot
    BY <2>1, <2>2, <2>4, <2>5, <2>6, OvershootStays, LimitsAssumption
  <2> QED BY <1>1, <2>5, <2>7, OvershootStays
<1>6. ASSUME alone', ~recast' PROVE (\A c \in {"home", "work"} : AtMostOne(c))' /\ (\A v \in Servers : Remembered(v))'
  <2>1. alone /\ ~recast /\ Remembered(s) /\ \A c \in {"home", "work"} : AtMostOne(c)
    BY <1>1, <1>6 DEF PlacesInv
  <2>2. \A c : Kept!OfKind(c)' = Kept!OfKind(c)
    BY <1>1 DEF Kept!OfKind
  <2>3. Remembered(s)'
    BY <1>2, <1>4, <2>1, <2>2 DEF Remembered
  <2> QED BY <1>4, <2>1, <2>2, <2>3 DEF AtMostOne
<1> QED BY <1>4, <1>5, <1>6 DEF PlacesInv

\* Nothing is saved at first.
LEMMA PlacesInit == Init => PlacesInv
<1> SUFFICES ASSUME Kept!Init PROVE PlacesInv
  BY DEF Init
<1>1. PlaceTypes
  BY DEF Kept!Init, PlaceTypes, Requests, Kept!Ready
<1>2. /\ Promised = {} /\ \A k \in {"home", "work"} : Kept!OfKind(k) = {}
      /\ \A s \in Servers : ~Serving(s) /\ Remembered(s)
  BY NullsAssumption
  DEF Kept!Init, Promised, Kept!Saved, Kept!OfKind, Serving, Writing, Remembered, Kept!Ready
<1>3. 0 <= MaxPlaces + Kept!Overshoot
  <2>1. N \in Nat
    BY ServersAssumption, FS_CardinalityType DEF N
  <2> QED BY <2>1, LimitsAssumption, RowsCount DEF Kept!Overshoot, N
<1> QED BY <1>1, <1>2, <1>3, FS_EmptySet DEF PlacesInv, AtMostOne

\* Every request keeps what is true of the saved addresses.
LEMMA PlacesKeep == PlacesInv /\ [Next]_vars => PlacesInv'
<1> SUFFICES ASSUME PlacesInv, [Next]_vars PROVE PlacesInv'
  OBVIOUS
<1>1. ASSUME NEW s \in Servers, NEW k \in Kept!Kind, Kept!AddLook(s, k) PROVE PlacesInv'
  <2> DEFINE c == [op |-> "count", kind |-> k, row |-> Nothing]
  <2>1. CASE (k = "other" \/ Kept!OfKind(k) = {}) /\ Kept!Accept(s, c) /\ UNCHANGED <<place, recast, alone>>
    <3>1. c \in Requests
      BY DEF Requests
    <3> QED BY <2>1, <3>1, PlaceBegins DEF PlacesInv, PlaceTypes
  <2>2. ASSUME NEW r \in Kept!OfKind(k), Kept!Accept(s, [op |-> "save", kind |-> k, row |-> r]),
               UNCHANGED <<place, recast, alone>>
        PROVE  PlacesInv'
    <3>1. [op |-> "save", kind |-> k, row |-> r] \in Requests /\ place[r] = k /\ k # Nothing
      BY NullsAssumption DEF Requests, Kept!OfKind, Kept!Kind
    <3> QED BY <2>2, <3>1, PlaceBegins DEF PlacesInv, PlaceTypes
  <2> QED BY <1>1, <2>1, <2>2 DEF Kept!AddLook
<1>2. ASSUME NEW s \in Servers, NEW r \in Rows, NEW k \in Kept!Kind, Kept!EditFetch(s, r, k) PROVE PlacesInv'
  <2>1. [op |-> "save", kind |-> k, row |-> r] \in Requests
    BY DEF Requests
  <2>2. recast' \in BOOLEAN /\ (recast => recast') /\ (~recast' => k = place[r])
    BY <1>2 DEF Kept!EditFetch
  <2> QED BY <1>2, <2>1, <2>2, PlaceBegins DEF Kept!EditFetch
<1>3. ASSUME NEW s \in Servers, NEW r \in Rows, Kept!RemoveFetch(s, r) PROVE PlacesInv'
  <2>1. [op |-> "remove", row |-> r] \in Requests
    BY DEF Requests
  <2> QED BY <1>3, <2>1, PlaceBegins DEF Kept!RemoveFetch, PlacesInv, PlaceTypes
<1>4. ASSUME NEW s \in Servers, NEW r \in Rows, Kept!AddCount(s, r) PROVE PlacesInv'
  <2>1. CASE Cardinality(Kept!Saved) < MaxPlaces
    BY <1>4, <2>1, PlaceCounted
  <2>2. CASE ~(Cardinality(Kept!Saved) < MaxPlaces)
    <3>1. Cardinality(Kept!Saved) >= MaxPlaces
      <4>1. IsFiniteSet(Kept!Saved)
        BY FS_Subset DEF PlacesInv, Promised
      <4> QED BY <2>2, <4>1, FS_CardinalityType, LimitsAssumption
    <3>2. Kept!Cardinality(Kept!Saved) >= MaxPlaces
      BY <3>1, RowsCount
    <3>3. Kept!Answer(s) /\ saving[s].op = "count" /\ UNCHANGED <<place, recast, alone>>
      BY <1>4, <3>2 DEF Kept!AddCount
    <3>4. Serving(s)
      BY <3>3 DEF Serving, Kept!Ready
    <3> QED BY <3>3, <3>4, PlaceEnds
  <2> QED BY <2>1, <2>2
<1>5. ASSUME NEW s \in Servers, Kept!Save(s) \/ Kept!Remove(s) \/ Kept!Drop(s) PROVE PlacesInv'
  <2>1. Kept!Answer(s) /\ UNCHANGED <<recast, alone>>
    BY <1>5 DEF Kept!Save, Kept!Remove, Kept!Drop
  <2>2. Serving(s)
    BY <1>5 DEF Kept!Save, Kept!Remove, Kept!Drop, Serving, Kept!Ready
  <2>3. CASE Kept!Save(s)
    <3>1. Writing(s) /\ place' = [place EXCEPT ![saving[s].row] = saving[s].kind]
      BY <2>3 DEF Kept!Save, Writing
    <3> QED BY <2>1, <2>2, <3>1, PlaceEnds
  <2>4. CASE Kept!Remove(s)
    <3>1. \E row : place' = [place EXCEPT ![row] = Nothing]
      BY <2>4 DEF Kept!Remove
    <3> QED BY <2>1, <2>2, <3>1, PlaceEnds
  <2>5. CASE Kept!Drop(s)
    <3>1. UNCHANGED place
      BY <2>5 DEF Kept!Drop
    <3> QED BY <2>1, <2>2, <3>1, PlaceEnds
  <2> QED BY <1>5, <2>3, <2>4, <2>5
<1>6. CASE UNCHANGED places
  <2>1. UNCHANGED Promised
    BY <1>6 DEF places, Promised, Kept!Saved, Writing
  <2>2. Kept!Overshoot' = Kept!Overshoot
    BY <1>6, OvershootStays DEF places
  <2> QED BY <1>6, <2>1, <2>2
          DEF places, PlacesInv, PlaceTypes, Serving, Remembered, AtMostOne, Kept!OfKind
<1> QED BY <1>1, <1>2, <1>3, <1>4, <1>5, <1>6, PlacesStep DEF Kept!Next, Kept!Serve

\* They say what is stated of the saved addresses.
LEMMA PlacesImplied == PlacesInv => Kept!PlacesKept
<1> SUFFICES ASSUME PlacesInv PROVE Kept!PlacesKept
  OBVIOUS
<1>1. IsFiniteSet(Kept!Saved) /\ Cardinality(Kept!Saved) <= Cardinality(Promised)
  BY FS_Subset DEF PlacesInv, Promised
<1>2. Kept!LimitNearlyKept
  <2>1. Cardinality(Kept!Saved) \in Nat /\ Cardinality(Promised) \in Nat
    BY <1>1, FS_CardinalityType DEF PlacesInv
  <2> QED BY <1>1, <2>1, OvershootStays, RowsCount, LimitsAssumption DEF Kept!LimitNearlyKept, PlacesInv
<1>3. ASSUME NEW k \in {"home", "work"}, AtMostOne(k) PROVE Cardinality(Kept!OfKind(k)) <= 1
  <2>1. CASE Kept!OfKind(k) = {}
    BY <2>1, FS_EmptySet
  <2>2. CASE Kept!OfKind(k) # {}
    <3>1. PICK r \in Kept!OfKind(k) : Kept!OfKind(k) = {r}
      BY <1>3, <2>2 DEF AtMostOne
    <3> QED BY <3>1, FS_Singleton
  <2> QED BY <2>1, <2>2
<1>4. Kept!OneOfAKind
  BY <1>3, RowsCount DEF Kept!OneOfAKind, PlacesInv
<1> QED BY <1>2, <1>4 DEF Kept!PlacesKept

----------------------------------------------------------------------------
(* The lookups.                                                            *)

\* A step of the customer's side is one of the lookups or leaves them alone.
LEMMA SearchStep == [Next]_vars => Search!Next \/ UNCHANGED search
BY DEF Next, vars, server, phone, ServerStep, PhoneStep, Tracking

SearchInv ==
  /\ cache \in [Search!Lookups -> {"miss", "some", "nothing"}]
  /\ Search!FailuresForgotten

\* Nothing is cached at first.
LEMMA SearchInit == Init => SearchInv
BY DEF Init, Search!Init, SearchInv, Search!FailuresForgotten

\* What is kept is what the provider knows, and answers that are forgotten are missed.
LEMMA SearchKeep == SearchInv /\ [Next]_vars => SearchInv'
<1> SUFFICES ASSUME SearchInv, [Next]_vars PROVE SearchInv'
  OBVIOUS
<1>1. UNCHANGED knows
  BY SearchStep DEF search, Search!Next, Search!Ask, Search!Hit, Search!Answer, Search!Fail, Search!Expire,
                    Search!GoogleAgain, Search!fixed
<1>2. \A l : Search!Truth(l)' = Search!Truth(l) /\ Search!Truth(l) \in {"some", "nothing"}
  BY <1>1 DEF Search!Truth
<1>3. ASSUME NEW l \in Search!Lookups, NEW value \in {"miss", Search!Truth(l)}, cache' = [cache EXCEPT ![l] = value]
      PROVE  SearchInv'
  BY <1>2, <1>3 DEF SearchInv, Search!FailuresForgotten
<1>4. CASE UNCHANGED cache
  BY <1>2, <1>4 DEF SearchInv, Search!FailuresForgotten
<1>5. ASSUME NEW s \in Servers, Search!Answer(s) PROVE SearchInv'
  <2> DEFINE l == <<lookup[s].op, lookup[s].ask>>
  <2>1. cache' = [cache EXCEPT ![l] = Search!Truth(l)] \/ UNCHANGED cache
    BY <1>5 DEF Search!Answer
  <2>2. CASE l \notin Search!Lookups
    <3>1. UNCHANGED cache
      BY <2>1, <2>2 DEF SearchInv
    <3> QED BY <3>1, <1>4
  <2> HIDE DEF l
  <2> QED BY <1>3, <1>4, <2>1, <2>2
<1>6. ASSUME NEW l \in Search!Lookups, Search!Expire(l) PROVE SearchInv'
  BY <1>3, <1>6 DEF Search!Expire
<1> QED BY <1>4, <1>5, <1>6, SearchStep DEF search, Search!Next, Search!Ask, Search!Hit, Search!Fail, Search!GoogleAgain

----------------------------------------------------------------------------
(* The fares.                                                              *)

\* h is the line after each leg.
JoinsUp(h, lines) ==
  /\ h[0] = <<>>
  /\ \A i \in 1 .. Len(lines) : h[i] = h[i - 1] \o (IF h[i - 1] = <<>> THEN lines[i] ELSE Tail(lines[i]))

\* Legs are joined one after the other.
LEMMA JoinedRuns ==
  ASSUME NEW S, NEW lines \in Seq(Seq(S) \ {<<>>})
  PROVE  \E h : JoinsUp(h, lines) /\ Poly!Joined(lines) = h[Len(lines)]
<1> DEFINE n == Len(lines)
           V == Seq(S)
           Then(all, x) == all \o (IF all = <<>> THEN x ELSE Tail(x))
           F(g) == [s \in SUBSET (1 .. n) |-> IF s = {} THEN <<>> ELSE Then(g[s \ {Poly!Max(s)}], lines[Poly!Max(s)])]
           D == [q \in (1 .. n) \X V |-> Then(q[2], lines[q[1]])]
           g == CHOOSE g : g = F(g)
<1>1. n \in Nat /\ DOMAIN lines = 1 .. n /\ \A i \in 1 .. n : lines[i] \in V \ {<<>>}
  OBVIOUS
<1>2. D \in [(1 .. n) \X V -> V] /\ <<>> \in V
  <2>1. \A i \in 1 .. n, all \in V : Then(all, lines[i]) \in V
    <3> SUFFICES ASSUME NEW i \in 1 .. n, NEW all \in V PROVE Then(all, lines[i]) \in V
      OBVIOUS
    <3>1. lines[i] \in V /\ Tail(lines[i]) \in V
      BY <1>1, HeadTailProperties
    <3> QED BY <3>1, ConcatProperties
  <2> QED BY <2>1
<1>3. PICK f \in [SUBSET (1 .. n) -> V] : WalksDown(f, n, <<>>, D)
  <2> HIDE DEF D, V
  <2> QED BY <1>1, <1>2, FromTheLastBefore
<1>4. f = F(f)
  <2>1. \A s \in SUBSET (1 .. n) : s # {} => D[<<Last(s), f[s \ {Last(s)}]>>] = F(f)[s]
    <3>1. \A s \in SUBSET (1 .. n) : s # {} => Last(s) \in s /\ Last(s) = Poly!Max(s)
      BY <1>1, LastIn DEF Last, Poly!Max
    <3> QED BY <3>1
  <2> HIDE DEF D
  <2> QED BY <1>3, <2>1 DEF WalksDown
<1>5. g = F(g)
  BY <1>4
<1>6. Poly!Joined(lines) = g[1 .. n]
  BY <1>1 DEF Poly!Joined, Poly!FoldLeft, Poly!MapThenFoldSet
<1>7. \A i \in 1 .. n : g[1 .. i] = Then(g[1 .. i - 1], lines[i])
  <2> HIDE DEF g
  <2> SUFFICES ASSUME NEW i \in 1 .. n PROVE g[1 .. i] = Then(g[1 .. i - 1], lines[i])
    OBVIOUS
  <2>1. Last(1 .. i) = i /\ 1 .. i \in SUBSET (1 .. n) /\ 1 .. i # {} /\ (1 .. i) \ {i} = 1 .. i - 1
    BY <1>1, UpTo
  <2>2. Poly!Max(1 .. i) = i
    BY <2>1 DEF Last, Poly!Max
  <2> QED BY <1>5, <2>1, <2>2
<1> DEFINE h == [i \in 0 .. n |-> g[1 .. i]]
<1>8. JoinsUp(h, lines) /\ Poly!Joined(lines) = h[n]
  <2> HIDE DEF g
  <2>1. g[1 .. 0] = <<>>
    BY <1>1, <1>5
  <2>2. h[0] = <<>>
    BY <1>1, <2>1
  <2>3. \A i \in 1 .. n : h[i] = g[1 .. i] /\ h[i - 1] = g[1 .. i - 1]
    BY <1>1
  <2> HIDE DEF h
  <2>4. \A i \in 1 .. n : h[i] = Then(h[i - 1], lines[i])
    BY <1>7, <2>3
  <2>5. h[n] = g[1 .. n]
    BY <1>1 DEF h
  <2> QED BY <1>6, <2>2, <2>4, <2>5 DEF JoinsUp
<1> HIDE DEF h
<1> QED BY <1>8

\* Two legs joined.
LEMMA JoinedTwo ==
  ASSUME NEW S, NEW a \in Seq(S) \ {<<>>}, NEW b \in Seq(S) \ {<<>>}
  PROVE  Poly!Joined(<<a>>) = a /\ Poly!Joined(<<a, b>>) = a \o Tail(b)
<1> DEFINE one == <<a>>
           two == <<a, b>>
<1>1. /\ one \in Seq(Seq(S) \ {<<>>}) /\ Len(one) = 1 /\ one[1] = a
      /\ two \in Seq(Seq(S) \ {<<>>}) /\ Len(two) = 2 /\ two[1] = a /\ two[2] = b
  OBVIOUS
<1>2. <<>> \o a = a /\ a # <<>>
  BY ConcatEmptySeq
<1> HIDE DEF one, two
<1>3. PICK h : JoinsUp(h, one) /\ Poly!Joined(one) = h[Len(one)]
  BY <1>1, JoinedRuns
<1>4. h[1] = h[0] \o (IF h[0] = <<>> THEN one[1] ELSE Tail(one[1])) /\ h[0] = <<>>
  <2>1. PICK m \in 1 .. Len(one) : m = 1 /\ m - 1 = 0
    BY <1>1
  <2> QED BY <1>3, <2>1 DEF JoinsUp
<1>5. Poly!Joined(one) = a
  BY <1>1, <1>2, <1>3, <1>4
<1>6. PICK k : JoinsUp(k, two) /\ Poly!Joined(two) = k[Len(two)]
  BY <1>1, JoinedRuns
<1>7. k[1] = k[0] \o (IF k[0] = <<>> THEN two[1] ELSE Tail(two[1])) /\ k[0] = <<>>
  <2>1. PICK m \in 1 .. Len(two) : m = 1 /\ m - 1 = 0
    BY <1>1
  <2> QED BY <1>6, <2>1 DEF JoinsUp
<1>8. k[2] = k[1] \o (IF k[1] = <<>> THEN two[2] ELSE Tail(two[2]))
  <2>1. PICK m \in 1 .. Len(two) : m = 2 /\ m - 1 = 1
    BY <1>1
  <2> QED BY <1>6, <2>1 DEF JoinsUp
<1>9. k[2] = a \o Tail(b)
  BY <1>1, <1>2, <1>7, <1>8
<1>10. Poly!Joined(two) = a \o Tail(b)
  BY <1>1, <1>6, <1>9
<1> QED BY <1>5, <1>10 DEF one, two

\* The parts of the route and of the line are the same code.
LEMMA SameJoin == \A lines : Fare!Joined(lines) = Poly!Joined(lines)
BY DEF Fare!Joined, Poly!Joined, Fare!FoldLeft, Poly!FoldLeft, Fare!MapThenFoldSet, Poly!MapThenFoldSet,
       Fare!Max, Poly!Max

By == {"google", "auto", "truck"}

\* The line of a route: the points, and a mark for each leg between them.
LEMMA RoadLines ==
  ASSUME NEW by \in By
  PROVE  /\ Fare!Road(<<"a", "b">>, by).line = <<"a", by, "b">>
         /\ Fare!Road(<<"a", "c", "b">>, by).line = <<"a", by, "c", by, "b">>
<1> DEFINE S == {"a", "b", "c"} \union By
           l(x, y) == <<x, by, y>>
<1>1. l("a", "b") \in Seq(S) \ {<<>>} /\ l("a", "c") \in Seq(S) \ {<<>>} /\ l("c", "b") \in Seq(S) \ {<<>>}
  BY DEF By
<1>2. Fare!Road(<<"a", "b">>, by).line = Poly!Joined(<<l("a", "b")>>)
  <2>1. [i \in 1 .. 1 |-> Fare!Line(<<(<<"a", "b">>)[i], (<<"a", "b">>)[i + 1]>>, by)] = <<l("a", "b")>>
    BY DEF Fare!Line
  <2> QED BY <2>1, SameJoin DEF Fare!Road
<1>3. Fare!Road(<<"a", "c", "b">>, by).line = Poly!Joined(<<l("a", "c"), l("c", "b")>>)
  <2>1. [i \in 1 .. 2 |-> Fare!Line(<<(<<"a", "c", "b">>)[i], (<<"a", "c", "b">>)[i + 1]>>, by)] = <<l("a", "c"), l("c", "b")>>
    BY DEF Fare!Line
  <2> QED BY <2>1, SameJoin DEF Fare!Road
<1>4. Poly!Joined(<<l("a", "b")>>) = l("a", "b")
  <2> HIDE DEF l
  <2> QED BY <1>1, JoinedTwo
<1>5. Poly!Joined(<<l("a", "c"), l("c", "b")>>) = l("a", "c") \o Tail(l("c", "b"))
  <2> HIDE DEF l
  <2> QED BY <1>1, JoinedTwo
<1>6. l("a", "c") \o Tail(l("c", "b")) = <<"a", by, "c", by, "b">>
  <2>1. Tail(l("c", "b")) \in Seq(S) /\ Len(Tail(l("c", "b"))) = 2 /\ Tail(l("c", "b"))[1] = by /\ Tail(l("c", "b"))[2] = "b"
    <3> DEFINE s == l("c", "b")
    <3>1. Len(s) = 3 /\ s[2] = by /\ s[3] = "b" /\ s \in Seq(S) /\ s # <<>>
      BY <1>1
    <3> HIDE DEF s
    <3> QED BY <3>1, HeadTailProperties
  <2> DEFINE t == Tail(l("c", "b"))
             s == l("a", "c")
  <2>2. Len(s) = 3 /\ s[1] = "a" /\ s[2] = by /\ s[3] = "c" /\ s \in Seq(S)
    BY <1>1
  <2> HIDE DEF s, t
  <2>3. s \o t \in Seq(S) /\ Len(s \o t) = 5 /\ \A i \in 1 .. 5 : (s \o t)[i] = IF i <= 3 THEN s[i] ELSE t[i - 3]
    <3>1. t \in Seq(S) /\ Len(t) = 2
      BY <2>1 DEF t
    <3>2. /\ s \o t \in Seq(S) /\ Len(s \o t) = Len(s) + Len(t)
          /\ \A i \in 1 .. Len(s) + Len(t) : (s \o t)[i] = IF i <= Len(s) THEN s[i] ELSE t[i - Len(s)]
      BY <2>2, <3>1, ConcatProperties
    <3> QED BY <2>2, <3>1, <3>2
  <2>4. \A i \in 1 .. 5 : (s \o t)[i] = <<"a", by, "c", by, "b">>[i]
    BY <2>1, <2>2, <2>3 DEF t
  <2>5. <<"a", by, "c", by, "b">> \in Seq(S) /\ Len(<<"a", by, "c", by, "b">>) = 5
    BY DEF By
  <2>6. s \o t = <<"a", by, "c", by, "b">>
    BY <2>3, <2>4, <2>5, SeqEqual
  <2> QED BY <2>6 DEF s, t
<1> QED BY <1>2, <1>3, <1>4, <1>5, <1>6

\* h is the stops passed so far.
PassesUp(h, l, stops) ==
  /\ h[0] = <<>>
  /\ \A i \in 1 .. Len(l) : h[i] = IF l[i] \in stops THEN Append(h[i - 1], l[i]) ELSE h[i - 1]

\* The stops of a line are taken one after the other.
LEMMA PassedRuns ==
  ASSUME NEW S, NEW l \in Seq(S), NEW stops
  PROVE  \E h : PassesUp(h, l, Fare!ToSet(stops)) /\ Fare!Passed(l, stops) = h[Len(l)]
<1> DEFINE n == Len(l)
           V == Seq(S)
           P == Fare!ToSet(stops)
           Then(all, x) == IF x \in P THEN Append(all, x) ELSE all
           F(g) == [s \in SUBSET (1 .. n) |-> IF s = {} THEN <<>> ELSE Then(g[s \ {Fare!Max(s)}], l[Fare!Max(s)])]
           D == [q \in (1 .. n) \X V |-> Then(q[2], l[q[1]])]
           g == CHOOSE g : g = F(g)
<1>1. n \in Nat /\ DOMAIN l = 1 .. n /\ \A i \in 1 .. n : l[i] \in S
  OBVIOUS
<1>2. D \in [(1 .. n) \X V -> V] /\ <<>> \in V
  <2>1. \A i \in 1 .. n, all \in V : Then(all, l[i]) \in V
    BY <1>1, AppendProperties
  <2> QED BY <2>1
<1>3. PICK f \in [SUBSET (1 .. n) -> V] : WalksDown(f, n, <<>>, D)
  <2> HIDE DEF D, V
  <2> QED BY <1>1, <1>2, FromTheLastBefore
<1>4. f = F(f)
  <2>1. \A s \in SUBSET (1 .. n) : s # {} => D[<<Last(s), f[s \ {Last(s)}]>>] = F(f)[s]
    <3>1. \A s \in SUBSET (1 .. n) : s # {} => Last(s) \in s /\ Last(s) = Fare!Max(s)
      BY <1>1, LastIn DEF Last, Fare!Max
    <3> QED BY <3>1
  <2> HIDE DEF D
  <2> QED BY <1>3, <2>1 DEF WalksDown
<1>5. g = F(g)
  BY <1>4
<1>6. Fare!Passed(l, stops) = g[1 .. n]
  BY <1>1 DEF Fare!Passed, Fare!FoldLeft, Fare!MapThenFoldSet
<1>7. \A i \in 1 .. n : g[1 .. i] = Then(g[1 .. i - 1], l[i])
  <2> HIDE DEF g
  <2> SUFFICES ASSUME NEW i \in 1 .. n PROVE g[1 .. i] = Then(g[1 .. i - 1], l[i])
    OBVIOUS
  <2>1. Last(1 .. i) = i /\ 1 .. i \in SUBSET (1 .. n) /\ 1 .. i # {} /\ (1 .. i) \ {i} = 1 .. i - 1
    BY <1>1, UpTo
  <2>2. Fare!Max(1 .. i) = i
    BY <2>1 DEF Last, Fare!Max
  <2> QED BY <1>5, <2>1, <2>2
<1> DEFINE h == [i \in 0 .. n |-> g[1 .. i]]
<1>8. PassesUp(h, l, P) /\ Fare!Passed(l, stops) = h[n]
  <2> HIDE DEF g
  <2>1. g[1 .. 0] = <<>>
    BY <1>1, <1>5
  <2>2. h[0] = <<>>
    BY <1>1, <2>1
  <2>3. \A i \in 1 .. n : h[i] = g[1 .. i] /\ h[i - 1] = g[1 .. i - 1]
    BY <1>1
  <2> HIDE DEF h
  <2>4. \A i \in 1 .. n : h[i] = Then(h[i - 1], l[i])
    BY <1>7, <2>3
  <2>5. h[n] = g[1 .. n]
    BY <1>1 DEF h
  <2> QED BY <1>6, <2>2, <2>4, <2>5 DEF PassesUp
<1> HIDE DEF h
<1> QED BY <1>8

\* The road passes every stop once, in order.
LEMMA RoadPasses ==
  ASSUME NEW stops \in Fare!Trips, NEW by \in By
  PROVE  Fare!Passed(Fare!Road(stops, by).line, stops) = stops
<1> DEFINE S == {"a", "b", "c"} \union By
<1>1. "a" \in S /\ "b" \in S /\ "c" \in S
  OBVIOUS
<1>2. Append(<<>>, "a") = <<"a">> /\ Append(<<"a">>, "b") = <<"a", "b">> /\ Append(<<"a">>, "c") = <<"a", "c">>
      /\ Append(<<"a", "c">>, "b") = <<"a", "c", "b">>
  BY <1>1, Appended
<1>3. CASE stops = <<"a", "b">>
  <2> DEFINE l == <<"a", by, "b">>
  <2>1. l \in Seq(S) /\ Len(l) = 3 /\ l[1] = "a" /\ l[2] = by /\ l[3] = "b"
    BY DEF By
  <2>2. Fare!ToSet(stops) = {"a", "b"} /\ by \notin {"a", "b"}
    BY <1>3 DEF Fare!ToSet, By
  <2>3. Fare!Road(stops, by).line = l
    BY <1>3, RoadLines
  <2> HIDE DEF l
  <2>4. PICK h : PassesUp(h, l, {"a", "b"}) /\ Fare!Passed(l, stops) = h[3]
    BY <2>1, <2>2, PassedRuns
  <2>5. h[0] = <<>> /\ h[1] = Append(h[0], "a") /\ h[2] = h[1] /\ h[3] = Append(h[2], "b")
    <3>1. \A i \in 1 .. 3 : h[i] = IF l[i] \in {"a", "b"} THEN Append(h[i - 1], l[i]) ELSE h[i - 1]
      BY <2>1, <2>4 DEF PassesUp
    <3>2. h[0] = <<>>
      BY <2>4 DEF PassesUp
    <3>3. 1 - 1 = 0 /\ 2 - 1 = 1 /\ 3 - 1 = 2
      OBVIOUS
    <3> QED BY <2>1, <2>2, <3>1, <3>2, <3>3
  <2> QED BY <1>2, <1>3, <2>3, <2>4, <2>5
<1>4. CASE stops = <<"a", "c", "b">>
  <2> DEFINE l == <<"a", by, "c", by, "b">>
  <2>1. l \in Seq(S) /\ Len(l) = 5 /\ l[1] = "a" /\ l[2] = by /\ l[3] = "c" /\ l[4] = by /\ l[5] = "b"
    BY DEF By
  <2>2. Fare!ToSet(stops) = {"a", "b", "c"} /\ by \notin {"a", "b", "c"}
    BY <1>4 DEF Fare!ToSet, By
  <2>3. Fare!Road(stops, by).line = l
    BY <1>4, RoadLines
  <2> HIDE DEF l
  <2>4. PICK h : PassesUp(h, l, {"a", "b", "c"}) /\ Fare!Passed(l, stops) = h[5]
    BY <2>1, <2>2, PassedRuns
  <2>5. h[0] = <<>> /\ h[1] = Append(h[0], "a") /\ h[2] = h[1] /\ h[3] = Append(h[2], "c") /\ h[4] = h[3]
        /\ h[5] = Append(h[4], "b")
    <3>1. \A i \in 1 .. 5 : h[i] = IF l[i] \in {"a", "b", "c"} THEN Append(h[i - 1], l[i]) ELSE h[i - 1]
      BY <2>1, <2>4 DEF PassesUp
    <3>2. h[0] = <<>>
      BY <2>4 DEF PassesUp
    <3>3. 1 - 1 = 0 /\ 2 - 1 = 1 /\ 3 - 1 = 2 /\ 4 - 1 = 3 /\ 5 - 1 = 4
      OBVIOUS
    <3> QED BY <2>1, <2>2, <3>1, <3>2, <3>3
  <2> QED BY <1>2, <1>4, <2>3, <2>4, <2>5
<1> QED BY <1>3, <1>4 DEF Fare!Trips

\* A step of the customer's side is one of the fares or leaves them alone.
LEMMA FaresStep == [Next]_vars => Fare!Next \/ UNCHANGED fares
BY DEF Next, vars, server, phone, ServerStep, PhoneStep, Tracking

Direct == <<"a", "b">>
Googled == Fare!Road(Direct, "google")

\* Roads do not change.
LEMMA RoadsStay ==
  /\ Googled' = Googled /\ Fare!Legs(Direct)' = Fare!Legs(Direct)
  /\ \A stops, by : Fare!Road(stops, by)' = Fare!Road(stops, by)
<1>1. \A stops, by : Fare!Road(stops, by)' = Fare!Road(stops, by)
  BY DEF Fare!Road, Fare!Joined, Fare!FoldLeft, Fare!MapThenFoldSet, Fare!Max, Fare!Line, Fare!Length
<1>2. Fare!Legs(Direct)' = Fare!Legs(Direct)
  BY DEF Fare!Legs, Direct
<1> QED BY <1>1, <1>2 DEF Googled, Direct

\* Fares that are not a day old and were shown on Google's road: the route is remembered.
Promises(roads, kept) ==
  kept /\ (\E t \in DOMAIN roads : roads[t] = Googled) => google /\ Fare!Legs(Direct) \subseteq cached

AskingOK == asking = Fare!Idle \/ \E kind, some, roads, kept :
  asking = [kind |-> kind, cards |-> some, roads |-> roads, kept |-> kept] /\ Promises(roads, kept)

QuoteOK == quote = Fare!NoQuote \/ \E roads, some, kept :
  quote = [roads |-> roads, cards |-> some, kept |-> kept] /\ Promises(roads, kept)

BuyingOK == buying = Fare!Idle \/ buying.trip \in Fare!Trips

BoughtOK ==
  bought # Fare!NoTrip =>
    /\ bought.trip \in Fare!Trips /\ \E by \in By : bought.road = Fare!Road(bought.trip, by)
    /\ bought.fare = Fare!Fare(bought.card, bought.road)
    /\ Fare!PromisedRoad(bought.type) /\ bought.trip = Direct => bought.road = Googled

FaresInv == AskingOK /\ QuoteOK /\ BuyingOK /\ BoughtOK

\* Only Google gives Google's road.
LEMMA RoadsDiffer ==
  ASSUME NEW t
  PROVE  /\ Fare!Costing(t) \in By
         /\ Fare!Road(Direct, Fare!Costing(t)) # Googled /\ Fare!NoRoad # Googled
<1>1. Fare!Costing(t) \in {"truck", "auto"}
  BY DEF Fare!Costing
<1>2. Googled.metres = 1234 /\ Fare!Road(Direct, "auto").metres = 1322 /\ Fare!Road(Direct, "truck").metres = 1401
  BY DEF Googled, Direct, Fare!Road, Fare!Length
<1>3. Fare!NoRoad.metres = 0
  BY DEF Fare!NoRoad
<1> QED BY <1>1, <1>2, <1>3 DEF By

\* A route: more legs are remembered, and Google's road is that of the legs that are.
LEMMA RouteFound ==
  ASSUME NEW stops, NEW t, NEW road, Fare!Route(stops, Fare!Costing(t), road)
  PROVE  /\ cached \subseteq cached'
         /\ road # Fare!NoRoad => \E by \in By : road = Fare!Road(stops, by)
         /\ stops = Direct /\ road = Googled => google /\ Fare!Legs(Direct) \subseteq cached'
         /\ google /\ Fare!Legs(stops) \subseteq cached => road = Fare!Road(stops, "google")
<1>1. CASE google
  <2>1. PICK got \in SUBSET Fare!Legs(stops) :
          /\ cached \intersect Fare!Legs(stops) \subseteq got
          /\ cached' = cached \union got
          /\ road \in IF got = Fare!Legs(stops) THEN {Fare!Road(stops, "google")}
                     ELSE {Fare!Road(stops, Fare!Costing(t)), Fare!NoRoad}
    BY <1>1 DEF Fare!Route, Fare!AskGoogle
  <2> QED BY <1>1, <2>1, RoadsDiffer DEF By, Googled
<1>2. CASE ~google
  <2>1. UNCHANGED cached /\ road \in {Fare!Road(stops, Fare!Costing(t)), Fare!NoRoad}
    BY <1>2 DEF Fare!Route
  <2> QED BY <1>2, <2>1, RoadsDiffer
<1> QED BY <1>1, <1>2

\* What is promised stays so while routes are remembered.
LEMMA PromisesStay ==
  ASSUME NEW roads, NEW kept, Promises(roads, kept), UNCHANGED google, cached \subseteq cached'
  PROVE  Promises(roads, kept)'
BY RoadsStay DEF Promises

\* A fare that is shown stays as promised while nothing about it changes.
LEMMA QuoteStays ==
  ASSUME QuoteOK, UNCHANGED <<quote, google>>, cached \subseteq cached'
  PROVE  QuoteOK'
BY PromisesStay DEF QuoteOK

\* So do fares that are being asked for.
LEMMA AskingStays ==
  ASSUME AskingOK, UNCHANGED <<asking, google>>, cached \subseteq cached'
  PROVE  AskingOK'
BY PromisesStay DEF AskingOK

\* And a trip that is made.
LEMMA BoughtStays ==
  ASSUME BoughtOK, UNCHANGED bought PROVE BoughtOK'
BY DEF BoughtOK, Fare!PromisedRoad

\* A type is priced.
LEMMA PriceStep ==
  ASSUME FaresInv, NEW t \in Types, Fare!Price(t)
  PROVE  FaresInv'
<1>1. PICK kind, some, roads, kept :
        asking = [kind |-> kind, cards |-> some, roads |-> roads, kept |-> kept] /\ Promises(roads, kept)
  BY DEF FaresInv, AskingOK, Fare!Price
<1>2. PICK road \in Fare!Roads(Direct, t) :
       /\ IF Fare!Reused(t) # {} THEN road \in Fare!Reused(t) /\ UNCHANGED cached
          ELSE Fare!Route(Direct, Fare!Costing(t), road)
       /\ LET all == [u \in DOMAIN asking.roads \union {t} |-> IF u = t THEN road ELSE asking.roads[u]]
          IN IF road = Fare!NoRoad \/ ~Fare!Priceable(asking.cards[t]) THEN asking' = Fare!Idle /\ UNCHANGED quote
             ELSE IF DOMAIN all # DOMAIN asking.cards
             THEN asking' = [asking EXCEPT !.roads = all] /\ UNCHANGED quote
             ELSE /\ quote' = [roads |-> all, cards |-> asking.cards, kept |-> asking.kept]
                  /\ asking' = Fare!Idle
  BY DEF Fare!Price, Direct
<1>3. UNCHANGED <<google, buying, bought>>
  BY DEF Fare!Price
<1> DEFINE all == [u \in DOMAIN roads \union {t} |-> IF u = t THEN road ELSE roads[u]]
<1>4. /\ cached \subseteq cached'
      /\ road = Googled /\ kept => google /\ Fare!Legs(Direct) \subseteq cached'
  <2>1. CASE Fare!Reused(t) # {}
    <3>1. PICK u \in DOMAIN roads : road = roads[u]
      BY <1>1, <1>2, <2>1 DEF Fare!Reused
    <3> QED BY <1>1, <1>2, <2>1, <3>1 DEF Promises
  <2>2. CASE Fare!Reused(t) = {}
    BY <1>2, <2>2, RouteFound
  <2> QED BY <2>1, <2>2
<1>5. Promises(all, kept)'
  <2>1. kept /\ (\E u \in DOMAIN all : all[u] = Googled) => google /\ Fare!Legs(Direct) \subseteq cached'
    BY <1>1, <1>4 DEF Promises
  <2> QED BY <1>3, <2>1, RoadsStay DEF Promises
<1>6. \/ asking' = Fare!Idle /\ UNCHANGED quote
      \/ asking' = [kind |-> kind, cards |-> some, roads |-> all, kept |-> kept] /\ UNCHANGED quote
      \/ asking' = Fare!Idle /\ quote' = [roads |-> all, cards |-> some, kept |-> kept]
  BY <1>1, <1>2
<1> HIDE DEF all
<1>7. AskingOK'
  BY <1>5, <1>6 DEF AskingOK
<1>8. QuoteOK'
  <2>1. CASE UNCHANGED quote
    BY <1>3, <1>4, <2>1, QuoteStays DEF FaresInv
  <2>2. CASE quote' = [roads |-> all, cards |-> some, kept |-> kept]
    BY <1>5, <2>2 DEF QuoteOK
  <2> QED BY <1>6, <2>1, <2>2
<1> QED BY <1>3, <1>7, <1>8, BoughtStays DEF FaresInv, BuyingOK

\* The trip is made, at the fare of the route there is now.
LEMMA BoughtStep ==
  ASSUME FaresInv, Fare!Book
  PROVE  FaresInv'
<1>1. PICK road \in Fare!Roads(buying.trip, buying.type) :
        /\ Fare!Route(buying.trip, Fare!Costing(buying.type), road)
        /\ bought' = IF road = Fare!NoRoad \/ ~Fare!Priceable(buying.card) THEN Fare!NoTrip
                     ELSE [type |-> buying.type, trip |-> buying.trip, card |-> buying.card, road |-> road,
                           fare |-> Fare!Fare(buying.card, road), agreed |-> quote]
  BY DEF Fare!Book
<1>2. buying # Fare!Idle /\ buying' = Fare!Idle /\ UNCHANGED <<google, asking, quote>>
  BY DEF Fare!Book
<1>3. /\ cached \subseteq cached'
      /\ road # Fare!NoRoad => \E by \in By : road = Fare!Road(buying.trip, by)
      /\ google /\ Fare!Legs(buying.trip) \subseteq cached => road = Fare!Road(buying.trip, "google")
  BY <1>1, RouteFound
<1>4. BoughtOK'
  <2> SUFFICES ASSUME bought' # Fare!NoTrip
               PROVE  /\ bought'.trip \in Fare!Trips /\ \E by \in By : bought'.road = Fare!Road(bought'.trip, by)
                      /\ bought'.fare = Fare!Fare(bought'.card, bought'.road)
                      /\ Fare!PromisedRoad(bought.type)' /\ bought'.trip = Direct => bought'.road = Googled
    BY RoadsStay DEF BoughtOK, Direct, Fare!Trips, Fare!NoTrip
  <2>1. /\ road # Fare!NoRoad
        /\ bought' = [type |-> buying.type, trip |-> buying.trip, card |-> buying.card, road |-> road,
                      fare |-> Fare!Fare(buying.card, road), agreed |-> quote]
    BY <1>1
  <2>2. /\ bought'.type = buying.type /\ bought'.trip = buying.trip /\ bought'.card = buying.card
        /\ bought'.road = road /\ bought'.fare = Fare!Fare(buying.card, road) /\ bought'.agreed = quote
    BY <2>1
  <2>3. bought'.trip \in Fare!Trips /\ \E by \in By : bought'.road = Fare!Road(bought'.trip, by)
    BY <1>2, <1>3, <2>1, <2>2 DEF FaresInv, BuyingOK
  <2>4. ASSUME Fare!PromisedRoad(bought.type)', bought'.trip = Direct PROVE road = Googled
    <3>1. quote # Fare!NoQuote /\ quote.kept /\ \E t \in DOMAIN quote.roads : quote.roads[t] = Googled
      BY <2>2, <2>4 DEF Fare!PromisedRoad, Googled, Direct
    <3>2. google /\ Fare!Legs(Direct) \subseteq cached
      BY <3>1 DEF FaresInv, QuoteOK, Promises
    <3> QED BY <1>3, <2>2, <2>4, <3>2 DEF Googled
  <2> QED BY <2>2, <2>3, <2>4
<1> QED BY <1>2, <1>3, <1>4, QuoteStays, AskingStays DEF FaresInv, BuyingOK

\* A remembered route is forgotten, and what relies on it does not hold any longer.
LEMMA ForgetStep ==
  ASSUME FaresInv, NEW leg, Fare!Forget(leg)
  PROVE  FaresInv'
<1>1. UNCHANGED <<buying, bought>>
  BY DEF Fare!Forget
<1>2. \A roads : Promises(roads, FALSE)'
  BY DEF Promises
<1>3. AskingOK'
  <2>1. CASE asking = Fare!Idle
    BY <2>1 DEF Fare!Forget, AskingOK
  <2>2. CASE asking # Fare!Idle
    <3>1. PICK kind, some, roads, kept : asking = [kind |-> kind, cards |-> some, roads |-> roads, kept |-> kept]
      BY <2>2 DEF FaresInv, AskingOK
    <3>2. asking' = [kind |-> kind, cards |-> some, roads |-> roads, kept |-> FALSE]
      BY <2>2, <3>1 DEF Fare!Forget
    <3> QED BY <1>2, <3>2 DEF AskingOK
  <2> QED BY <2>1, <2>2
<1>4. QuoteOK'
  <2>1. CASE quote = Fare!NoQuote
    BY <2>1 DEF Fare!Forget, QuoteOK
  <2>2. CASE quote # Fare!NoQuote
    <3>1. PICK roads, some, kept : quote = [roads |-> roads, cards |-> some, kept |-> kept]
      BY <2>2 DEF FaresInv, QuoteOK
    <3>2. quote' = [roads |-> roads, cards |-> some, kept |-> FALSE]
      BY <2>2, <3>1 DEF Fare!Forget
    <3> QED BY <1>2, <3>2 DEF QuoteOK
  <2> QED BY <2>1, <2>2
<1> QED BY <1>1, <1>3, <1>4, BoughtStays DEF FaresInv, BuyingOK

\* Nothing is asked for at first.
LEMMA FaresInit == Init => FaresInv
<1>1. Init => Fare!Init
  BY DEF Init
<1> QED BY <1>1 DEF Fare!Init, FaresInv, AskingOK, QuoteOK, BuyingOK, BoughtOK

\* Every step keeps what is true of the fares.
LEMMA FaresKeep == FaresInv /\ [Next]_vars => FaresInv'
<1> SUFFICES ASSUME FaresInv, [Next]_vars PROVE FaresInv'
  OBVIOUS
<1>1. ASSUME NEW t \in Types,
             Fare!Withdraw(t) \/ (\E card \in Fare!Cards : Fare!Edit(t, card))
      PROVE  FaresInv'
  <2>1. UNCHANGED <<google, cached, asking, quote, buying, bought>>
    BY <1>1 DEF Fare!Withdraw, Fare!Edit
  <2> QED BY <2>1, QuoteStays, AskingStays, BoughtStays DEF FaresInv, BuyingOK
<1>2. ASSUME NEW t \in Types, NEW stops \in Fare!Trips, Fare!Buy(t, stops) PROVE FaresInv'
  <2>1. UNCHANGED <<google, cached, asking, quote, bought>> /\ buying'.trip = stops
    BY <1>2 DEF Fare!Buy
  <2>2. BuyingOK'
    BY <2>1 DEF BuyingOK, Fare!Trips
  <2> QED BY <2>1, <2>2, QuoteStays, AskingStays, BoughtStays DEF FaresInv
<1>3. ASSUME NEW kind, Fare!Ask(kind) PROVE FaresInv'
  <2>1. /\ UNCHANGED <<google, cached, quote, buying, bought>>
        /\ asking' = [kind |-> kind, cards |-> [t \in active |-> cards[t]], roads |-> <<>>, kept |-> TRUE]
    BY <1>3 DEF Fare!Ask
  <2>2. Promises(<<>>, TRUE)'
    BY DEF Promises
  <2>3. AskingOK'
    BY <2>1, <2>2 DEF AskingOK
  <2> QED BY <2>1, <2>3, QuoteStays, BoughtStays DEF FaresInv, BuyingOK
<1>4. CASE UNCHANGED fares
  BY <1>4, QuoteStays, AskingStays, BoughtStays DEF fares, FaresInv, BuyingOK
<1> QED BY <1>1, <1>2, <1>3, <1>4, PriceStep, BoughtStep, ForgetStep, FaresStep DEF Fare!Next

\* They say what is stated of the fares.
LEMMA FaresImplied == FaresInv => Fare!QuoteKept
<1> SUFFICES ASSUME FaresInv, bought # Fare!NoTrip
             PROVE  /\ Fare!Passed(bought.road.line, bought.trip) = bought.trip
                    /\ Fare!PromisedRoad(bought.type) /\ bought.trip = Direct
                         => /\ bought.road = bought.agreed.roads[bought.type]
                            /\ bought.card = bought.agreed.cards[bought.type]
                                 => bought.fare = Fare!Fare(bought.agreed.cards[bought.type],
                                                            bought.agreed.roads[bought.type])
  BY DEF Fare!QuoteKept, Direct
<1>1. Fare!Passed(bought.road.line, bought.trip) = bought.trip
  <2>1. PICK by \in By : bought.road = Fare!Road(bought.trip, by)
    BY DEF FaresInv, BoughtOK
  <2>2. bought.trip \in Fare!Trips
    BY DEF FaresInv, BoughtOK
  <2> QED BY <2>1, <2>2, RoadPasses
<1>2. ASSUME Fare!PromisedRoad(bought.type), bought.trip = Direct
      PROVE  /\ bought.road = bought.agreed.roads[bought.type]
             /\ bought.card = bought.agreed.cards[bought.type]
                  => bought.fare = Fare!Fare(bought.agreed.cards[bought.type], bought.agreed.roads[bought.type])
  <2>1. bought.road = Googled /\ bought.fare = Fare!Fare(bought.card, bought.road)
    BY <1>2 DEF FaresInv, BoughtOK
  <2>2. bought.agreed.roads[bought.type] = Googled
    BY <1>2 DEF Fare!PromisedRoad, Googled, Direct
  <2> QED BY <2>1, <2>2
<1> QED BY <1>1, <1>2

----------------------------------------------------------------------------
(* The lines.                                                              *)

\* The characters of a number: the equation of the definition, and what they are.
LEMMA GroupsAre ==
  /\ Poly!Groups \in [Nat -> Seq(Int)]
  /\ \A v \in Nat : Poly!Groups[v] = IF v < 32 THEN <<63 + v>> ELSE <<95 + (v % 32)>> \o Poly!Groups[v \div 32]
<1> DEFINE V == Seq(Int)
           F(f) == [v \in Nat |-> IF v < 32 THEN <<Poly!Base + v>>
                                 ELSE <<Poly!Base + 32 + (v % 32)>> \o f[v \div 32]]
           base == [v \in Nat |-> <<63 + v>>]
           prev == [v \in Nat |-> v \div 32]
           D    == [q \in Nat \X V |-> <<95 + (q[1] % 32)>> \o q[2]]
           B    == {v \in Nat : v < 32}
<1>1. /\ base \in [Nat -> V] /\ prev \in [Nat -> Nat]
      /\ \A v \in Nat : v \notin B => prev[v] < v
  OBVIOUS
<1>2. D \in [Nat \X V -> V]
  <2>1. \A v \in Nat, s \in V : <<95 + (v % 32)>> \o s \in V
    <3> SUFFICES ASSUME NEW v \in Nat, NEW s \in V PROVE <<95 + (v % 32)>> \o s \in V
      OBVIOUS
    <3> DEFINE one == <<95 + (v % 32)>>
    <3>1. one \in Seq(Int)
      OBVIOUS
    <3> HIDE DEF one
    <3> QED BY <3>1, ConcatProperties
  <2> QED BY <2>1
<1>3. PICK f \in [Nat -> V] : WalksLower(f, base, B, prev, D)
  <2>1. IsLower(prev, B)
    BY <1>1 DEF IsLower
  <2>2. base \in [Nat -> V] /\ prev \in [Nat -> Nat] /\ D \in [Nat \X V -> V]
    BY <1>1, <1>2
  <2>3. B \in SUBSET Nat
    OBVIOUS
  <2> HIDE DEF V, base, prev, D, B
  <2> QED BY <2>1, <2>2, <2>3, FromALowerOne
<1>4. \A v \in Nat : f[v] = IF v < 32 THEN <<63 + v>> ELSE <<95 + (v % 32)>> \o f[v \div 32]
  <2>1. \A v \in Nat : v \div 32 \in Nat
    OBVIOUS
  <2> QED BY <1>3, <2>1 DEF WalksLower
<1>0. Poly!Base = 63 /\ \A k \in Int : Poly!Base + 32 + k = 95 + k
  BY DEF Poly!Base
<1>5. f = F(f)
  <2>1. \A v \in Nat : F(f)[v] = f[v]
    <3> SUFFICES ASSUME NEW v \in Nat PROVE F(f)[v] = f[v]
      OBVIOUS
    <3>1. Poly!Base + v = 63 + v /\ Poly!Base + 32 + (v % 32) = 95 + (v % 32)
      BY <1>0
    <3> QED BY <1>4, <3>1
  <2> QED BY <2>1
<1> DEFINE g == CHOOSE g : g = F(g)
<1>6. g = F(g)
  BY <1>5
<1>7. Poly!Groups = g
  BY DEF Poly!Groups
<1>8. \A v \in Nat : g[v] = IF v < 32 THEN <<63 + v>> ELSE <<95 + (v % 32)>> \o g[v \div 32]
  <2> HIDE DEF g
  <2> SUFFICES ASSUME NEW v \in Nat
               PROVE  g[v] = IF v < 32 THEN <<63 + v>> ELSE <<95 + (v % 32)>> \o g[v \div 32]
    OBVIOUS
  <2>1. Poly!Base + v = 63 + v /\ Poly!Base + 32 + (v % 32) = 95 + (v % 32)
    BY <1>0
  <2>2. g[v] = IF v < 32 THEN <<Poly!Base + v>> ELSE <<Poly!Base + 32 + (v % 32)>> \o g[v \div 32]
    BY <1>6
  <2> QED BY <2>1, <2>2
<1> HIDE DEF g
<1>9. \A v \in Nat : g[v] \in Seq(Int)
  <2> DEFINE W == {v \in Nat : g[v] \notin Seq(Int)}
  <2> SUFFICES ASSUME W # {} PROVE FALSE
    OBVIOUS
  <2>1. PICK v \in W : \A k \in W : v <= k
    BY LeastOf
  <2>2. v \in Nat /\ ~(v < 32)
    <3>1. v < 32 => <<63 + v>> \in Seq(Int)
      OBVIOUS
    <3> QED BY <1>8, <3>1
  <2>3. v \div 32 \in Nat /\ v \div 32 < v
    BY <2>2
  <2>4. g[v \div 32] \in Seq(Int)
    BY <2>1, <2>3
  <2>5. g[v] = <<95 + (v % 32)>> \o g[v \div 32]
    BY <1>8, <2>2
  <2> DEFINE one == <<95 + (v % 32)>>
             s == g[v \div 32]
  <2>6. one \in Seq(Int)
    OBVIOUS
  <2>7. one \o s \in Seq(Int)
    <3> HIDE DEF one, s
    <3>1. s \in Seq(Int)
      BY <2>4 DEF s
    <3> QED BY <2>6, <3>1, ConcatProperties
  <2> QED BY <2>5, <2>7
<1>10. g \in [Nat -> Seq(Int)]
  BY <1>6, <1>9
<1> QED BY <1>7, <1>8, <1>10

\* A number and its sign.
LEMMA Zigzags ==
  ASSUME NEW v \in Int
  PROVE  Poly!Zigzag(v) \in Nat /\ Poly!Unzigzag(Poly!Zigzag(v)) = v
BY DEF Poly!Zigzag, Poly!Unzigzag

\* A number that is being read, and those that have been.
Reading == [sum : Int, weight : Int, done : Seq(Int)]
Start   == [sum |-> 0, weight |-> 1, done |-> <<>>]

\* A character leaves a number that is being read.
LEMMA BitsAreRead ==
  ASSUME NEW r \in Reading, NEW char \in Int
  PROVE  Poly!Bits(r, char) \in Reading
<1> DEFINE v == char - 63
           sum == r.sum + (v % 32) * r.weight
<1>1. v \in Int /\ r.sum \in Int /\ r.weight \in Int /\ r.done \in Seq(Int)
  BY DEF Reading
<1>2. sum \in Int
  <2>1. v % 32 \in Int
    BY <1>1
  <2> HIDE DEF v
  <2>2. (v % 32) * r.weight \in Int
    BY <1>1, <2>1
  <2> QED BY <1>1, <2>2
<1> HIDE DEF sum
<1>3. Poly!Unzigzag(sum) \in Int
  BY <1>2 DEF Poly!Unzigzag
<1>4. Append(r.done, Poly!Unzigzag(sum)) \in Seq(Int)
  BY <1>1, <1>3, AppendProperties
<1>5. Poly!Bits(r, char) = IF v >= 32 THEN [sum |-> sum, weight |-> r.weight * 32, done |-> r.done]
                           ELSE [sum |-> 0, weight |-> 1, done |-> Append(r.done, Poly!Unzigzag(sum))]
  BY DEF Poly!Bits, Poly!Base, sum
<1> HIDE DEF v
<1>6. [sum |-> sum, weight |-> r.weight * 32, done |-> r.done] \in Reading
  <2>1. r.weight * 32 \in Int
    BY <1>1
  <2> QED BY <1>1, <1>2, <2>1 DEF Reading
<1>7. [sum |-> 0, weight |-> 1, done |-> Append(r.done, Poly!Unzigzag(sum))] \in Reading
  BY <1>4 DEF Reading
<1> QED BY <1>5, <1>6, <1>7

\* h is what is read after each character.
ReadsUp(h, chars) ==
  /\ h[0] = Start
  /\ \A i \in 1 .. Len(chars) : h[i] = Poly!Bits(h[i - 1], chars[i])

\* Characters are read one after the other.
LEMMA NumbersRun ==
  ASSUME NEW chars \in Seq(Int)
  PROVE  \E h : ReadsUp(h, chars) /\ Poly!Numbers(chars) = h[Len(chars)].done
<1> DEFINE n == Len(chars)
           V == Reading
           Then(r, x) == Poly!Bits(r, x)
           F(g) == [s \in SUBSET (1 .. n) |-> IF s = {} THEN Start ELSE Then(g[s \ {Poly!Max(s)}], chars[Poly!Max(s)])]
           D == [q \in (1 .. n) \X V |-> Then(q[2], chars[q[1]])]
           g == CHOOSE g : g = F(g)
<1>1. n \in Nat /\ DOMAIN chars = 1 .. n /\ \A i \in 1 .. n : chars[i] \in Int
  OBVIOUS
<1>2. D \in [(1 .. n) \X V -> V] /\ Start \in V
  <2>1. \A i \in 1 .. n, r \in V : Then(r, chars[i]) \in V
    BY <1>1, BitsAreRead
  <2>2. Start \in V
    BY DEF Start, Reading
  <2> HIDE DEF Then
  <2> QED BY <2>1, <2>2
<1> HIDE DEF Then
<1>3. PICK f \in [SUBSET (1 .. n) -> V] : WalksDown(f, n, Start, D)
  <2> HIDE DEF D, V
  <2> QED BY <1>1, <1>2, FromTheLastBefore
<1>4. f = F(f)
  <2>1. \A s \in SUBSET (1 .. n) : s # {} => D[<<Last(s), f[s \ {Last(s)}]>>] = F(f)[s]
    <3>1. \A s \in SUBSET (1 .. n) : s # {} => Last(s) \in s /\ Last(s) = Poly!Max(s)
      BY <1>1, LastIn DEF Last, Poly!Max
    <3> QED BY <3>1
  <2> HIDE DEF D
  <2> QED BY <1>3, <2>1 DEF WalksDown
<1>5. g = F(g)
  BY <1>4
<1>6. Poly!Numbers(chars) = g[1 .. n].done
  BY <1>1 DEF Poly!Numbers, Poly!FoldLeft, Poly!MapThenFoldSet, Then, Start
<1>7. \A i \in 1 .. n : g[1 .. i] = Then(g[1 .. i - 1], chars[i])
  <2> HIDE DEF g
  <2> SUFFICES ASSUME NEW i \in 1 .. n PROVE g[1 .. i] = Then(g[1 .. i - 1], chars[i])
    OBVIOUS
  <2>1. Last(1 .. i) = i /\ 1 .. i \in SUBSET (1 .. n) /\ 1 .. i # {} /\ (1 .. i) \ {i} = 1 .. i - 1
    BY <1>1, UpTo
  <2>2. Poly!Max(1 .. i) = i
    BY <2>1 DEF Last, Poly!Max
  <2> QED BY <1>5, <2>1, <2>2
<1> DEFINE h == [i \in 0 .. n |-> g[1 .. i]]
<1>8. ReadsUp(h, chars) /\ Poly!Numbers(chars) = h[n].done
  <2> HIDE DEF g
  <2>1. g[1 .. 0] = Start
    BY <1>1, <1>5
  <2>2. h[0] = Start
    BY <1>1, <2>1
  <2>3. \A i \in 1 .. n : h[i] = g[1 .. i] /\ h[i - 1] = g[1 .. i - 1]
    BY <1>1
  <2> HIDE DEF h
  <2>4. \A i \in 1 .. n : h[i] = Then(h[i - 1], chars[i])
    BY <1>7, <2>3
  <2>5. h[n] = g[1 .. n]
    BY <1>1 DEF h
  <2> QED BY <1>6, <2>2, <2>4, <2>5 DEF ReadsUp, Then
<1> HIDE DEF h
<1> QED BY <1>8

\* The characters of s are in chars from the one after p on.
Has(chars, p, s) == p + Len(s) <= Len(chars) /\ \A j \in 1 .. Len(s) : chars[p + j] = s[j]

\* From any character on where they are the number's, they are read as v, in a number that is
\* being read already as its higher bits.
ReadsNumber(h, chars, v) ==
  \A p \in Nat, s \in Int, w \in Int, d \in Seq(Int) :
    h[p] = [sum |-> s, weight |-> w, done |-> d] /\ Has(chars, p, Poly!Groups[v])
      => h[p + Len(Poly!Groups[v])] = [sum |-> 0, weight |-> 1, done |-> Append(d, Poly!Unzigzag(s + v * w))]

\* The characters of a number are read as the number.
LEMMA GroupsRead ==
  ASSUME NEW chars \in Seq(Int), NEW h, ReadsUp(h, chars), NEW v \in Nat
  PROVE  ReadsNumber(h, chars, v)
<1> DEFINE Begun(p, s, w, d, u) == h[p] = [sum |-> s, weight |-> w, done |-> d] /\ Has(chars, p, Poly!Groups[u])
           Ended(p, s, w, d, u) ==
             h[p + Len(Poly!Groups[u])] = [sum |-> 0, weight |-> 1, done |-> Append(d, Poly!Unzigzag(s + u * w))]
           Read(u) == \A p \in Nat, s \in Int, w \in Int, d \in Seq(Int) : Begun(p, s, w, d, u) => Ended(p, s, w, d, u)
           W == {u \in Nat : ~Read(u)}
<1> SUFFICES ASSUME W # {} PROVE FALSE
  BY DEF ReadsNumber
<1>1. PICK u \in W : \A k \in W : u <= k
  <2> HIDE DEF Read
  <2> QED BY LeastOf
<1>2. PICK p \in Nat, s \in Int, w \in Int, d \in Seq(Int) : Begun(p, s, w, d, u) /\ ~Ended(p, s, w, d, u)
  <2> HIDE DEF Begun, Ended
  <2> QED BY <1>1
<1> HIDE DEF Read
<1>3. u \in Nat /\ Poly!Groups[u] \in Seq(Int)
  BY GroupsAre
<1>4. ASSUME NEW c \in Int, p + 1 <= Len(chars), chars[p + 1] = 63 + c
      PROVE  h[p + 1] = IF c >= 32 THEN [sum |-> s + (c % 32) * w, weight |-> w * 32, done |-> d]
                        ELSE [sum |-> 0, weight |-> 1, done |-> Append(d, Poly!Unzigzag(s + (c % 32) * w))]
  <2>1. p + 1 \in 1 .. Len(chars) /\ (p + 1) - 1 = p
    BY <1>4
  <2>2. h[p + 1] = Poly!Bits(h[p], 63 + c)
    <3> DEFINE i == p + 1
    <3>1. i \in 1 .. Len(chars) /\ i - 1 = p /\ chars[i] = 63 + c
      BY <1>4, <2>1
    <3> HIDE DEF i
    <3>2. h[i] = Poly!Bits(h[p], 63 + c)
      BY <3>1 DEF ReadsUp
    <3> QED BY <3>2 DEF i
  <2>3. (63 + c) - 63 = c
    BY <1>4
  <2> DEFINE r == h[p]
  <2>4. r = [sum |-> s, weight |-> w, done |-> d]
    BY <1>2
  <2>5. r.sum = s /\ r.weight = w /\ r.done = d
    BY <2>4
  <2> HIDE DEF r
  <2>6. Poly!Bits(r, 63 + c) = IF c >= 32 THEN [sum |-> r.sum + (c % 32) * r.weight, weight |-> r.weight * 32, done |-> r.done]
                               ELSE [sum |-> 0, weight |-> 1,
                                     done |-> Append(r.done, Poly!Unzigzag(r.sum + (c % 32) * r.weight))]
    BY <2>3 DEF Poly!Bits, Poly!Base
  <2>7. h[p + 1] = Poly!Bits(r, 63 + c)
    BY <2>2 DEF r
  <2> QED BY <2>5, <2>6, <2>7
<1>5. CASE u < 32
  <2> DEFINE one == <<63 + u>>
  <2>1. one \in Seq(Int) /\ Len(one) = 1 /\ one[1] = 63 + u /\ Poly!Groups[u] = one
    BY <1>3, <1>5, GroupsAre
  <2> HIDE DEF one
  <2>2. p + 1 <= Len(chars) /\ chars[p + 1] = 63 + u
    <3>1. PICK m \in 1 .. Len(one) : m = 1
      BY <2>1
    <3>2. p + Len(one) <= Len(chars) /\ chars[p + m] = one[m]
      BY <1>2, <2>1 DEF Has
    <3> QED BY <2>1, <3>1, <3>2
  <2>3. u % 32 = u
    <3>1. u \in Nat
      BY <1>3
    <3> QED BY <1>5, <3>1, FiveBits
  <2>4. h[p + 1] = [sum |-> 0, weight |-> 1, done |-> Append(d, Poly!Unzigzag(s + u * w))]
    <3>1. u \in Int /\ ~(u >= 32)
      BY <1>3, <1>5
    <3> QED BY <1>4, <2>2, <2>3, <3>1
  <2> QED BY <1>2, <2>1, <2>4
<1>6. CASE ~(u < 32)
  <2> DEFINE a == u \div 32
             b == u % 32
             one == <<95 + b>>
             more == Poly!Groups[a]
             c == 32 + b
  <2>1. a \in Nat /\ a < u /\ b \in Nat /\ b < 32 /\ u = a * 32 + b
    <3>1. u \in Nat /\ u >= 32
      BY <1>3, <1>6
    <3> QED BY <3>1, FiveBits
  <2>2. one \in Seq(Int) /\ Len(one) = 1 /\ one[1] = 95 + b
    BY <2>1
  <2>3. Poly!Groups[u] = one \o more /\ more \in Seq(Int)
    BY <1>3, <1>6, <2>1, GroupsAre
  <2> HIDE DEF a, b, one, more
  <2>4. Len(one \o more) = 1 + Len(more) /\ (one \o more)[1] = 95 + b /\ Len(more) \in Nat
        /\ \A j \in 1 .. Len(more) : (one \o more)[1 + j] = more[j]
    <3>1. /\ Len(one \o more) = Len(one) + Len(more)
          /\ \A j \in 1 .. Len(one) + Len(more) :
               (one \o more)[j] = IF j <= Len(one) THEN one[j] ELSE more[j - Len(one)]
      BY <2>2, <2>3, ConcatProperties
    <3>2. Len(more) \in Nat
      BY <2>3
    <3>3. ASSUME NEW j \in 1 .. Len(more) PROVE (one \o more)[1 + j] = more[j]
      <4>1. 1 + j \in 1 .. 1 + Len(more) /\ ~(1 + j <= 1) /\ (1 + j) - 1 = j
        BY <3>2
      <4> QED BY <2>2, <3>1, <4>1
    <3>4. 1 \in 1 .. 1 + Len(more)
      BY <3>2
    <3> QED BY <2>2, <3>1, <3>2, <3>3, <3>4
  <2>5. p + 1 + Len(more) <= Len(chars) /\ chars[p + 1] = 95 + b
        /\ \A j \in 1 .. Len(more) : chars[p + 1 + j] = more[j]
    <3> DEFINE all == one \o more
    <3>1. p + Len(all) <= Len(chars) /\ \A j \in 1 .. Len(all) : chars[p + j] = all[j]
      BY <1>2, <2>3 DEF Has
    <3>2. Len(all) = 1 + Len(more) /\ all[1] = 95 + b /\ Len(more) \in Nat
          /\ \A j \in 1 .. Len(more) : all[1 + j] = more[j]
      BY <2>4
    <3> HIDE DEF all
    <3>3. \A j \in 1 .. Len(more) : 1 + j \in 1 .. Len(all) /\ p + (1 + j) = p + 1 + j
      BY <3>2
    <3>4. 1 \in 1 .. Len(all) /\ p + (1 + Len(more)) = p + 1 + Len(more)
      BY <3>2
    <3>5. \A j \in 1 .. Len(more) : chars[p + 1 + j] = more[j]
      BY <3>1, <3>2, <3>3
    <3> QED BY <3>1, <3>2, <3>4, <3>5
  <2>6. h[p + 1] = [sum |-> s + b * w, weight |-> w * 32, done |-> d]
    <3>1. c \in Int /\ c >= 32 /\ c % 32 = b /\ 63 + c = 95 + b
      BY <2>1, FiveBits
    <3>2. p + 1 <= Len(chars)
      BY <2>4, <2>5
    <3> HIDE DEF c
    <3> QED BY <1>4, <2>5, <3>1, <3>2
  <2>7. Read(a)
    BY <1>1, <2>1
  <2>8. s + b * w \in Int /\ w * 32 \in Int /\ p + 1 \in Nat
    <3>1. b * w \in Int
      BY <2>1
    <3> QED BY <3>1
  <2>9. h[(p + 1) + Len(more)]
          = [sum |-> 0, weight |-> 1, done |-> Append(d, Poly!Unzigzag((s + b * w) + a * (w * 32)))]
    <3> DEFINE q == p + 1
               t == s + b * w
               x == w * 32
    <3>1. Has(chars, q, more) /\ h[q] = [sum |-> t, weight |-> x, done |-> d] /\ q \in Nat /\ t \in Int /\ x \in Int
      BY <2>5, <2>6, <2>8 DEF Has
    <3> HIDE DEF q, t, x
    <3>2. Begun(q, t, x, d, a)
      BY <3>1 DEF more
    <3>3. Ended(q, t, x, d, a)
      <4> HIDE DEF Begun, Ended
      <4> QED BY <2>7, <3>1, <3>2 DEF Read
    <3>4. h[q + Len(more)] = [sum |-> 0, weight |-> 1, done |-> Append(d, Poly!Unzigzag(t + a * x))]
      BY <3>3 DEF more
    <3> QED BY <3>4 DEF q, t, x
  <2>10. (s + b * w) + a * (w * 32) = s + u * w
    <3>1. a * (w * 32) = (a * 32) * w
      BY <2>1
    <3>2. (a * 32 + b) * w = (a * 32) * w + b * w
      BY <2>1
    <3>3. (a * 32) * w \in Int /\ b * w \in Int
      BY <2>1
    <3> QED BY <2>1, <3>1, <3>2, <3>3
  <2>11. (p + 1) + Len(more) = p + Len(Poly!Groups[u])
    BY <2>3, <2>4
  <2> QED BY <1>2, <2>9, <2>10, <2>11
<1> QED BY <1>5, <1>6

\* t adds up every other number from the k-th on.
AddsUp(t, numbers, n, k) == t[0] = 0 /\ \A i \in 1 .. n : t[i] = t[i - 1] + numbers[2 * i - 2 + k]

\* The differences are added up one after the other.
LEMMA TotalRuns ==
  ASSUME NEW n \in Nat, NEW k, NEW numbers, \A i \in 1 .. n : numbers[2 * i - 2 + k] \in Int
  PROVE  \E t : AddsUp(t, numbers, n, k) /\ Poly!Total(numbers, n, k) = t[n]
<1> DEFINE x == [i \in 1 .. n |-> numbers[2 * i - 2 + k]]
           Then(sum, i) == sum + numbers[2 * i - 2 + k]
           F(g) == [s \in SUBSET (1 .. n) |-> IF s = {} THEN 0 ELSE Then(g[s \ {Poly!Max(s)}], Poly!Max(s))]
           D == [q \in (1 .. n) \X Int |-> Then(q[2], q[1])]
           g == CHOOSE g : g = F(g)
<1>2. D \in [(1 .. n) \X Int -> Int]
  BY DEF Then
<1>3. PICK f \in [SUBSET (1 .. n) -> Int] : WalksDown(f, n, 0, D)
  <2>1. 0 \in Int /\ n \in Nat
    OBVIOUS
  <2> HIDE DEF D
  <2> QED BY <1>2, <2>1, FromTheLastBefore
<1> HIDE DEF Then
<1>4. f = F(f)
  <2>1. \A s \in SUBSET (1 .. n) : s # {} => D[<<Last(s), f[s \ {Last(s)}]>>] = F(f)[s]
    <3>1. \A s \in SUBSET (1 .. n) : s # {} => Last(s) \in s /\ Last(s) = Poly!Max(s)
      BY LastIn DEF Last, Poly!Max
    <3> QED BY <3>1
  <2> HIDE DEF D
  <2> QED BY <1>3, <2>1 DEF WalksDown
<1>5. g = F(g)
  BY <1>4
<1>6. Poly!Total(numbers, n, k) = g[1 .. n]
  <2> DEFINE ids == [i \in 1 .. n |-> i]
             G(e) == [s \in SUBSET (1 .. n) |-> IF s = {} THEN 0 ELSE Then(e[s \ {Poly!Max(s)}], ids[Poly!Max(s)])]
  <2>1. Poly!Total(numbers, n, k) = (CHOOSE e : e = G(e))[1 .. n]
    BY DEF Poly!Total, Poly!FoldLeft, Poly!MapThenFoldSet, Then
  <2>2. \A e : G(e) = F(e)
    <3>1. \A s \in SUBSET (1 .. n) : s # {} => ids[Poly!Max(s)] = Poly!Max(s)
      <4>1. \A s \in SUBSET (1 .. n) : s # {} => Poly!Max(s) \in 1 .. n
        BY LastIn DEF Last, Poly!Max
      <4> QED BY <4>1
    <3> HIDE DEF ids
    <3> QED BY <3>1
  <2>3. (CHOOSE e : e = G(e)) = g
    <3> HIDE DEF F, G
    <3> QED BY <2>2
  <2> QED BY <2>1, <2>3
<1>7. \A i \in 1 .. n : g[1 .. i] = Then(g[1 .. i - 1], i)
  <2> HIDE DEF g
  <2> SUFFICES ASSUME NEW i \in 1 .. n PROVE g[1 .. i] = Then(g[1 .. i - 1], i)
    OBVIOUS
  <2>1. Last(1 .. i) = i /\ 1 .. i \in SUBSET (1 .. n) /\ 1 .. i # {} /\ (1 .. i) \ {i} = 1 .. i - 1
    BY UpTo
  <2>2. Poly!Max(1 .. i) = i
    BY <2>1 DEF Last, Poly!Max
  <2> QED BY <1>5, <2>1, <2>2
<1> DEFINE h == [i \in 0 .. n |-> g[1 .. i]]
<1>8. AddsUp(h, numbers, n, k) /\ Poly!Total(numbers, n, k) = h[n]
  <2> HIDE DEF g
  <2>1. g[1 .. 0] = 0
    BY <1>5
  <2>2. h[0] = 0
    BY <2>1
  <2>3. \A i \in 1 .. n : h[i] = g[1 .. i] /\ h[i - 1] = g[1 .. i - 1]
    OBVIOUS
  <2> HIDE DEF h
  <2>4. \A i \in 1 .. n : h[i] = Then(h[i - 1], i)
    BY <1>7, <2>3
  <2>5. h[n] = g[1 .. n]
    BY DEF h
  <2> QED BY <1>6, <2>2, <2>4, <2>5 DEF AddsUp, Then
<1> HIDE DEF h
<1> QED BY <1>8

\* e is what is written after each point.
WritesUp(e, points) ==
  /\ e \in [0 .. Len(points) -> Seq(Int)] /\ e[0] = <<>>
  /\ \A i \in 1 .. Len(points) : e[i] = e[i - 1] \o Poly!Code(points, i)

\* What has been written before a point.
Before(points, i) == IF i = 1 THEN <<0, 0>> ELSE points[i - 1]

\* How far it is to a point.
Across(points, i, k) == points[i][k] - Before(points, i)[k]

\* A point is written as two numbers.
LEMMA CodeIs ==
  ASSUME NEW points \in Seq(Int \X Int), NEW i \in 1 .. Len(points)
  PROVE  /\ Across(points, i, 1) \in Int /\ Across(points, i, 2) \in Int
         /\ Poly!Code(points, i)
              = Poly!Groups[Poly!Zigzag(Across(points, i, 1))] \o Poly!Groups[Poly!Zigzag(Across(points, i, 2))]
         /\ Poly!Code(points, i) \in Seq(Int)
<1>1. points[i] \in Int \X Int /\ Before(points, i) \in Int \X Int
  <2>1. i # 1 => i - 1 \in 1 .. Len(points)
    OBVIOUS
  <2> QED BY <2>1 DEF Before
<1>2. Across(points, i, 1) \in Int /\ Across(points, i, 2) \in Int
  BY <1>1 DEF Across
<1>3. Poly!Code(points, i)
        = Poly!Groups[Poly!Zigzag(Across(points, i, 1))] \o Poly!Groups[Poly!Zigzag(Across(points, i, 2))]
  BY DEF Poly!Code, Poly!Origin, Across, Before
<1>4. Poly!Code(points, i) \in Seq(Int)
  <2>1. /\ Poly!Groups[Poly!Zigzag(Across(points, i, 1))] \in Seq(Int)
        /\ Poly!Groups[Poly!Zigzag(Across(points, i, 2))] \in Seq(Int)
    BY <1>2, Zigzags, GroupsAre
  <2> QED BY <1>3, <2>1, ConcatProperties
<1> QED BY <1>2, <1>3, <1>4

\* Points are written one after the other.
LEMMA EncodeRuns ==
  ASSUME NEW points \in Seq(Int \X Int)
  PROVE  \E e : WritesUp(e, points) /\ Poly!Encode(points) = e[Len(points)]
<1> DEFINE n == Len(points)
           c == [i \in 1 .. n |-> Poly!Code(points, i)]
           F(g) == [i \in 1 .. n |-> IF i = 1 THEN c[i] ELSE g[i - 1] \o c[i]]
           D == [q \in Seq(Int) \X (1 .. n) |-> q[1] \o c[q[2]]]
           g == CHOOSE g : g = F(g)
<1>1. n \in Nat /\ \A i \in 1 .. n : c[i] \in Seq(Int) /\ c[i] = Poly!Code(points, i)
  <2>1. \A i \in 1 .. Len(points) : Poly!Code(points, i) \in Seq(Int)
    BY CodeIs
  <2> QED BY <2>1
<1>2. Len(c) = n
  BY <1>1
<1>3. CASE n = 0
  <2> DEFINE e == [i \in 0 .. 0 |-> <<>>]
  <2>1. WritesUp(e, points)
    BY <1>3 DEF WritesUp
  <2>2. c = <<>>
    BY <1>3
  <2>3. Poly!Encode(points) = c
    BY <1>2, <1>3 DEF Poly!Encode, Poly!FlattenSeq
  <2> QED BY <1>3, <2>1, <2>2, <2>3
<1>4. CASE n # 0
  <2> HIDE DEF c
  <2>1. D \in [Seq(Int) \X (1 .. n) -> Seq(Int)] /\ <<>> \in Seq(Int)
    BY <1>1, ConcatProperties
  <2>2. PICK f \in [0 .. n -> Seq(Int)] : WalksUp(f, n, <<>>, D)
    <3> DEFINE V == Seq(Int)
               b == <<>>
    <3>1. n \in Nat /\ b \in V /\ D \in [V \X (1 .. n) -> V]
      BY <1>1, <2>1
    <3> HIDE DEF D, V, b, n
    <3>2. \E f \in [0 .. n -> V] : WalksUp(f, n, b, D)
      BY <3>1, FromTheOneBefore
    <3> QED BY <3>2 DEF V, b
  <2>3. f[0] = <<>> /\ \A i \in 1 .. n : f[i] = f[i - 1] \o c[i]
    <3>1. \A i \in 1 .. n : i \in 0 .. n /\ i # 0 /\ f[i - 1] \in Seq(Int)
      <4>1. \A i \in 1 .. n : i \in 0 .. n /\ i # 0 /\ i - 1 \in 0 .. n
        BY <1>1
      <4> HIDE DEF n
      <4> QED BY <4>1
    <3>2. \A i \in 1 .. n : D[<<f[i - 1], i>>] = f[i - 1] \o c[i]
      BY <3>1
    <3>3. 0 \in 0 .. n
      BY <1>1
    <3> HIDE DEF D
    <3> QED BY <2>2, <3>1, <3>2, <3>3 DEF WalksUp
  <2> DEFINE f1 == [i \in 1 .. n |-> f[i]]
  <2>4. f1 = F(f1)
    <3>1. \A i \in 1 .. n : f1[i] = F(f1)[i]
      <4> SUFFICES ASSUME NEW i \in 1 .. n PROVE f1[i] = F(f1)[i]
        OBVIOUS
      <4>1. CASE i = 1
        <5>1. f[1] = <<>> \o c[1]
          <6>1. i - 1 = 0
            BY <4>1
          <6> QED BY <2>3, <4>1, <6>1
        <5>2. <<>> \o c[1] = c[1]
          BY <1>1, <4>1, ConcatEmptySeq
        <5> QED BY <4>1, <5>1, <5>2
      <4>2. CASE i # 1
        <5>1. i - 1 \in 1 .. n
          BY <1>1, <4>2
        <5> QED BY <2>3, <4>2, <5>1
      <4> QED BY <4>1, <4>2
    <3> QED BY <3>1
  <2>5. g = F(g)
    <3> HIDE DEF f1
    <3> QED BY <2>4
  <2>6. Poly!Encode(points) = g[n]
    BY <1>2, <1>4 DEF Poly!Encode, Poly!FlattenSeq, c
  <2> HIDE DEF g
  <2> DEFINE e == [i \in 0 .. n |-> IF i = 0 THEN <<>> ELSE g[i]]
  <2>7. \A i \in 1 .. n : e[i] = e[i - 1] \o c[i]
    <3> SUFFICES ASSUME NEW i \in 1 .. n PROVE e[i] = e[i - 1] \o c[i]
      OBVIOUS
    <3>1. e[i] = g[i] /\ e[i - 1] = IF i = 1 THEN <<>> ELSE g[i - 1]
      BY <1>1
    <3>2. g[i] = IF i = 1 THEN c[i] ELSE g[i - 1] \o c[i]
      BY <2>5
    <3>3. <<>> \o c[i] = c[i]
      BY <1>1, ConcatEmptySeq
    <3> HIDE DEF e
    <3> QED BY <3>1, <3>2, <3>3
  <2>8. e[0] = <<>> /\ e[n] = g[n]
    BY <1>1, <1>4
  <2>9. e \in [0 .. n -> Seq(Int)]
    <3> DEFINE T == {m \in Nat : m <= n => e[m] \in Seq(Int)}
    <3>1. 0 \in T
      BY <2>8
    <3>2. ASSUME NEW m \in Nat, m \in T PROVE m + 1 \in T
      <4> SUFFICES ASSUME m + 1 <= n PROVE e[m + 1] \in Seq(Int)
        OBVIOUS
      <4>1. e[m] \in Seq(Int) /\ m + 1 \in 1 .. n /\ (m + 1) - 1 = m
        BY <1>1, <3>2
      <4>2. e[m + 1] = e[m] \o c[m + 1] /\ c[m + 1] \in Seq(Int)
        <5> HIDE DEF e
        <5> QED BY <1>1, <2>7, <4>1
      <4> HIDE DEF e
      <4> QED BY <4>1, <4>2, ConcatProperties
    <3>3. Nat \subseteq T
      <4> HIDE DEF T
      <4> QED BY <3>1, <3>2, Induction
    <3>4. \A i \in 0 .. n : e[i] \in Seq(Int)
      <4> HIDE DEF e
      <4>1. \A i \in 0 .. n : i \in Nat /\ i <= n
        BY <1>1
      <4> QED BY <3>3, <4>1
    <3> QED BY <3>4
  <2> HIDE DEF e
  <2> QED BY <1>1, <2>6, <2>7, <2>8, <2>9 DEF WritesUp
<1> QED BY <1>3, <1>4

\* What is in a line stays where it is when the line goes on, and what it goes on with is at its end.
LEMMA HasMore ==
  ASSUME NEW a \in Seq(Int), NEW b \in Seq(Int)
  PROVE  /\ Has(a \o b, Len(a), b)
         /\ \A p \in Nat, s \in Seq(Int) : Has(a, p, s) => Has(a \o b, p, s)
<1> DEFINE all == a \o b
<1>1. /\ Len(all) = Len(a) + Len(b) /\ Len(a) \in Nat /\ Len(b) \in Nat
      /\ \A j \in 1 .. Len(a) + Len(b) : all[j] = IF j <= Len(a) THEN a[j] ELSE b[j - Len(a)]
  BY ConcatProperties
<1> HIDE DEF all
<1>2. Has(all, Len(a), b)
  <2>1. ASSUME NEW j \in 1 .. Len(b) PROVE all[Len(a) + j] = b[j]
    <3>1. Len(a) + j \in 1 .. Len(a) + Len(b) /\ ~(Len(a) + j <= Len(a)) /\ (Len(a) + j) - Len(a) = j
      BY <1>1
    <3> QED BY <1>1, <3>1
  <2> QED BY <1>1, <2>1 DEF Has
<1>3. ASSUME NEW p \in Nat, NEW s \in Seq(Int), Has(a, p, s) PROVE Has(all, p, s)
  <2>1. Len(s) \in Nat
    OBVIOUS
  <2>2. ASSUME NEW j \in 1 .. Len(s) PROVE all[p + j] = s[j]
    <3>1. p + j \in 1 .. Len(a) + Len(b) /\ p + j <= Len(a)
      BY <1>1, <1>3, <2>1 DEF Has
    <3>2. a[p + j] = s[j]
      BY <1>3 DEF Has
    <3> QED BY <1>1, <3>1, <3>2
  <2>3. p + Len(s) <= Len(all)
    BY <1>1, <1>3, <2>1 DEF Has
  <2> QED BY <2>2, <2>3 DEF Has
<1> QED BY <1>2, <1>3 DEF all

\* Of two that are there together, each is there.
LEMMA HasBoth ==
  ASSUME NEW chars \in Seq(Int), NEW p \in Nat, NEW a \in Seq(Int), NEW b \in Seq(Int), Has(chars, p, a \o b)
  PROVE  Has(chars, p, a) /\ Has(chars, p + Len(a), b) /\ p + Len(a) \in Nat
<1> DEFINE all == a \o b
<1>1. /\ Len(all) = Len(a) + Len(b) /\ Len(a) \in Nat /\ Len(b) \in Nat /\ Len(chars) \in Nat
      /\ \A j \in 1 .. Len(a) + Len(b) : all[j] = IF j <= Len(a) THEN a[j] ELSE b[j - Len(a)]
  BY ConcatProperties
<1>2. p + Len(all) <= Len(chars) /\ \A j \in 1 .. Len(all) : chars[p + j] = all[j]
  BY DEF Has
<1> HIDE DEF all
<1>3. Has(chars, p, a)
  <2>1. ASSUME NEW j \in 1 .. Len(a) PROVE chars[p + j] = a[j]
    <3>1. j \in 1 .. Len(a) + Len(b) /\ j <= Len(a)
      BY <1>1
    <3> QED BY <1>1, <1>2, <3>1
  <2> QED BY <1>1, <1>2, <2>1 DEF Has
<1>4. Has(chars, p + Len(a), b)
  <2>1. ASSUME NEW j \in 1 .. Len(b) PROVE chars[(p + Len(a)) + j] = b[j]
    <3> DEFINE i == Len(a) + j
    <3>1. i \in 1 .. Len(a) + Len(b) /\ ~(i <= Len(a)) /\ i - Len(a) = j /\ p + i = (p + Len(a)) + j
      BY <1>1
    <3> HIDE DEF i
    <3> QED BY <1>1, <1>2, <3>1
  <2> QED BY <1>1, <1>2, <2>1 DEF Has
<1> QED BY <1>1, <1>3, <1>4

\* Each point is where the ones before it end.
LEMMA PointsAreThere ==
  ASSUME NEW points \in Seq(Int \X Int), NEW e, WritesUp(e, points)
  PROVE  \A i \in 1 .. Len(points) :
           /\ Has(e[Len(points)], Len(e[i - 1]), Poly!Code(points, i))
           /\ Len(e[i]) = Len(e[i - 1]) + Len(Poly!Code(points, i))
<1> DEFINE n == Len(points)
           c(i) == Poly!Code(points, i)
           T == {m \in Nat : m <= n => \A i \in 1 .. m : Has(e[m], Len(e[i - 1]), c(i))}
<1>1. n \in Nat /\ \A i \in 1 .. n : c(i) \in Seq(Int)
  <2>1. \A i \in 1 .. Len(points) : Poly!Code(points, i) \in Seq(Int)
    BY CodeIs
  <2> QED BY <2>1
<1>2. e \in [0 .. n -> Seq(Int)] /\ \A i \in 1 .. n : e[i] = e[i - 1] \o c(i)
  BY DEF WritesUp
<1> HIDE DEF c, n
<1>3. \A i \in 1 .. n : e[i - 1] \in Seq(Int) /\ Len(e[i - 1]) \in Nat /\ e[i] \in Seq(Int)
  <2> SUFFICES ASSUME NEW i \in 1 .. n PROVE e[i - 1] \in Seq(Int) /\ Len(e[i - 1]) \in Nat /\ e[i] \in Seq(Int)
    OBVIOUS
  <2>1. i \in 0 .. n /\ i - 1 \in 0 .. n
    BY <1>1
  <2>2. e[i - 1] \in Seq(Int) /\ e[i] \in Seq(Int)
    BY <1>2, <2>1
  <2> QED BY <2>2
<1>4. 0 \in T
  OBVIOUS
<1>5. ASSUME NEW m \in Nat, m \in T PROVE m + 1 \in T
  <2> SUFFICES ASSUME m + 1 <= n, NEW i \in 1 .. m + 1 PROVE Has(e[m + 1], Len(e[i - 1]), c(i))
    OBVIOUS
  <2>1. m + 1 \in 1 .. n /\ (m + 1) - 1 = m /\ i \in 1 .. n
    BY <1>1
  <2>2. e[m + 1] = e[m] \o c(m + 1) /\ c(m + 1) \in Seq(Int) /\ e[m] \in Seq(Int)
    <3> DEFINE u == m + 1
    <3>1. u \in 1 .. n /\ u - 1 = m
      BY <2>1
    <3> HIDE DEF u
    <3>2. e[u] = e[m] \o c(u) /\ c(u) \in Seq(Int) /\ e[m] \in Seq(Int)
      BY <1>1, <1>2, <1>3, <3>1
    <3> QED BY <3>2 DEF u
  <2>3. CASE i = m + 1
    <3>1. Has(e[m] \o c(m + 1), Len(e[m]), c(m + 1))
      BY <2>2, HasMore
    <3> QED BY <2>1, <2>2, <2>3, <3>1
  <2>4. CASE i # m + 1
    <3>1. i \in 1 .. m
      BY <2>4
    <3>2. Has(e[m], Len(e[i - 1]), c(i))
      <4>1. m <= n
        BY <1>1
      <4> QED BY <1>5, <3>1, <4>1
    <3>3. Len(e[i - 1]) \in Nat /\ c(i) \in Seq(Int)
      BY <1>1, <1>3, <2>1
    <3> QED BY <2>2, <3>2, <3>3, HasMore
  <2> QED BY <2>3, <2>4
<1>6. Nat \subseteq T
  <2> HIDE DEF T
  <2> QED BY <1>4, <1>5, Induction
<1>7. \A i \in 1 .. n : Has(e[n], Len(e[i - 1]), c(i))
  BY <1>1, <1>6
<1>8. \A i \in 1 .. n : Len(e[i]) = Len(e[i - 1]) + Len(c(i))
  <2> SUFFICES ASSUME NEW i \in 1 .. n PROVE Len(e[i]) = Len(e[i - 1]) + Len(c(i))
    OBVIOUS
  <2>1. e[i] = e[i - 1] \o c(i) /\ e[i - 1] \in Seq(Int) /\ c(i) \in Seq(Int)
    BY <1>1, <1>2, <1>3
  <2> QED BY <2>1, ConcatProperties
<1> QED BY <1>7, <1>8 DEF c, n

\* d has the differences up to the m-th point.
Differences(d, points, m) ==
  /\ d \in Seq(Int) /\ Len(d) = 2 * m
  /\ \A i \in 1 .. m : d[2 * i - 1] = Across(points, i, 1) /\ d[2 * i] = Across(points, i, 2)

\* Two more of them.
LEMMA TwoMore ==
  ASSUME NEW points, NEW m \in Nat, NEW d, Differences(d, points, m), NEW x \in Int, NEW y \in Int,
         x = Across(points, m + 1, 1), y = Across(points, m + 1, 2)
  PROVE  Append(d, x) \in Seq(Int) /\ Differences(Append(Append(d, x), y), points, m + 1)
<1> DEFINE f == Append(d, x)
           g == Append(f, y)
<1>1. d \in Seq(Int) /\ Len(d) = 2 * m
  BY DEF Differences
<1>2. f \in Seq(Int) /\ Len(f) = 2 * m + 1 /\ f[2 * m + 1] = x /\ \A j \in 1 .. 2 * m : f[j] = d[j]
  BY <1>1, AppendProperties
<1> HIDE DEF f
<1>3. g \in Seq(Int) /\ Len(g) = Len(f) + 1 /\ g[Len(f) + 1] = y /\ \A j \in 1 .. Len(f) : g[j] = f[j]
  BY <1>2, AppendProperties
<1> HIDE DEF g
<1>4. Len(g) = 2 * (m + 1) /\ g[2 * m + 2] = y /\ g[2 * m + 1] = x
  <2>1. 2 * m + 1 \in 1 .. Len(f) /\ Len(f) + 1 = 2 * m + 2
    BY <1>2
  <2> QED BY <1>2, <1>3, <2>1
<1>5. ASSUME NEW i \in 1 .. m + 1 PROVE g[2 * i - 1] = Across(points, i, 1) /\ g[2 * i] = Across(points, i, 2)
  <2>1. CASE i = m + 1
    <3>1. 2 * i - 1 = 2 * m + 1 /\ 2 * i = 2 * m + 2
      BY <2>1
    <3> QED BY <1>4, <2>1, <3>1
  <2>2. CASE i # m + 1
    <3>1. /\ i \in 1 .. m /\ 2 * i - 1 \in 1 .. 2 * m /\ 2 * i \in 1 .. 2 * m
          /\ 2 * i - 1 \in 1 .. Len(f) /\ 2 * i \in 1 .. Len(f)
      BY <1>2, <2>2
    <3>2. d[2 * i - 1] = Across(points, i, 1) /\ d[2 * i] = Across(points, i, 2)
      BY <3>1 DEF Differences
    <3> QED BY <1>2, <1>3, <3>1, <3>2
  <2> QED BY <2>1, <2>2
<1>6. Differences(g, points, m + 1)
  BY <1>3, <1>4, <1>5 DEF Differences
<1> QED BY <1>2, <1>6 DEF f, g

\* What is written is read as the differences.
LEMMA NumbersAre ==
  ASSUME NEW points \in Seq(Int \X Int)
  PROVE  Differences(Poly!Numbers(Poly!Encode(points)), points, Len(points))
<1> DEFINE n == Len(points)
           c(i) == Poly!Code(points, i)
           x(i) == Across(points, i, 1)
           y(i) == Across(points, i, 2)
           first(i) == Poly!Groups[Poly!Zigzag(x(i))]
           second(i) == Poly!Groups[Poly!Zigzag(y(i))]
<1>1. PICK e : WritesUp(e, points) /\ Poly!Encode(points) = e[n]
  BY EncodeRuns
<1> DEFINE chars == e[n]
<1>2. n \in Nat /\ e \in [0 .. n -> Seq(Int)] /\ e[0] = <<>> /\ chars \in Seq(Int)
  BY <1>1 DEF WritesUp
<1>3. PICK h : ReadsUp(h, chars) /\ Poly!Numbers(chars) = h[Len(chars)].done
  <2> HIDE DEF chars
  <2> QED BY <1>2, NumbersRun
<1>4. /\ \A i \in 1 .. n : Has(chars, Len(e[i - 1]), c(i)) /\ Len(e[i]) = Len(e[i - 1]) + Len(c(i))
      /\ \A i \in 1 .. n : x(i) \in Int /\ y(i) \in Int /\ c(i) = first(i) \o second(i)
  <2>1. \A i \in 1 .. Len(points) :
          /\ Has(e[Len(points)], Len(e[i - 1]), Poly!Code(points, i))
          /\ Len(e[i]) = Len(e[i - 1]) + Len(Poly!Code(points, i))
    BY <1>1, PointsAreThere
  <2>2. \A i \in 1 .. Len(points) : x(i) \in Int /\ y(i) \in Int /\ c(i) = first(i) \o second(i)
    BY CodeIs
  <2> QED BY <2>1, <2>2
<1>5. \A i \in 1 .. n :
        /\ Poly!Zigzag(x(i)) \in Nat /\ Poly!Unzigzag(Poly!Zigzag(x(i))) = x(i)
        /\ Poly!Zigzag(y(i)) \in Nat /\ Poly!Unzigzag(Poly!Zigzag(y(i))) = y(i)
        /\ first(i) \in Seq(Int) /\ second(i) \in Seq(Int)
  <2> SUFFICES ASSUME NEW i \in 1 .. n
               PROVE  /\ Poly!Zigzag(x(i)) \in Nat /\ Poly!Unzigzag(Poly!Zigzag(x(i))) = x(i)
                      /\ Poly!Zigzag(y(i)) \in Nat /\ Poly!Unzigzag(Poly!Zigzag(y(i))) = y(i)
                      /\ first(i) \in Seq(Int) /\ second(i) \in Seq(Int)
    OBVIOUS
  <2>1. x(i) \in Int /\ y(i) \in Int
    BY <1>4
  <2> HIDE DEF x, y
  <2>2. /\ Poly!Zigzag(x(i)) \in Nat /\ Poly!Unzigzag(Poly!Zigzag(x(i))) = x(i)
        /\ Poly!Zigzag(y(i)) \in Nat /\ Poly!Unzigzag(Poly!Zigzag(y(i))) = y(i)
    BY <2>1, Zigzags
  <2> QED BY <2>2, GroupsAre
<1> HIDE DEF chars, n, c, x, y
<1> DEFINE Done(d) == [sum |-> 0, weight |-> 1, done |-> d]
           T == {m \in Nat : m <= n => \E d : h[Len(e[m])] = Done(d) /\ Differences(d, points, m)}
<1>6. 0 \in T
  <2>1. Len(e[0]) = 0
    BY <1>2
  <2>2. h[0] = Done(<<>>)
    BY <1>3 DEF ReadsUp, Start
  <2>3. Differences(<<>>, points, 0)
    BY DEF Differences
  <2> QED BY <2>1, <2>2, <2>3
<1>7. ASSUME NEW m \in Nat, m \in T PROVE m + 1 \in T
  <2> SUFFICES ASSUME m + 1 <= n
               PROVE  \E d : h[Len(e[m + 1])] = Done(d) /\ Differences(d, points, m + 1)
    OBVIOUS
  <2> DEFINE i == m + 1
  <2>1. i \in 1 .. n /\ i - 1 = m /\ m \in 0 .. n /\ m <= n
    BY <1>2
  <2>2. PICK d : h[Len(e[m])] = Done(d) /\ Differences(d, points, m)
    BY <1>7, <2>1
  <2> HIDE DEF i
  <2> DEFINE p == Len(e[m])
             a == first(i)
             b == second(i)
  <2>3. p \in Nat
    <3>1. e[m] \in Seq(Int)
      BY <1>2, <2>1
    <3> QED BY <3>1
  <2>4. a \in Seq(Int) /\ b \in Seq(Int) /\ Has(chars, p, a \o b) /\ Len(e[i]) = p + Len(a \o b)
    BY <1>4, <1>5, <2>1
  <2>5. d \in Seq(Int)
    BY <2>2 DEF Differences
  <2>6. h[p] = Done(d)
    BY <2>2
  <2>7. x(i) \in Int /\ y(i) \in Int
    BY <1>4, <2>1
  <2>8. Append(d, x(i)) \in Seq(Int) /\ Differences(Append(Append(d, x(i)), y(i)), points, i)
    <3>1. x(i) = Across(points, m + 1, 1) /\ y(i) = Across(points, m + 1, 2) /\ i = m + 1
      BY DEF x, y, i
    <3> DEFINE u == x(i)
               v == y(i)
    <3>2. u \in Int /\ v \in Int /\ u = Across(points, m + 1, 1) /\ v = Across(points, m + 1, 2)
      BY <2>7, <3>1
    <3> HIDE DEF u, v
    <3>3. Append(d, u) \in Seq(Int) /\ Differences(Append(Append(d, u), v), points, m + 1)
      BY <2>2, <3>2, TwoMore
    <3> QED BY <3>1, <3>3 DEF u, v
  <2> HIDE DEF p, a, b
  <2>9. Has(chars, p, a) /\ Has(chars, p + Len(a), b) /\ p + Len(a) \in Nat
    BY <1>2, <2>3, <2>4, HasBoth
  <2>10. ASSUME NEW q \in Nat, NEW z \in Int, NEW s \in Seq(Int), h[q] = Done(s), Has(chars, q, Poly!Groups[Poly!Zigzag(z)])
         PROVE  h[q + Len(Poly!Groups[Poly!Zigzag(z)])] = Done(Append(s, z))
    <3> DEFINE k == Poly!Zigzag(z)
    <3>1. k \in Nat /\ Poly!Unzigzag(k) = z
      BY <2>10, Zigzags
    <3> HIDE DEF k
    <3>2. 0 + k * 1 = k
      BY <3>1
    <3>3. h[q + Len(Poly!Groups[k])] = Done(Append(s, Poly!Unzigzag(0 + k * 1)))
      <4>1. Has(chars, q, Poly!Groups[k])
        BY <2>10 DEF k
      <4> DEFINE s0 == 0
                 w0 == 1
      <4>2. s0 \in Int /\ w0 \in Int /\ h[q] = [sum |-> s0, weight |-> w0, done |-> s]
        BY <2>10
      <4> HIDE DEF s0, w0
      <4>3. h[q + Len(Poly!Groups[k])] = [sum |-> 0, weight |-> 1, done |-> Append(s, Poly!Unzigzag(s0 + k * w0))]
        <5>1. ReadsNumber(h, chars, k)
          BY <1>2, <1>3, <3>1, GroupsRead
        <5> QED BY <2>10, <4>1, <4>2, <5>1 DEF ReadsNumber
      <4> QED BY <4>3 DEF s0, w0
    <3> QED BY <3>1, <3>2, <3>3 DEF k
  <2>11. h[p + Len(a)] = Done(Append(d, x(i)))
    <3>1. Has(chars, p, Poly!Groups[Poly!Zigzag(x(i))])
      BY <2>9 DEF a
    <3>2. h[p + Len(Poly!Groups[Poly!Zigzag(x(i))])] = Done(Append(d, x(i)))
      <4> HIDE DEF Done
      <4> QED BY <2>3, <2>5, <2>6, <2>7, <2>10, <3>1
    <3> QED BY <3>2 DEF a
  <2>12. h[(p + Len(a)) + Len(b)] = Done(Append(Append(d, x(i)), y(i)))
    <3>1. Has(chars, p + Len(a), Poly!Groups[Poly!Zigzag(y(i))])
      BY <2>9 DEF b
    <3>2. h[(p + Len(a)) + Len(Poly!Groups[Poly!Zigzag(y(i))])] = Done(Append(Append(d, x(i)), y(i)))
      <4> HIDE DEF Done
      <4> QED BY <2>7, <2>8, <2>9, <2>10, <2>11, <3>1
    <3> QED BY <3>2 DEF b
  <2>13. (p + Len(a)) + Len(b) = Len(e[i])
    <3>1. Len(a \o b) = Len(a) + Len(b) /\ Len(a) \in Nat /\ Len(b) \in Nat
      BY <2>4, ConcatProperties
    <3> QED BY <2>3, <2>4, <3>1
  <2>14. h[Len(e[i])] = Done(Append(Append(d, x(i)), y(i)))
    BY <2>12, <2>13
  <2> QED BY <2>8, <2>14 DEF i
<1>8. Nat \subseteq T
  <2> HIDE DEF T
  <2> QED BY <1>6, <1>7, Induction
<1>9. PICK d : h[Len(e[n])] = Done(d) /\ Differences(d, points, n)
  <2>1. n \in T /\ n <= n
    <3> HIDE DEF T
    <3> QED BY <1>2, <1>8
  <2> QED BY <2>1
<1>10. Poly!Numbers(chars) = d
  BY <1>3, <1>9 DEF chars
<1> QED BY <1>1, <1>9, <1>10 DEF n, chars

\* Differences that are added up are the coordinates.
LEMMA TotalIs ==
  ASSUME NEW points \in Seq(Int \X Int), NEW d, Differences(d, points, Len(points)),
         NEW i \in 1 .. Len(points), NEW k \in {1, 2}
  PROVE  Poly!Total(d, i, k) = points[i][k]
<1> DEFINE n == Len(points)
<1>0. i \in Nat /\ n \in Nat /\ i <= n /\ i # 0
  OBVIOUS
<1>1. ASSUME NEW j \in 1 .. i
      PROVE  d[2 * j - 2 + k] = Across(points, j, k) /\ d[2 * j - 2 + k] \in Int /\ j \in 1 .. n
  <2>1. j \in 1 .. n
    BY <1>0
  <2>2. d[2 * j - 1] = Across(points, j, 1) /\ d[2 * j] = Across(points, j, 2)
    BY <2>1 DEF Differences
  <2>3. Across(points, j, 1) \in Int /\ Across(points, j, 2) \in Int
    BY <2>1, CodeIs
  <2>4. 2 * j - 2 + 1 = 2 * j - 1 /\ 2 * j - 2 + 2 = 2 * j
    BY <2>1
  <2> QED BY <2>1, <2>2, <2>3, <2>4
<1>2. PICK t : AddsUp(t, d, i, k) /\ Poly!Total(d, i, k) = t[i]
  BY <1>0, <1>1, TotalRuns
<1> DEFINE T == {m \in Nat : m <= i => t[m] = IF m = 0 THEN 0 ELSE points[m][k]}
<1>3. 0 \in T
  BY <1>2 DEF AddsUp
<1>4. ASSUME NEW m \in Nat, m \in T PROVE m + 1 \in T
  <2> SUFFICES ASSUME m + 1 <= i PROVE t[m + 1] = points[m + 1][k]
    OBVIOUS
  <2> DEFINE j == m + 1
  <2>1. j \in 1 .. i /\ j - 1 = m /\ j # 0 /\ (j = 1 <=> m = 0) /\ m <= i
    BY <1>0
  <2> HIDE DEF j
  <2>2. t[j] = t[m] + d[2 * j - 2 + k]
    <3>1. t[j] = t[j - 1] + d[2 * j - 2 + k]
      BY <1>2, <2>1 DEF AddsUp
    <3> QED BY <2>1, <3>1
  <2>3. d[2 * j - 2 + k] = points[j][k] - Before(points, j)[k]
    BY <1>1, <2>1 DEF Across
  <2>4. t[m] = Before(points, j)[k]
    <3>1. t[m] = IF m = 0 THEN 0 ELSE points[m][k]
      BY <1>4, <2>1
    <3> QED BY <2>1, <3>1 DEF Before
  <2>5. points[j][k] \in Int /\ Before(points, j)[k] \in Int
    <3>1. j \in 1 .. n /\ (j # 1 => j - 1 \in 1 .. n)
      BY <1>0, <2>1
    <3>2. points[j] \in Int \X Int /\ Before(points, j) \in Int \X Int
      BY <3>1 DEF Before
    <3> QED BY <3>2
  <2>6. t[j] = points[j][k]
    <3> DEFINE u == points[j][k]
               v == Before(points, j)[k]
    <3>1. u \in Int /\ v \in Int /\ t[j] = v + (u - v)
      BY <2>2, <2>3, <2>4, <2>5
    <3> HIDE DEF u, v
    <3>2. t[j] = u
      BY <3>1
    <3> QED BY <3>2 DEF u
  <2> QED BY <2>6 DEF j
<1>5. Nat \subseteq T
  <2> HIDE DEF T
  <2> QED BY <1>3, <1>4, Induction
<1>6. t[i] = points[i][k]
  BY <1>0, <1>5
<1> QED BY <1>2, <1>6

\* Decoding a line that was encoded gives its points back.
THEOREM DecodesWhatEncodes ==
  ASSUME NEW points \in Seq(Int \X Int)
  PROVE  Poly!Decode(Poly!Encode(points)) = points
<1> DEFINE n == Len(points)
           d == Poly!Numbers(Poly!Encode(points))
<1>1. Differences(d, points, n)
  BY NumbersAre
<1>2. n \in Nat /\ Len(d) \div 2 = n
  <2>1. n \in Nat /\ Len(d) = 2 * n
    BY <1>1 DEF Differences
  <2> HIDE DEF d, n
  <2> QED BY <2>1
<1>3. Poly!Decode(Poly!Encode(points)) = [i \in 1 .. n |-> <<Poly!Total(d, i, 1), Poly!Total(d, i, 2)>>]
  BY <1>2 DEF Poly!Decode
<1> HIDE DEF d
<1>4. \A i \in 1 .. n : Poly!Total(d, i, 1) = points[i][1] /\ Poly!Total(d, i, 2) = points[i][2]
  BY <1>1, TotalIs
<1>5. \A i \in 1 .. n : <<Poly!Total(d, i, 1), Poly!Total(d, i, 2)>> = points[i]
  <2>1. \A i \in 1 .. n : points[i] = <<points[i][1], points[i][2]>>
    OBVIOUS
  <2> QED BY <1>4, <2>1
<1>6. points = [i \in 1 .. n |-> points[i]]
  OBVIOUS
<1> QED BY <1>3, <1>5, <1>6

\* What is stated of one line, and of two that are joined, is true of every line with points.
THEOREM EveryLineRoundTrips ==
  ASSUME NEW points \in Seq(Int \X Int) \ {<<>>}
  PROVE  Poly!RoundTrip(points)
<1> DEFINE P == Int \X Int
           more == <<Poly!Last(points), Poly!Origin, <<16, 0>>>>
           all == Poly!Joined(<<points, Poly!Decode(Poly!Encode(more))>>)
<1>1. Poly!Last(points) \in P
  <2>1. Len(points) \in 1 .. Len(points)
    BY EmptySeq
  <2> QED BY <2>1 DEF Poly!Last
<1>2. more \in Seq(P) \ {<<>>} /\ points \in Seq(P) \ {<<>>}
  BY <1>1 DEF Poly!Origin
<1> HIDE DEF more, P
<1>3. Poly!Decode(Poly!Encode(more)) = more /\ Poly!Decode(Poly!Encode(points)) = points
  BY <1>2, DecodesWhatEncodes DEF P
<1>4. all = points \o Tail(more)
  BY <1>2, <1>3, JoinedTwo
<1>5. points \o Tail(more) \in Seq(P)
  <2>1. Tail(more) \in Seq(P)
    BY <1>2, HeadTailProperties
  <2> QED BY <1>2, <2>1, ConcatProperties
<1>6. Poly!Decode(Poly!Encode(all)) = points \o Tail(more)
  BY <1>4, <1>5, DecodesWhatEncodes DEF P
<1> QED BY <1>3, <1>6 DEF Poly!RoundTrip, more

LineInv == line \in Seq(Int \X Int) \ {<<>>}

\* The lines that are written have a point or two, and none changes.
LEMMA LineInit == Init => LineInv
<1> SUFFICES ASSUME Init PROVE LineInv
  OBVIOUS
<1>1. line \in Poly!Lines \/ line = <<Poly!Origin>>
  BY DEF Init
<1>2. ASSUME NEW p \in Int \X Int, NEW q \in Int \X Int PROVE {<<p>>, <<p, q>>} \subseteq Seq(Int \X Int) \ {<<>>}
  OBVIOUS
<1>3. Poly!Origin \in Int \X Int /\ Poly!Points \subseteq Int \X Int /\ {<<0, 1>>, <<-513, 16>>} \subseteq Int \X Int
  BY DEF Poly!Origin, Poly!Points, Poly!Near
<1>4. \/ \E p \in Int \X Int : line = <<p>>
      \/ \E p, q \in Int \X Int : line = <<p, q>>
  BY <1>1, <1>3 DEF Poly!Lines
<1> QED BY <1>2, <1>4 DEF LineInv

\* No step changes it.
LEMMA LineKeep == LineInv /\ [Next]_vars => LineInv'
BY DEF LineInv, Next, vars, server, Tracking

----------------------------------------------------------------------------
(* What the server keeps.                                                  *)

\* What is stated of each part is true of it.
LEMMA KeptImplied == PlacesInv /\ SearchInv /\ FaresInv /\ LineInv => KeepsWhatItShould
BY PlacesImplied, FaresImplied, EveryLineRoundTrips DEF SearchInv, LineInv, KeepsWhatItShould

\* save_place and _cached: the limit of addresses holds but for requests that count
\* together, one Home and one Work, and no failed lookup is remembered as an answer.
\* create_trip: the fare that was shown is the fare of the trip while cards and remembered
\* routes last; decode and encode: a line is read back as it was written.
THEOREM ServerKeeps == Spec => []KeepsWhatItShould
<1>1. Init => PlacesInv /\ SearchInv /\ FaresInv /\ LineInv
  BY PlacesInit, SearchInit, FaresInit, LineInit
<1>2. PlacesInv /\ SearchInv /\ FaresInv /\ LineInv /\ [Next]_vars => (PlacesInv /\ SearchInv /\ FaresInv /\ LineInv)'
  BY PlacesKeep, SearchKeep, FaresKeep, LineKeep
<1> QED BY <1>1, <1>2, KeptImplied, PTL DEF Spec
=============================================================================
