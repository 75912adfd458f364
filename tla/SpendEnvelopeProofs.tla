------------------------- MODULE SpendEnvelopeProofs -------------------------
(***************************************************************************)
(* Safety of SpendEnvelope for any set of threads, purchases, caps, prices *)
(* and quotes.  A thread at each call carries what the checks before that  *)
(* call established (ThreadOK); the bound on the overspend needs an        *)
(* account of the room that the threads past their reading of the ledger   *)
(* may still use up (Owing).                                               *)
(***************************************************************************)
EXTENDS SpendEnvelope, FiniteSetTheorems, TLAPS

LEMMA PurchaseFacts ==
  ASSUME NEW d \in Purchases
  PROVE  /\ d \in Deals /\ d.arm \in Arms /\ d.paid \in Nat
         /\ d.kind \in {"start", "operator"} /\ d.forced \in BOOLEAN
         /\ Backend[d.arm] \in {"local", "linq", "terac"} /\ ListPrice[d.arm] \in Nat
<1>1. d \in Deals
  BY PurchasesAssumption
<1>2. d.arm \in Arms /\ d.paid \in Nat /\ d.kind \in {"start", "operator"} /\ d.forced \in BOOLEAN
  BY <1>1 DEF Deals
<1>3. QED
  BY <1>1, <1>2, ArmsAssumption

-----------------------------------------------------------------------------
(* Type correctness.                                                       *)

LEMMA InitTyped == Init => TypeOK
  BY DEF Init, TypeOK, PCs

\* What the typing of a thread's step rests on: each call moves one thread to a known call,
\* and only Close, an exception and a restart let go of the purchase.
LEMMA StepTyped ==
  ASSUME TypeOK, NEW t \in Threads, Step(t)
  PROVE  TypeOK'
<1> USE DEF TypeOK, PCs, ledgerVars, boundVars, Goto, ServedBy, GiveUp
<1>1. CASE Evaluate(t)
  <2>1. panelCost' \in Nat /\ modelCost' \in Nat
    BY <1>1, AmountsAssumption DEF Evaluate
  <2>2. QED
    BY <1>1, <2>1 DEF Evaluate
<1>2. CASE SpentToday(t)
  <2>1. Spent \in Nat
    BY DEF Spent
  <2>2. seen' \in [Threads -> Nat]
    BY <1>2, <2>1 DEF SpentToday
  <2>3. QED
    BY <1>2, <2>2 DEF SpentToday
<1>3. CASE Gate(t)
  <2>1. deal[t] \in Purchases
    BY <1>3 DEF Gate
  <2>2. Backend[deal[t].arm] \in {"local", "linq", "terac"}
    BY <2>1, PurchaseFacts
  <2>3. pc' \in [Threads -> PCs] /\ \A u \in Threads \ {t} : pc'[u] = pc[u]
    BY <1>3, <2>2 DEF Gate
  <2>4. panel' \in [Threads -> {"none", "local", "linq", "terac"}]
    BY <1>3, <2>2 DEF Gate
  <2>5. UNCHANGED <<envelope, ledgerVars, deal, quote, cleared, boundVars>>
        /\ seen' = [seen EXCEPT ![t] = 0]
    BY <1>3 DEF Gate, Forget
  <2>6. QED
    BY <2>1, <2>3, <2>4, <2>5
<1>4. CASE Invite(t)
  BY <1>4 DEF Invite
<1>5. CASE Post(t)
  <2>1. quote' \in [Threads -> Nat]
    BY <1>5, AmountsAssumption DEF Post
  <2>2. QED
    BY <1>5, <2>1 DEF Post
<1>6. CASE Approve(t)
  BY <1>6 DEF Approve, Forget
<1>7. CASE Launch(t)
  BY <1>7 DEF Launch
<1>8. CASE Book(t)
  <2>1. panelCost' \in Nat
    BY <1>8 DEF Book
  <2>2. QED
    BY <1>8, <2>1 DEF Book
<1>9. CASE Close(t) \/ Raise(t)
  BY <1>9 DEF Close, Raise, Leave
<1>10. QED
  BY <1>1, <1>2, <1>3, <1>4, <1>5, <1>6, <1>7, <1>8, <1>9 DEF Step

LEMMA NextTyped ==
  ASSUME TypeOK, [Next]_vars
  PROVE  TypeOK'
<1> USE DEF ledgerVars, threadVars, boundVars
<1>1. CASE \E t \in Threads : Step(t)
  BY <1>1, StepTyped
<1>2. ASSUME NEW t \in Threads, NEW d \in Purchases, Begin(t, d)
      PROVE  TypeOK'
  <2>1. Backend[d.arm] \in {"local", "linq", "terac"}
    BY PurchaseFacts
  <2>2. pc' \in [Threads -> PCs] /\ \A u \in Threads \ {t} : pc'[u] = pc[u]
    BY <1>2, <2>1 DEF Begin, TypeOK, PCs, Goto
  <2>3. deal' = [deal EXCEPT ![t] = d] /\ deals' = deals + 1
    BY <1>2 DEF Begin
  <2>4. UNCHANGED <<envelope, ledgerVars, seen, quote, panel, cleared, days, freezes, crashes>>
    BY <1>2 DEF Begin
  <2>5. QED
    BY <2>2, <2>3, <2>4 DEF TypeOK
<1>3. CASE Withdraw
  BY <1>3 DEF Withdraw, TypeOK
<1>4. CASE Sign
  BY <1>4 DEF Sign, TypeOK
<1>5. CASE Midnight
  BY <1>5 DEF Midnight, TypeOK
<1>6. CASE Restart
  BY <1>6 DEF Restart, TypeOK, PCs
<1>7. CASE UNCHANGED vars
  BY <1>7 DEF vars, TypeOK
<1>8. QED
  BY <1>1, <1>2, <1>3, <1>4, <1>5, <1>6, <1>7 DEF Next

\* Every reachable state is well typed; in particular every thread at a call has a purchase.
THEOREM SpendTyped == Spec => []TypeOK
<1>1. Init => TypeOK
  BY InitTyped
<1>2. TypeOK /\ [Next]_vars => TypeOK'
  BY NextTyped
<1>3. QED
  BY <1>1, <1>2, PTL DEF Spec

-----------------------------------------------------------------------------
(* What a thread carries past its checks.                                  *)

\* Only Terac's arms are posted, quoted and launched: the free arms are local, so that what
\* approve() is asked about is never let through as free.
Routed(t) ==
  pc[t] \in {"post", "quoteRead", "approve", "launch", "book"} => Backend[deal[t].arm] = "terac"

\* A launch that has gone through serves the job.
Served(t) == pc[t] = "book" => panel[t] = "terac"

\* WithinTerms and HumansSold, of one thread.
Terms(t) ==
  InFlight(t) =>
    LET d == deal[t]  price == quote[t]
    IN  /\ d.arm \in AllowedArms /\ price <= JobCap
        /\ IF d.paid = 0 THEN price <= UnpaidCap
                         ELSE price * 100 <= d.paid * (100 - MarginPct)
        /\ d.kind = "operator" => price <= d.paid
Sold(t) ==
  pc[t] = "close" /\ deal[t].kind = "start" /\ deal[t].forced => panel[t] # "none"

ThreadOK(t) == Routed(t) /\ Served(t) /\ Terms(t) /\ Sold(t)
SafeInv == TypeOK /\ (\A t \in Threads : ThreadOK(t)) /\ FreezeHolds

LEMMA SafeInvImplies ==
  ASSUME SafeInv
  PROVE  WithinTerms /\ HumansSold /\ FreezeHolds
  BY DEF SafeInv, ThreadOK, Terms, Sold, WithinTerms, HumansSold

\* A step of one thread leaves the others and the envelope alone.
LEMMA StepFrame ==
  ASSUME TypeOK, NEW t \in Threads, Step(t)
  PROVE  /\ \A u \in Threads \ {t} : /\ pc'[u] = pc[u] /\ deal'[u] = deal[u]
                                    /\ quote'[u] = quote[u] /\ panel'[u] = panel[u]
                                    /\ seen'[u] = seen[u]
         /\ envelope' = envelope /\ cleared' = cleared
<1> USE DEF TypeOK, Goto, ServedBy, GiveUp
<1>1. CASE Gate(t)
  <2>1. deal[t] \in Purchases
    BY <1>1 DEF Gate
  <2>2. Backend[deal[t].arm] \in {"local", "linq", "terac"}
    BY <2>1, PurchaseFacts
  <2>3. \A u \in Threads \ {t} : pc'[u] = pc[u] /\ panel'[u] = panel[u]
    BY <1>1, <2>2 DEF Gate
  <2>4. QED
    BY <1>1, <2>3 DEF Gate, Forget
<1>2. CASE Evaluate(t)
  BY <1>2 DEF Evaluate
<1>3. CASE SpentToday(t)
  BY <1>3 DEF SpentToday
<1>4. CASE Invite(t)
  BY <1>4 DEF Invite
<1>5. CASE Post(t)
  BY <1>5 DEF Post
<1>6. CASE Approve(t)
  BY <1>6 DEF Approve, Forget
<1>7. CASE Launch(t)
  BY <1>7 DEF Launch
<1>8. CASE Book(t)
  BY <1>8 DEF Book
<1>9. CASE Close(t) \/ Raise(t)
  BY <1>9 DEF Close, Raise, Leave
<1>10. QED
  BY <1>1, <1>2, <1>3, <1>4, <1>5, <1>6, <1>7, <1>8, <1>9 DEF Step

\* What an approved quote has passed, for an arm that is not free.
LEMMA ApprovedFacts ==
  ASSUME TypeOK, NEW t \in Threads, pc[t] = "approve", Routed(t), Approved(t)
  PROVE  /\ envelope = "live"
         /\ deal[t].arm \in AllowedArms /\ quote[t] <= JobCap
         /\ seen[t] + quote[t] <= DailyCap
         /\ deal[t].paid = 0 => quote[t] <= UnpaidCap
         /\ deal[t].paid # 0 => quote[t] * 100 <= deal[t].paid * (100 - MarginPct)
         /\ deal[t].kind = "operator" => quote[t] <= deal[t].paid
<1>1. deal[t] \in Purchases
  BY DEF TypeOK
<1>2. deal[t].arm \in Arms /\ deal[t].paid \in Nat
  BY <1>1, PurchaseFacts
<1>3. Backend[deal[t].arm] = "terac"
  BY DEF Routed
<1>4. deal[t].arm \notin FreeArms
  BY <1>2, <1>3, ArmsAssumption
<1>5. (deal[t].paid <= 0 <=> deal[t].paid = 0) /\ (deal[t].paid > 0 <=> deal[t].paid # 0)
  BY <1>2
<1>6. QED
  BY <1>4, <1>5 DEF Approved, Check

\* The thread that makes a call still carries what it should.
LEMMA ActorOK ==
  ASSUME TypeOK, NEW t \in Threads, ThreadOK(t), Step(t)
  PROVE  ThreadOK(t)'
<1> USE DEF Goto, ServedBy, InFlight, ThreadOK, Routed, Served, Terms, Sold
<1>0. deal[t].kind \in {"start", "operator"} /\ Backend[deal[t].arm] \in {"local", "linq", "terac"}
  <2>1. pc[t] # "idle"
    BY DEF Step, Evaluate, SpentToday, Gate, Invite, Post, Approve, Launch, Book, Close, Raise, Leave
  <2>2. deal[t] \in Purchases
    BY <2>1 DEF TypeOK
  <2>3. QED
    BY <2>2, PurchaseFacts
<1>1. CASE Evaluate(t)
  BY <1>1 DEF Evaluate, TypeOK
<1>2. CASE SpentToday(t)
  BY <1>2 DEF SpentToday, TypeOK
<1>3. CASE Gate(t)
  <2>1. deal' = deal /\ quote' = quote
    BY <1>3 DEF Gate
  <2>2. CASE Check(seen[t], deal[t].arm, ListPrice[deal[t].arm], deal[t].paid)
    <3>1. CASE Backend[deal[t].arm] = "local"
      BY <1>3, <2>1, <2>2, <3>1 DEF Gate, TypeOK
    <3>2. CASE Backend[deal[t].arm] = "linq"
      BY <1>3, <2>1, <2>2, <3>2 DEF Gate, TypeOK
    <3>3. CASE Backend[deal[t].arm] = "terac"
      BY <1>3, <2>1, <2>2, <3>3 DEF Gate, TypeOK
    <3>4. QED
      BY <1>0, <3>1, <3>2, <3>3
  <2>3. CASE ~Check(seen[t], deal[t].arm, ListPrice[deal[t].arm], deal[t].paid)
    BY <1>3, <2>1, <2>3 DEF Gate, TypeOK
  <2>4. QED
    BY <2>2, <2>3
<1>4. CASE Invite(t)
  BY <1>4 DEF Invite, GiveUp, TypeOK
<1>5. CASE Post(t)
  BY <1>5 DEF Post, GiveUp, TypeOK
<1>6. CASE Approve(t)
  <2>1. deal' = deal /\ quote' = quote /\ pc[t] = "approve"
    BY <1>6 DEF Approve
  <2>2. CASE Approved(t)
    <3>1. pc'[t] = "launch"
      BY <1>6, <2>2 DEF Approve, TypeOK
    <3>2. QED
      BY <2>1, <2>2, <3>1, ApprovedFacts
  <2>3. CASE ~Approved(t)
    BY <1>6, <2>1, <2>3 DEF Approve, GiveUp, TypeOK
  <2>4. QED
    BY <2>2, <2>3
<1>7. CASE Launch(t)
  BY <1>7 DEF Launch, GiveUp, TypeOK
<1>8. CASE Book(t)
  BY <1>8 DEF Book, TypeOK
<1>9. CASE Close(t) \/ Raise(t)
  BY <1>9 DEF Close, Raise, Leave, TypeOK
<1>10. QED
  BY <1>1, <1>2, <1>3, <1>4, <1>5, <1>6, <1>7, <1>8, <1>9 DEF Step

\* A thread past its last check while the envelope is not live was past it when it went.
LEMMA StepFreeze ==
  ASSUME TypeOK, NEW t \in Threads, ThreadOK(t), FreezeHolds, Step(t)
  PROVE  FreezeHolds'
<1>1. envelope' = envelope /\ cleared' = cleared /\ \A u \in Threads \ {t} : pc'[u] = pc[u]
  BY StepFrame
<1>2. InFlight(t)' => InFlight(t) \/ envelope = "live"
  <2>1. CASE Approve(t)
    <3>1. Approved(t) => envelope = "live"
      BY <2>1, ApprovedFacts DEF Approve, ThreadOK
    <3>2. QED
      BY <2>1, <3>1 DEF Approve, GiveUp, Goto, InFlight, TypeOK
  <2>2. CASE Launch(t)
    BY <2>2 DEF Launch, InFlight
  <2>3. CASE Gate(t)
    <3>1. deal[t] \in Purchases
      BY <2>3 DEF Gate, TypeOK
    <3>2. Backend[deal[t].arm] \in {"local", "linq", "terac"}
      BY <3>1, PurchaseFacts
    <3>3. pc'[t] \in {"close", "invite", "post"}
      BY <2>3, <3>2 DEF Gate, Goto, TypeOK
    <3>4. QED
      BY <3>3 DEF InFlight
  <2>4. CASE Evaluate(t) \/ SpentToday(t)
    BY <2>4 DEF Evaluate, SpentToday, Goto, InFlight, TypeOK
  <2>5. CASE Invite(t) \/ Post(t)
    BY <2>5 DEF Invite, Post, GiveUp, Goto, InFlight, TypeOK
  <2>6. CASE Book(t) \/ Close(t) \/ Raise(t)
    BY <2>6 DEF Book, Close, Raise, Leave, Goto, InFlight, TypeOK
  <2>7. QED
    BY <2>1, <2>2, <2>3, <2>4, <2>5, <2>6 DEF Step
<1>3. QED
  BY <1>1, <1>2 DEF FreezeHolds, InFlight

LEMMA InitSafe == Init => SafeInv
  BY InitTyped DEF Init, SafeInv, ThreadOK, Routed, Served, Terms, Sold, InFlight, FreezeHolds

LEMMA NextSafe ==
  ASSUME SafeInv, [Next]_vars
  PROVE  SafeInv'
<1>0. TypeOK /\ TypeOK' /\ FreezeHolds /\ \A t \in Threads : ThreadOK(t)
  BY NextTyped DEF SafeInv
<1> USE DEF ThreadOK, Routed, Served, Terms, Sold, InFlight
<1>1. ASSUME NEW t \in Threads, Step(t)
      PROVE  (\A u \in Threads : ThreadOK(u)') /\ FreezeHolds'
  <2>1. ThreadOK(t)'
    BY <1>0, <1>1, ActorOK
  <2>2. \A u \in Threads \ {t} : ThreadOK(u)'
    BY <1>0, <1>1, StepFrame
  <2>3. FreezeHolds'
    BY <1>0, <1>1, StepFreeze
  <2>4. QED
    BY <2>1, <2>2, <2>3
<1>2. ASSUME NEW t \in Threads, NEW d \in Purchases, Begin(t, d)
      PROVE  (\A u \in Threads : ThreadOK(u)') /\ FreezeHolds'
  <2>1. d.kind \in {"start", "operator"} /\ Backend[d.arm] \in {"local", "linq", "terac"}
    BY PurchaseFacts
  <2>2. /\ deal' = [deal EXCEPT ![t] = d] /\ quote' = quote /\ panel' = panel
        /\ envelope' = envelope /\ cleared' = cleared
    BY <1>2 DEF Begin
  <2>3. \A u \in Threads \ {t} : pc'[u] = pc[u] /\ deal'[u] = deal[u]
    BY <1>0, <1>2, <2>2 DEF Begin, Goto, TypeOK
  <2>4. deal'[t] = d
    BY <1>0, <2>2 DEF TypeOK
  <2>5. /\ pc'[t] \in {"evaluate", "close", "invite", "post"}
        /\ pc'[t] = "close" => d.kind = "operator"
        /\ pc'[t] = "post" => Backend[d.arm] = "terac"
    BY <1>0, <1>2, <2>1 DEF Begin, Goto, TypeOK
  <2>6. ThreadOK(t)'
    BY <2>4, <2>5
  <2>7. \A u \in Threads \ {t} : ThreadOK(u)'
    BY <1>0, <2>2, <2>3
  <2>8. FreezeHolds'
    BY <1>0, <2>2, <2>3, <2>5 DEF FreezeHolds
  <2>9. QED
    BY <2>6, <2>7, <2>8
<1>3. CASE Withdraw
  BY <1>0, <1>3 DEF Withdraw, threadVars, FreezeHolds, SafeInv
<1>4. CASE Sign
  BY <1>0, <1>4 DEF Sign, threadVars, FreezeHolds, SafeInv
<1>5. CASE Midnight
  BY <1>0, <1>5 DEF Midnight, threadVars, FreezeHolds, SafeInv
<1>6. CASE Restart
  BY <1>0, <1>6 DEF Restart, FreezeHolds, SafeInv
<1>7. CASE UNCHANGED vars
  BY <1>0, <1>7 DEF vars, threadVars, FreezeHolds, SafeInv
<1>8. QED
  BY <1>0, <1>1, <1>2, <1>3, <1>4, <1>5, <1>6, <1>7 DEF Next, SafeInv

LEMMA SpendSafe == Spec => []SafeInv
<1>1. SafeInv /\ [Next]_vars => SafeInv'
  BY NextSafe
<1>2. QED
  BY InitSafe, <1>1, PTL DEF Spec

\* Whatever Terac quotes, no launch is made beyond what the envelope and the authorisation
\* allow for its price.
THEOREM LaunchesAreWithinTerms == Spec => []WithinTerms
<1>1. SafeInv => WithinTerms
  BY SafeInvImplies
<1>2. QED
  BY SpendSafe, <1>1, PTL

\* A withdrawn envelope stops every purchase that is not past its last check.
THEOREM FreezeStopsPurchases == Spec => []FreezeHolds
<1>1. SafeInv => FreezeHolds
  BY SafeInvImplies
<1>2. QED
  BY SpendSafe, <1>1, PTL

\* No purchase that is closed leaves a buyer who was sold humans without a page for them; one
\* that an exception other than HTTP took out of judge.start is never closed.
THEOREM SoldHumansAreServed == Spec => []HumansSold
<1>1. SafeInv => HumansSold
  BY SafeInvImplies
<1>2. QED
  BY SpendSafe, <1>1, PTL

-----------------------------------------------------------------------------
(* The bound on the overspend.                                             *)

\* A purchase that its check has let through, or will: nothing it reads from here on can
\* stop it from spending its quote but the signature.
Owes(t) ==
  \/ InFlight(t)
  \/ pc[t] = "approve" /\ seen[t] + quote[t] <= DailyCap
Owing == {t \in Threads : Owes(t) /\ quote[t] <= JobCap}

Limit == DailyCap + (Cardinality(Threads) - 1) * JobCap

\* The account: what is booked, one purchase of S in full and the per-job cap for each of the
\* others are within the limit.  (With the full cap for each of them it is not: the last
\* thread to read the ledger may fill the day exactly.)
Room(S, cost, q) ==
  /\ cost <= Limit
  /\ S # {} => \E w \in S : cost + q[w] + (Cardinality(S) - 1) * JobCap <= Limit

LEMMA LimitFacts == Limit \in Int /\ JobCap \in Nat /\ DailyCap \in Nat /\ DailyCap <= Limit
<1>1. Cardinality(Threads) \in Nat /\ Cardinality(Threads) # 0
  BY ThreadsAssumption, FS_CardinalityType, FS_EmptySet
<1>2. JobCap \in Nat /\ DailyCap \in Nat
  BY CapsAssumption
<1>3. (Cardinality(Threads) - 1) * JobCap \in Nat
  BY <1>1, <1>2
<1>4. QED
  BY <1>2, <1>3 DEF Limit

\* One more purchase raises the caps of a set by one cap.
LEMMA CapsGrow ==
  ASSUME NEW n \in Nat
  PROVE  /\ n * JobCap \in Nat
         /\ (n + 1) * JobCap = n * JobCap + JobCap
<1>1. JobCap \in Nat
  BY CapsAssumption
<1>2. QED
  BY <1>1

LEMMA CapsShrink ==
  ASSUME NEW n \in Nat, n # 0
  PROVE  /\ n - 1 \in Nat /\ (n - 1) * JobCap \in Nat
         /\ n * JobCap = (n - 1) * JobCap + JobCap
<1> DEFINE m == n - 1
<1>1. m \in Nat /\ n = m + 1
  OBVIOUS
<1> HIDE DEF m
<1>2. m * JobCap \in Nat /\ (m + 1) * JobCap = m * JobCap + JobCap
  BY <1>1, CapsGrow
<1>3. QED
  BY <1>1, <1>2 DEF m

LEMMA CardFacts ==
  ASSUME NEW S \in SUBSET Threads
  PROVE  /\ Cardinality(S) \in Nat /\ Cardinality(S) <= Cardinality(Threads)
         /\ S = {} <=> Cardinality(S) = 0
         /\ \A t \in S : Cardinality(S \ {t}) = Cardinality(S) - 1
         /\ \A t \in Threads \ S : Cardinality(S \cup {t}) = Cardinality(S) + 1
<1>1. IsFiniteSet(Threads) /\ IsFiniteSet(S) /\ Cardinality(S) <= Cardinality(Threads)
  BY ThreadsAssumption, FS_Subset
<1>2. QED
  BY <1>1, FS_CardinalityType, FS_EmptySet, FS_AddElement, FS_RemoveElement

\* A purchase of the set is given up.
LEMMA RoomLeave ==
  ASSUME NEW S \in SUBSET Threads, NEW cost \in Nat, NEW q \in [Threads -> Nat],
         \A w \in S : q[w] <= JobCap, NEW t \in S, Room(S, cost, q)
  PROVE  Room(S \ {t}, cost, q)
<1> DEFINE n == Cardinality(S) - 1
<1>1. n \in Nat /\ Cardinality(S \ {t}) = n
  BY CardFacts
<1>2. PICK w \in S : cost + q[w] + n * JobCap <= Limit
  BY DEF Room
<1>3. SUFFICES ASSUME S \ {t} # {}
               PROVE  \E v \in S \ {t} : cost + q[v] + (n - 1) * JobCap <= Limit
  BY <1>1 DEF Room
<1>4. n # 0
  <2>1. S \ {t} \in SUBSET Threads
    OBVIOUS
  <2>2. Cardinality(S \ {t}) # 0
    BY <1>3, <2>1, CardFacts
  <2>3. QED
    BY <1>1, <2>2
<1> HIDE DEF n
<1>5. n * JobCap = (n - 1) * JobCap + JobCap /\ (n - 1) * JobCap \in Nat
  BY <1>1, <1>4, CapsShrink
<1>6. PICK v \in S \ {t} : TRUE
  BY <1>3
<1>7. q[v] \in Nat /\ q[w] \in Nat /\ q[v] <= JobCap
  OBVIOUS
<1>8. cost + q[v] + (n - 1) * JobCap <= Limit
  BY <1>2, <1>5, <1>7, LimitFacts
<1>9. QED
  BY <1>8

\* A purchase of the set is booked.
LEMMA RoomSpend ==
  ASSUME NEW S \in SUBSET Threads, NEW cost \in Nat, NEW q \in [Threads -> Nat],
         \A w \in S : q[w] <= JobCap, NEW t \in S, Room(S, cost, q)
  PROVE  Room(S \ {t}, cost + q[t], q)
<1> DEFINE n == Cardinality(S) - 1
<1>1. n \in Nat /\ Cardinality(S \ {t}) = n /\ n * JobCap \in Nat
  BY CardFacts, CapsGrow
<1>2. PICK w \in S : cost + q[w] + n * JobCap <= Limit
  BY DEF Room
<1>3. \A v \in S : q[v] \in Nat /\ q[v] <= JobCap
  OBVIOUS
<1>4. S \ {t} # {} => n # 0
  <2>1. S \ {t} \in SUBSET Threads
    OBVIOUS
  <2>2. QED
    BY <1>1, <2>1, CardFacts
<1> HIDE DEF n
<1>5. n # 0 => n * JobCap = (n - 1) * JobCap + JobCap /\ (n - 1) * JobCap \in Nat
  BY <1>1, CapsShrink
<1>6. cost + q[t] <= Limit
  <2>1. CASE w = t
    BY <1>1, <1>2, <1>3, <2>1, LimitFacts
  <2>2. CASE w # t
    <3>1. n # 0
      BY <1>4, <2>2
    <3>2. QED
      BY <1>2, <1>3, <1>5, <3>1, LimitFacts
  <2>3. QED
    BY <2>1, <2>2
<1>7. ASSUME S \ {t} # {}
      PROVE  \E v \in S \ {t} : cost + q[t] + q[v] + (n - 1) * JobCap <= Limit
  <2>0. n # 0
    BY <1>4, <1>7
  <2>1. CASE w = t
    <3>1. PICK v \in S \ {t} : TRUE
      BY <1>7
    <3>2. cost + q[t] + q[v] + (n - 1) * JobCap <= Limit
      BY <1>2, <1>3, <1>5, <2>0, <2>1, LimitFacts
    <3>3. QED
      BY <3>2
  <2>2. CASE w # t
    <3>1. cost + q[t] + q[w] + (n - 1) * JobCap <= Limit
      BY <1>2, <1>3, <1>5, <2>0, LimitFacts
    <3>2. QED
      BY <2>2, <3>1
  <2>3. QED
    BY <2>1, <2>2
<1>8. QED
  BY <1>1, <1>6, <1>7 DEF Room, n

\* A thread reads a sum that leaves room for its quote.
LEMMA RoomJoin ==
  ASSUME NEW S \in SUBSET Threads, NEW cost \in Nat, NEW q \in [Threads -> Nat],
         NEW t \in Threads \ S, cost + q[t] <= DailyCap
  PROVE  Room(S \cup {t}, cost, q)
<1> DEFINE n == Cardinality(S)  m == Cardinality(Threads) - 1
<1>1. n \in Nat /\ Cardinality(S \cup {t}) = n + 1
  BY CardFacts
<1>2. S \cup {t} \in SUBSET Threads
  OBVIOUS
<1>3. n + 1 <= Cardinality(Threads)
  BY <1>1, <1>2, CardFacts
<1>4. Cardinality(Threads) \in Nat
  BY ThreadsAssumption, FS_CardinalityType
<1>5. m \in Nat /\ m - n \in Nat
  BY <1>1, <1>3, <1>4
<1>6. JobCap \in Nat /\ n * JobCap \in Nat /\ m * JobCap \in Nat
  BY <1>1, <1>5, CapsGrow, CapsAssumption
<1>7. n * JobCap <= m * JobCap
  <2>1. (m - n) * JobCap \in Nat
    BY <1>5, CapsGrow
  <2>2. m * JobCap = n * JobCap + (m - n) * JobCap
    BY <1>1, <1>5, <1>6
  <2>3. QED
    BY <1>6, <2>1, <2>2
<1>8. q[t] \in Nat
  OBVIOUS
<1>9. cost + q[t] + n * JobCap <= Limit
  BY <1>6, <1>7, <1>8, CapsAssumption DEF Limit
<1>10. cost <= Limit
  BY <1>8, LimitFacts
<1>11. QED
  BY <1>1, <1>9, <1>10 DEF Room

\* The day ends: nothing is booked yet, and what is owed stays.
LEMMA RoomReset ==
  ASSUME NEW S \in SUBSET Threads, NEW cost \in Nat, NEW q \in [Threads -> Nat], Room(S, cost, q)
  PROVE  Room(S, 0, q)
<1>1. S # {} => (Cardinality(S) - 1) * JobCap \in Nat
  <2>1. S # {} => Cardinality(S) \in Nat /\ Cardinality(S) # 0
    BY CardFacts
  <2>2. QED
    BY <2>1, CapsShrink
<1>2. \A w \in S : q[w] \in Nat
  OBVIOUS
<1>3. 0 <= Limit
  BY LimitFacts
<1>4. ASSUME S # {}
      PROVE  \E w \in S : 0 + q[w] + (Cardinality(S) - 1) * JobCap <= Limit
  <2>1. PICK w \in S : cost + q[w] + (Cardinality(S) - 1) * JobCap <= Limit
    BY <1>4 DEF Room
  <2>2. 0 + q[w] + (Cardinality(S) - 1) * JobCap <= Limit
    BY <1>1, <1>2, <1>4, <2>1, LimitFacts
  <2>3. QED
    BY <2>2
<1>5. QED
  BY <1>3, <1>4 DEF Room

Account == Room(Owing, panelCost, quote)

\* A step that neither books nor lets a purchase through keeps or shrinks the set.
LEMMA AccountKept ==
  ASSUME TypeOK, Account, NEW t \in Threads,
         panelCost' = panelCost, Owing' = Owing \/ Owing' = Owing \ {t},
         \A u \in Owing' : quote'[u] = quote[u]
  PROVE  Account'
<1>1. Owing \in SUBSET Threads /\ \A w \in Owing : quote[w] <= JobCap
  BY DEF Owing
<1>2. panelCost \in Nat /\ quote \in [Threads -> Nat]
  BY DEF TypeOK
<1>3. Owing \ {t} = Owing \/ t \in Owing
  OBVIOUS
<1>4. Room(Owing', panelCost, quote)
  BY <1>1, <1>2, <1>3, RoomLeave DEF Account
<1>5. QED
  BY <1>4 DEF Account, Room

LEMMA StepAccount ==
  ASSUME SafeInv, Account, NEW t \in Threads, Step(t)
  PROVE  Account'
<1>0. TypeOK /\ ThreadOK(t) /\ panelCost \in Nat /\ quote \in [Threads -> Nat]
  BY DEF SafeInv, TypeOK
<1>1. \A u \in Threads \ {t} : (u \in Owing') = (u \in Owing) /\ quote'[u] = quote[u]
  BY <1>0, StepFrame DEF Owing, Owes, InFlight
<1>2. Owing \in SUBSET Threads /\ \A w \in Owing : quote[w] <= JobCap
  BY DEF Owing
<1>3. Owing' \subseteq Threads
  BY DEF Owing
<1>4. ASSUME t \in Owing' => t \in Owing /\ quote'[t] = quote[t], panelCost' = panelCost
      PROVE  Account'
  <2>1. Owing' = Owing \/ Owing' = Owing \ {t}
    BY <1>1, <1>2, <1>3, <1>4
  <2>2. \A u \in Owing' : quote'[u] = quote[u]
    BY <1>1, <1>3, <1>4
  <2>3. QED
    BY <1>0, <1>4, <2>1, <2>2, AccountKept
<1>5. CASE Book(t)
  <2>1. panelCost' = panelCost + quote[t] /\ quote' = quote
    BY <1>5 DEF Book
  <2>2. t \in Owing
    BY <1>0, <1>5 DEF Book, Owing, Owes, InFlight, ThreadOK, Terms
  <2>3. t \notin Owing'
    BY <1>0, <1>5 DEF Book, Goto, Owing, Owes, InFlight, TypeOK
  <2>4. Owing' = Owing \ {t}
    BY <1>1, <1>2, <1>3, <2>3
  <2>5. Room(Owing \ {t}, panelCost + quote[t], quote)
    BY <1>0, <1>2, <2>2, RoomSpend DEF Account
  <2>6. QED
    BY <2>1, <2>4, <2>5 DEF Account
<1>6. CASE SpentToday(t)
  <2>1. panelCost' = panelCost /\ quote' = quote
    BY <1>6 DEF SpentToday, ledgerVars
  <2>2. t \notin Owing
    BY <1>6 DEF SpentToday, Owing, Owes, InFlight
  <2>3. CASE t \in Owing'
    <3>1. seen'[t] + quote[t] <= DailyCap
      BY <1>0, <1>6, <2>1, <2>3 DEF SpentToday, Goto, Owing, Owes, InFlight, TypeOK
    <3>2. seen'[t] = panelCost + modelCost /\ modelCost \in Nat
      BY <1>0, <1>6 DEF SpentToday, Spent, TypeOK
    <3>3. panelCost + quote[t] <= DailyCap
      BY <1>0, <3>1, <3>2, LimitFacts
    <3>4. Owing' = Owing \cup {t}
      BY <1>1, <1>2, <1>3, <2>3
    <3>5. Room(Owing \cup {t}, panelCost, quote)
      BY <1>0, <1>2, <2>2, <3>3, RoomJoin
    <3>6. QED
      BY <2>1, <3>4, <3>5 DEF Account
  <2>4. CASE t \notin Owing'
    BY <1>4, <2>1, <2>4
  <2>5. QED
    BY <2>3, <2>4
<1>7. CASE Approve(t)
  <2>1. panelCost' = panelCost /\ quote' = quote /\ pc[t] = "approve"
    BY <1>7 DEF Approve, ledgerVars
  <2>2. CASE Approved(t)
    <3>1. t \in Owing
      BY <1>0, <2>1, <2>2, ApprovedFacts DEF Owing, Owes, ThreadOK
    <3>2. QED
      BY <1>4, <2>1, <3>1
  <2>3. CASE ~Approved(t)
    <3>1. t \notin Owing'
      BY <1>0, <1>7, <2>3 DEF Approve, GiveUp, Goto, Owing, Owes, InFlight, TypeOK
    <3>2. QED
      BY <1>4, <2>1, <3>1
  <2>4. QED
    BY <2>2, <2>3
<1>8. CASE Launch(t)
  <2>1. panelCost' = panelCost /\ quote' = quote /\ t \in Owing
    BY <1>0, <1>8 DEF Launch, ledgerVars, Owing, Owes, InFlight, ThreadOK, Terms
  <2>2. QED
    BY <1>4, <2>1
<1>9. CASE Gate(t)
  <2>1. deal[t] \in Purchases /\ panelCost' = panelCost
    BY <1>0, <1>9 DEF Gate, ledgerVars, TypeOK
  <2>2. Backend[deal[t].arm] \in {"local", "linq", "terac"}
    BY <2>1, PurchaseFacts
  <2>3. pc'[t] \in {"close", "invite", "post"}
    BY <1>0, <1>9, <2>2 DEF Gate, Goto, TypeOK
  <2>4. t \notin Owing'
    BY <2>3 DEF Owing, Owes, InFlight
  <2>5. QED
    BY <1>4, <2>1, <2>4
<1>10. CASE Evaluate(t) \/ Invite(t)
  <2>1. t \notin Owing' /\ panelCost' = panelCost
    BY <1>0, <1>10 DEF Evaluate, Invite, GiveUp, Goto, ledgerVars, Owing, Owes, InFlight, TypeOK
  <2>2. QED
    BY <1>4, <2>1
<1>11. CASE Post(t) \/ Close(t) \/ Raise(t)
  <2>1. t \notin Owing' /\ panelCost' = panelCost
    BY <1>0, <1>11 DEF Post, Close, Raise, Leave, GiveUp, Goto, ledgerVars, Owing, Owes, InFlight, TypeOK
  <2>2. QED
    BY <1>4, <2>1
<1>12. QED
  BY <1>5, <1>6, <1>7, <1>8, <1>9, <1>10, <1>11 DEF Step

LEMMA InitAccount == Init => Account
<1>1. ASSUME Init PROVE Owing = {} /\ panelCost = 0
  BY <1>1 DEF Init, Owing, Owes, InFlight
<1>2. 0 <= Limit
  BY LimitFacts
<1>3. QED
  BY <1>1, <1>2 DEF Account, Room

LEMMA NextAccount ==
  ASSUME SafeInv, Account, [Next]_vars
  PROVE  Account'
<1>0. TypeOK /\ panelCost \in Nat /\ quote \in [Threads -> Nat] /\ Owing \in SUBSET Threads
  BY DEF SafeInv, TypeOK, Owing
<1>1. ASSUME NEW t \in Threads, Step(t)
      PROVE  Account'
  BY <1>1, StepAccount
<1>2. ASSUME NEW t \in Threads, NEW d \in Purchases, Begin(t, d)
      PROVE  Account'
  <2>1. Backend[d.arm] \in {"local", "linq", "terac"} /\ d.kind \in {"start", "operator"}
    BY PurchaseFacts
  <2>2. quote' = quote /\ seen' = seen /\ panelCost' = panelCost /\ pc[t] = "idle"
    BY <1>2 DEF Begin, ledgerVars
  <2>3. pc'[t] \in {"evaluate", "close", "invite", "post"} /\ \A u \in Threads \ {t} : pc'[u] = pc[u]
    BY <1>0, <1>2, <2>1 DEF Begin, Goto, TypeOK
  <2>4. Owing' = Owing
    BY <2>2, <2>3 DEF Owing, Owes, InFlight
  <2>5. QED
    BY <2>2, <2>4 DEF Account
<1>3. CASE Withdraw \/ Sign \/ UNCHANGED vars
  <2>1. UNCHANGED <<panelCost, pc, seen, quote>>
    BY <1>3 DEF Withdraw, Sign, vars, ledgerVars, threadVars
  <2>2. QED
    BY <2>1 DEF Account, Owing, Owes, InFlight
<1>4. CASE Midnight
  <2>1. UNCHANGED <<pc, seen, quote>> /\ panelCost' = 0
    BY <1>4 DEF Midnight, threadVars
  <2>2. Owing' = Owing
    BY <2>1 DEF Owing, Owes, InFlight
  <2>3. QED
    BY <1>0, <2>1, <2>2, RoomReset DEF Account
<1>5. CASE Restart
  <2>1. Owing' = {} /\ panelCost' = panelCost
    BY <1>5 DEF Restart, Owing, Owes, InFlight, ledgerVars
  <2>2. QED
    BY <2>1 DEF Account, Room
<1>6. QED
  BY <1>1, <1>2, <1>3, <1>4, <1>5 DEF Next

\* However many threads buy at once and whatever order they read and write the ledger in, a
\* day's panels cost at most the daily cap and one job's cap for each thread but one.
THEOREM OverspendIsBounded == Spec => []OverspendBounded
<1>1. Account => OverspendBounded
  BY DEF Account, Room, Limit, OverspendBounded
<1>2. SafeInv /\ Account /\ [Next]_vars => Account'
  BY NextAccount
<1>3. QED
  BY SpendSafe, InitAccount, <1>1, <1>2, PTL DEF Spec

=============================================================================
