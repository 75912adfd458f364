---------------------------- MODULE PeopleProofs ----------------------------
(***************************************************************************)
(* Who the service hears from, for any number of them: the phones on the   *)
(* rater list, the callers of the API, the respondents of a rating page.   *)
(* The three share no state; each has its invariant and theorems below.    *)
(***************************************************************************)
EXTENDS MCParts, EvidenceProofs, FiniteSetTheorems, TLAPS

-----------------------------------------------------------------------------
(* Raters.  The list has somebody who said STOP as opted in only when an   *)
(* old RATE came again (Listed); a launch takes its phones from the list,  *)
(* and what is said while it works goes into crossed.                      *)

Listed == \A p \in Phones : list[p] = "in" /\ wish[p] = "STOP" => p \in echoed

RatersInv == RatersTypeOK /\ Listed /\ StopIsHeeded

LEMMA RatersInvInit == RatersInit => RatersInv
<1> SUFFICES ASSUME RatersInit PROVE RatersInv
  OBVIOUS
<1>1. 0 \in 0 .. MaxSays /\ 0 \in 0 .. MaxLists
  BY ListAssumption
<1>2. RatersTypeOK
  BY <1>1 DEF RatersInit, RatersTypeOK
<1>3. Listed /\ StopIsHeeded
  BY DEF RatersInit, Listed, StopIsHeeded
<1>4. QED
  BY <1>2, <1>3 DEF RatersInv

\* A word that is heard, new or repeated, changes one phone's row.
LEMMA WordKeeps ==
  ASSUME RatersInv, NEW p \in Phones, NEW word \in {"RATE", "STOP"}, Say(p, word) \/ Redeliver(p, word)
  PROVE  RatersInv'
<1>1. RatersTypeOK'
  <2>1. says < MaxSays /\ says' = says + 1 /\ says \in 0 .. MaxSays /\ lists' = lists
    BY DEF RatersInv, RatersTypeOK, Say, Redeliver
  <2>2. says' \in 0 .. MaxSays
    BY <2>1, ListAssumption
  <2>3. list' \in [Phones -> {"absent", "in", "out"}] /\ UNCHANGED <<lastSent, launch>>
    BY DEF RatersInv, RatersTypeOK, Say, Redeliver, Handled
  <2>4. CASE Say(p, word)
    <3>1. crossed' \subseteq Launches \X Phones
      <4>1. {c \in crossed : c[2] # p} \subseteq Launches \X Phones /\ crossed \subseteq Launches \X Phones
        BY DEF RatersInv, RatersTypeOK
      <4>2. {<<l, p>> : l \in {l \in Launches : p \in launch[l]}} \subseteq Launches \X Phones
        OBVIOUS
      <4>3. QED
        BY <2>4, <4>1, <4>2 DEF Say
    <3>2. said' \subseteq Phones \X {"RATE", "STOP"}
      <4>1. <<p, word>> \in Phones \X {"RATE", "STOP"} /\ said' = said \cup {<<p, word>>}
        BY <2>4 DEF Say
      <4>2. QED
        BY <4>1 DEF RatersInv, RatersTypeOK
    <3>3. echoed' \subseteq Phones /\ wish' \in [Phones -> {"", "RATE", "STOP"}]
      BY <2>4 DEF RatersInv, RatersTypeOK, Say
    <3>4. QED
      BY <2>1, <2>2, <2>3, <3>1, <3>2, <3>3 DEF RatersInv, RatersTypeOK
  <2>5. CASE Redeliver(p, word)
    BY <2>1, <2>2, <2>3, <2>5 DEF RatersInv, RatersTypeOK, Redeliver
  <2>6. QED
    BY <2>4, <2>5
<1>2. Listed'
  BY DEF RatersInv, RatersTypeOK, Listed, Say, Redeliver, Handled
<1>3. StopIsHeeded'
  <2> SUFFICES ASSUME NEW l \in Launches, NEW q \in launch[l], wish'[q] = "STOP"
               PROVE  <<l, q>> \in crossed' \/ q \in echoed'
    BY DEF StopIsHeeded, Say, Redeliver
  <2>0. q \in Phones
    BY DEF RatersInv, RatersTypeOK
  <2>1. CASE Redeliver(p, word)
    BY <2>1 DEF RatersInv, StopIsHeeded, Redeliver
  <2>2. CASE Say(p, word) /\ q = p
    BY <2>0, <2>2 DEF Say, RatersInv, RatersTypeOK
  <2>3. CASE Say(p, word) /\ q # p
    <3>1. <<l, q>> \in crossed \/ q \in echoed
      BY <2>0, <2>3 DEF Say, RatersInv, RatersTypeOK, StopIsHeeded
    <3>2. <<l, q>>[2] # p
      BY <2>3
    <3>3. QED
      BY <2>3, <3>1, <3>2 DEF Say
  <2>4. QED
    BY <2>1, <2>2, <2>3
<1>4. QED
  BY <1>1, <1>2, <1>3 DEF RatersInv

LEMMA PickKeeps ==
  ASSUME RatersInv, NEW l \in Launches, NEW picked \in SUBSET Phones, Pick(l, picked)
  PROVE  RatersInv'
<1>1. RatersTypeOK'
  <2>1. lists < MaxLists /\ lists' = lists + 1 /\ lists \in 0 .. MaxLists
    BY DEF Pick, RatersInv, RatersTypeOK
  <2>2. lists' \in 0 .. MaxLists
    BY <2>1, ListAssumption
  <2>3. launch' \in [Launches -> SUBSET Phones] /\ crossed' \subseteq Launches \X Phones
    BY DEF Pick, RatersInv, RatersTypeOK
  <2>4. UNCHANGED <<list, lastSent, said, wish, echoed, says>>
    BY DEF Pick
  <2>5. QED
    BY <2>2, <2>3, <2>4 DEF RatersInv, RatersTypeOK
<1>2. Listed'
  BY DEF RatersInv, Listed, Pick
<1>3. StopIsHeeded'
  <2> SUFFICES ASSUME NEW m \in Launches, NEW q \in launch'[m], wish[q] = "STOP"
               PROVE  <<m, q>> \in crossed' \/ q \in echoed
    BY DEF StopIsHeeded, Pick
  <2>1. CASE m = l
    BY <2>1 DEF Pick, OptedIn, RatersInv, RatersTypeOK, Listed
  <2>2. CASE m # l
    <3>1. q \in launch[m] /\ <<m, q>>[1] # l
      BY <2>2 DEF Pick, RatersInv, RatersTypeOK
    <3>2. QED
      BY <3>1 DEF Pick, RatersInv, StopIsHeeded
  <2>3. QED
    BY <2>1, <2>2
<1>4. QED
  BY <1>1, <1>2, <1>3 DEF RatersInv

LEMMA TextKeeps ==
  ASSUME RatersInv, NEW l \in Launches, NEW p \in Phones, NEW delivered \in BOOLEAN, Text(l, p, delivered)
  PROVE  RatersInv'
<1>1. launch' = [launch EXCEPT ![l] = @ \ {p}] /\ UNCHANGED <<list, said, wish, crossed, echoed, says, lists>>
  BY DEF Text, heard
<1>2. RatersTypeOK'
  BY <1>1 DEF Text, RatersInv, RatersTypeOK
<1>3. \A m \in Launches : launch'[m] \subseteq launch[m]
  BY <1>1 DEF RatersInv, RatersTypeOK
<1>4. QED
  BY <1>1, <1>2, <1>3 DEF RatersInv, Listed, StopIsHeeded

LEMMA RatersInvNext == RatersInv /\ [RatersNext]_raterVars => RatersInv'
<1> SUFFICES ASSUME RatersInv, [RatersNext]_raterVars PROVE RatersInv'
  OBVIOUS
<1>1. CASE UNCHANGED raterVars
  BY <1>1 DEF raterVars, heard, RatersInv, RatersTypeOK, Listed, StopIsHeeded
<1>2. CASE RatersNext
  BY <1>2, WordKeeps, PickKeeps, TextKeeps DEF RatersNext
<1>3. QED
  BY <1>1, <1>2

LEMMA RatersInvAlways == RatersSpec => []RatersInv
BY RatersInvInit, RatersInvNext, PTL DEF RatersSpec

\* Every variable keeps its type.
THEOREM RatersTyped == RatersSpec => []RatersTypeOK
<1>1. RatersInv => RatersTypeOK
  BY DEF RatersInv
<1>2. QED
  BY <1>1, RatersInvAlways, PTL

\* No launch, however many there are, picks somebody who has said STOP, unless Linq repeats an
\* old RATE of theirs.
THEOREM OptOutIsHeeded == RatersSpec => []StopIsHeeded
<1>1. RatersInv => StopIsHeeded
  BY DEF RatersInv
<1>2. QED
  BY <1>1, RatersInvAlways, PTL

-----------------------------------------------------------------------------
(* Callers.  A nonce that let nobody in yet may be burned or not; one that *)
(* let somebody in is burned, which every restart keeps.                   *)

AdmissionInv ==
  /\ admits \in [Nonces -> Nat]
  /\ \A n \in Nonces : admits[n] <= 1 /\ (n \notin burned => admits[n] = 0)

LEMMA PostKeeps ==
  ASSUME AdmissionInv, NEW p \in Posts, NEW nonce \in Nonces \cup {NoNonce},
         NEW expired \in BOOLEAN, NEW valid \in BOOLEAN, NEW claimed \in BOOLEAN,
         Post(p, nonce, expired, valid, claimed)
  PROVE  AdmissionInv'
<1>1. CASE UNCHANGED <<burned, admits>>
  BY <1>1 DEF AdmissionInv
<1>2. CASE nonce \notin burned /\ burned' = burned \cup ({nonce} \ {NoNonce}) /\ UNCHANGED admits
  BY <1>2 DEF AdmissionInv
<1>3. CASE /\ nonce \notin burned /\ burned' = burned \cup ({nonce} \ {NoNonce})
           /\ nonce # NoNonce /\ admits' = [admits EXCEPT ![nonce] = @ + 1]
  BY <1>3 DEF AdmissionInv
<1>4. QED
  BY <1>1, <1>2, <1>3 DEF Post, Fresh

LEMMA AdmissionInvNext == AdmissionInv /\ [AdmissionNext]_admissionVars => AdmissionInv'
<1> SUFFICES ASSUME AdmissionInv, [AdmissionNext]_admissionVars PROVE AdmissionInv'
  OBVIOUS
<1>1. CASE \E p \in Posts, nonce \in Nonces \cup {NoNonce}, expired, valid, claimed \in BOOLEAN :
             Post(p, nonce, expired, valid, claimed)
  BY <1>1, PostKeeps
<1>2. CASE (\E p \in Posts : StartJob(p)) \/ ApiRestart \/ UNCHANGED admissionVars
  BY <1>2 DEF StartJob, ApiRestart, admissionVars, AdmissionInv
<1>3. QED
  BY <1>1, <1>2 DEF AdmissionNext

\* Of all the calls with one nonce at most one is let in, on whichever side of any number of
\* restarts they come (protocol.admit, store.events).
THEOREM NoncesAreUsedOnce == AdmissionSpec => []NonceOnce
<1>1. AdmissionInit => AdmissionInv
  BY DEF AdmissionInit, AdmissionInv
<1>2. AdmissionInv => NonceOnce
  BY DEF AdmissionInv, NonceOnce
<1>3. QED
  BY <1>1, <1>2, AdmissionInvNext, PTL DEF AdmissionSpec

\* Whoever is let in is one of the calls, so at most one admission is at most Cardinality(Posts).
LEMMA AdmissionTypingNext ==
  ASSUME AdmissionInv, AdmissionTypeOK, [AdmissionNext]_admissionVars
  PROVE  AdmissionTypeOK'
<1>1. ASSUME NEW p \in Posts, NEW nonce \in Nonces \cup {NoNonce},
             NEW expired \in BOOLEAN, NEW valid \in BOOLEAN, NEW claimed \in BOOLEAN,
             Post(p, nonce, expired, valid, claimed)
      PROVE  AdmissionTypeOK'
  <2>1. 1 <= Cardinality(Posts) /\ Cardinality(Posts) \in Nat
    BY FS_EmptySet, FS_CardinalityType, NonceAssumption
  <2>2. AdmissionInv'
    BY <1>1, PostKeeps
  <2>3. admits' \in [Nonces -> 0 .. Cardinality(Posts)]
    BY <2>1, <2>2 DEF AdmissionInv
  <2>4. PaidFor(claimed) \in BOOLEAN
    BY DEF PaidFor, AdmissionTypeOK
  <2>5. post' \in [Posts -> [pc : {"unsent", "refused", "admitted", "judged", "lost"},
                             nonce : Nonces \cup {NoNonce}, paid : BOOLEAN]]
    <3>1. PICK pc \in {"refused", "admitted"}, paid \in BOOLEAN : Answer(p, pc, nonce, paid)
      BY <1>1, <2>4 DEF Post
    <3>2. [pc |-> pc, nonce |-> nonce, paid |-> paid]
            \in [pc : {"unsent", "refused", "admitted", "judged", "lost"},
                nonce : Nonces \cup {NoNonce}, paid : BOOLEAN]
      OBVIOUS
    <3>3. QED
      BY <3>1, <3>2 DEF Answer, AdmissionTypeOK
  <2>6. burned' \subseteq Nonces /\ dev' = dev /\ apiRestarts' = apiRestarts
    BY <1>1 DEF Post, AdmissionTypeOK
  <2>7. QED
    BY <2>3, <2>5, <2>6 DEF AdmissionTypeOK
<1>2. CASE \E p \in Posts : StartJob(p)
  BY <1>2 DEF StartJob, AdmissionTypeOK
<1>3. CASE ApiRestart
  <2>1. apiRestarts' \in 0 .. MaxApiRestarts
    BY <1>3, NonceAssumption DEF ApiRestart, AdmissionTypeOK
  <2>2. \A p \in Posts : post'[p] \in [pc : {"unsent", "refused", "admitted", "judged", "lost"},
                                       nonce : Nonces \cup {NoNonce}, paid : BOOLEAN]
    BY <1>3 DEF ApiRestart, AdmissionTypeOK
  <2>3. QED
    BY <1>3, <2>1, <2>2 DEF ApiRestart, AdmissionTypeOK
<1>4. CASE UNCHANGED admissionVars
  BY <1>4 DEF admissionVars, AdmissionTypeOK
<1>5. QED
  BY <1>1, <1>2, <1>3, <1>4 DEF AdmissionNext

LEMMA AdmissionInitially == AdmissionInit => AdmissionInv /\ AdmissionTypeOK
<1> SUFFICES ASSUME AdmissionInit PROVE AdmissionInv /\ AdmissionTypeOK
  OBVIOUS
<1>1. Cardinality(Posts) \in Nat /\ MaxApiRestarts \in Nat
  BY FS_CardinalityType, NonceAssumption
<1>2. AdmissionInv
  BY DEF AdmissionInit, AdmissionInv
<1>3. QED
  BY <1>1, <1>2 DEF AdmissionInit, AdmissionTypeOK, Unsent

\* Every call is well typed wherever it got, for any calls, nonces and restarts (protocol.admit).
THEOREM CallsTyped == AdmissionSpec => []AdmissionTypeOK
<1>1. AdmissionInv /\ AdmissionTypeOK /\ [AdmissionNext]_admissionVars => (AdmissionInv /\ AdmissionTypeOK)'
  BY AdmissionInvNext, AdmissionTypingNext
<1>2. QED
  BY <1>1, AdmissionInitially, PTL DEF AdmissionSpec

-----------------------------------------------------------------------------
(* Respondents.  A brief is put before its answers, so a brief whose form  *)
(* is over and was not cut has them all; the answers of a verdict only     *)
(* grow, so one read between two that have the same has the same.          *)

FormType == [pc : {"idle", "brief", "answers"}, job : Jobs, src : Sources \cup {""},
             who : Respondents \cup {""}, claim : Claims, new : BOOLEAN]
LockType == [is : BOOLEAN, v : Verdicts, late : BOOLEAN]
LockingType == [pc : {"idle", "event"}, v : Verdicts]
CompareType == [pc : {"idle", "lock", "hash", "decide"}, v : Verdicts,
                lk : LockType, crossed : BOOLEAN, moved : BOOLEAN]

PagesTyped ==
  /\ PagesTypeOK /\ IsFiniteSet(answers)
  /\ comparing \in CompareType

\* The form in hand has its answers in the store up to the claim it is at; on the v2 page it is
\* the one that put the brief there.
FormOK ==
  /\ form.pc # "idle" => form.src \in Sources /\ form.who \in Respondents
  /\ form.pc = "brief" => brief /\ form.claim = 0
  /\ form.pc = "answers" =>
       /\ \A c \in Claims : c < form.claim => <<form.job, form.src, form.who, c>> \in answers
       /\ brief => form.new /\ <<form.job, form.who>> \in briefs

\* The v2 page: the answers of a respondent belong to a brief and came from one source, and
\* unless the form is in hand or was cut they are complete.
Complete(j, r) == \A c \in Claims : \E s \in Sources : <<j, s, r, c>> \in answers

BriefsOK ==
  brief =>
    /\ \A j \in Jobs, r \in Respondents :
         <<j, r>> \in briefs =>
           \/ Complete(j, r) \/ <<j, r>> \in cut
           \/ form.pc = "answers" /\ form.job = j /\ form.who = r
    /\ \A j \in Jobs, s \in Sources, r \in Respondents, c \in Claims :
         <<j, s, r, c>> \in answers =>
           /\ <<j, r>> \in briefs
           /\ form.pc = "answers" /\ form.job = j /\ form.who = r => form.src = s
           /\ \A s2 \in Sources, c2 \in Claims : <<j, s2, r, c2>> \in answers => s2 = s

\* A verdict that was read before another: answers are added.
Le(a, b) == a.n <= b.n

ComparingOK ==
  comparing.pc # "idle" =>
    /\ Le(comparing.v, VHash)
    /\ comparing.pc = "lock" /\ ~comparing.crossed => Le(locked.v, comparing.v)
    /\ comparing.pc # "lock" /\ ~comparing.crossed => Le(comparing.lk.v, comparing.v)
    /\ comparing.pc # "decide" /\ ~comparing.moved => comparing.v.extras = extras
    /\ comparing.pc = "decide" /\ ~comparing.crossed =>
         /\ comparing.v.n = comparing.lk.v.n
         /\ comparing.moved \/ comparing.v = comparing.lk.v

CompareOK == Le(locking.v, VHash) /\ Le(locked.v, VHash) /\ ComparingOK

PagesInv == PagesTyped /\ FormOK /\ BriefsOK /\ CompareOK
-----------------------------------------------------------------------------
LEMMA VHashGrows ==
  ASSUME IsFiniteSet(answers'), answers \subseteq answers', extras \in Extras, extras' \in Extras
  PROVE  VHash \in Verdicts /\ VHash' \in Verdicts /\ Le(VHash, VHash')
<1> DEFINE mine(A) == {a \in A : a[1] = "before"}
<1>1. mine(answers) \in SUBSET mine(answers') /\ mine(answers') \in SUBSET answers'
  OBVIOUS
<1>2. IsFiniteSet(mine(answers')) /\ Cardinality(mine(answers')) \in Nat
  BY <1>1, FS_Subset, FS_CardinalityType
<1>3. Cardinality(mine(answers)) \in Nat /\ Cardinality(mine(answers)) <= Cardinality(mine(answers'))
  BY <1>1, <1>2, FS_Subset, FS_CardinalityType
<1>4. /\ VHash = [n |-> Cardinality(mine(answers)), extras |-> extras]
      /\ VHash' = [n |-> Cardinality(mine(answers')), extras |-> extras']
  BY DEF VHash
<1> HIDE DEF mine
<1>5. QED
  BY <1>2, <1>3, <1>4 DEF Verdicts, Le

LEMMA LeFacts ==
  /\ \A a \in Verdicts : Le(a, a) /\ Le(NoVerdict, a)
  /\ \A a, b, c \in Verdicts : Le(a, b) /\ Le(b, c) => Le(a, c)
  /\ \A a, b \in Verdicts : Le(a, b) /\ Le(b, a) => a.n = b.n
  /\ \A a, b \in Verdicts : a.n = b.n /\ a.extras = b.extras => a = b
  /\ NoVerdict \in Verdicts /\ SomeExtras \in Extras /\ VHash.extras = extras
<1>1. SomeExtras \in Extras
  BY ExtrasAssumption DEF SomeExtras
<1>2. ASSUME NEW a \in Verdicts, NEW b \in Verdicts, a.n = b.n, a.extras = b.extras PROVE a = b
  <2>1. a = [n |-> a.n, extras |-> a.extras] /\ b = [n |-> b.n, extras |-> b.extras]
    BY DEF Verdicts
  <2>2. QED
    BY <1>2, <2>1
<1>3. /\ \A a \in Verdicts : Le(a, a) /\ Le(NoVerdict, a)
      /\ \A a, b, c \in Verdicts : Le(a, b) /\ Le(b, c) => Le(a, c)
      /\ \A a, b \in Verdicts : Le(a, b) /\ Le(b, a) => a.n = b.n
      /\ NoVerdict \in Verdicts
  BY <1>1 DEF Le, Verdicts, NoVerdict
<1>4. VHash.extras = extras
  BY DEF VHash
<1>5. QED
  BY <1>1, <1>2, <1>3, <1>4

LEMMA NoneFacts ==
  /\ NoForm \in FormType
  /\ NoForm.pc = "idle" /\ NoForm.claim = 0 /\ 0 \in Claims /\ LastClaim \in Claims
  /\ NoLock \in LockType /\ NoLock.v = NoVerdict
  /\ NotLocking \in LockingType /\ NotLocking.v = NoVerdict
  /\ NotComparing \in CompareType
  /\ NotComparing.pc = "idle"
<1>1. 0 \in Claims /\ LastClaim \in Claims
  BY LastClaimAssumption DEF Claims
<1>2. NoVerdict \in Verdicts
  BY LeFacts
<1>3. QED
  BY <1>1, <1>2 DEF NoForm, NoLock, NotLocking, NotComparing, FormType, LockType, LockingType, CompareType, Jobs

\* Whatever keeps the comparison in hand and lets the verdict grow keeps what is known of both.
LEMMA GrowingKeeps ==
  ASSUME PagesInv, IsFiniteSet(answers'), answers \subseteq answers', UNCHANGED <<extras, compareVars>>
  PROVE  CompareOK'
<1>1. VHash \in Verdicts /\ VHash' \in Verdicts /\ Le(VHash, VHash')
  BY VHashGrows DEF PagesInv, PagesTyped, PagesTypeOK
<1>2. /\ locking.v \in Verdicts /\ locked.v \in Verdicts /\ comparing.v \in Verdicts
      /\ locking' = locking /\ locked' = locked /\ comparing' = comparing /\ extras' = extras
  BY DEF PagesInv, PagesTyped, PagesTypeOK, LockType, compareVars
<1>3. QED
  BY <1>1, <1>2, LeFacts DEF PagesInv, CompareOK, ComparingOK

\* What each variable has to be for the types to hold.
LEMMA Typing ==
  ASSUME brief' \in BOOLEAN, form' \in FormType, IsFiniteSet(answers'),
         answers' \subseteq Jobs \X Sources \X Respondents \X Claims,
         briefs' \subseteq Jobs \X Respondents, cut' \subseteq Jobs \X Respondents,
         firstAfter' \in {"never", "now", "earlier"}, extras' \in Extras,
         forms' \in 0 .. MaxForms, pageRestarts' \in 0 .. MaxPageRestarts,
         locked' \in LockType, locking' \in LockingType, comparing' \in CompareType
  PROVE  PagesTyped'
<1>1. \A l \in {locked', comparing'.lk} : l \in [is : BOOLEAN, v : Verdicts, late : BOOLEAN]
  BY DEF LockType, CompareType
<1>2. comparing'.pc \in {"idle", "lock", "hash", "decide"} /\ comparing'.v \in Verdicts
  BY DEF CompareType
<1>3. PagesTypeOK'
  BY <1>1, <1>2 DEF PagesTypeOK, FormType, LockingType
<1>4. QED
  BY <1>3 DEF PagesTyped

LEMMA TypedFacts ==
  ASSUME PagesInv
  PROVE  /\ brief \in BOOLEAN /\ form \in FormType /\ IsFiniteSet(answers)
         /\ answers \subseteq Jobs \X Sources \X Respondents \X Claims
         /\ briefs \subseteq Jobs \X Respondents /\ cut \subseteq Jobs \X Respondents
         /\ firstAfter \in {"never", "now", "earlier"} /\ extras \in Extras
         /\ forms \in 0 .. MaxForms /\ pageRestarts \in 0 .. MaxPageRestarts
         /\ locked \in LockType /\ locking \in LockingType /\ comparing \in CompareType
BY DEF PagesInv, PagesTyped, PagesTypeOK, FormType, LockType, LockingType

LEMMA PagesInvInit == PagesInit => PagesInv
<1> SUFFICES ASSUME PagesInit PROVE PagesInv
  OBVIOUS
<1>1. IsFiniteSet(answers) /\ VHash \in Verdicts
  <2>1. answers = {} /\ {a \in answers : a[1] = "before"} = {} /\ extras = SomeExtras
    BY DEF PagesInit
  <2>2. VHash = [n |-> 0, extras |-> SomeExtras]
    BY <2>1, FS_EmptySet DEF VHash
  <2>3. IsFiniteSet(answers)
    BY <2>1, FS_EmptySet
  <2>4. QED
    BY <2>2, <2>3, LeFacts DEF Verdicts
<1>2. PagesTyped
  <2>1. brief \in BOOLEAN /\ extras \in Extras
    BY LeFacts DEF PagesInit
  <2>2. /\ forms \in 0 .. MaxForms /\ pageRestarts \in 0 .. MaxPageRestarts
        /\ firstAfter \in {"never", "now", "earlier"}
        /\ briefs = {} /\ cut = {} /\ answers = {}
    BY PageBoundsAssumption DEF PagesInit
  <2>3. form = NoForm /\ locked = NoLock /\ locking = NotLocking /\ comparing = NotComparing
    BY DEF PagesInit
  <2>4. comparing.lk = NoLock
    BY <2>3 DEF NotComparing
  <2>5. \A l \in {locked, comparing.lk} : l \in [is : BOOLEAN, v : Verdicts, late : BOOLEAN]
    BY <2>3, <2>4, NoneFacts DEF LockType
  <2>6. comparing.pc \in {"idle", "lock", "hash", "decide"} /\ comparing.v \in Verdicts
    BY <2>3, NoneFacts DEF CompareType
  <2>7. PagesTypeOK
    BY <2>1, <2>2, <2>3, <2>5, <2>6, NoneFacts DEF PagesTypeOK, FormType, LockingType
  <2>8. QED
    BY <1>1, <2>3, <2>7, NoneFacts DEF PagesTyped
<1>3. FormOK /\ BriefsOK
  BY NoneFacts DEF PagesInit, FormOK, BriefsOK
<1>4. CompareOK
  BY <1>1, LeFacts, NoneFacts DEF PagesInit, CompareOK, ComparingOK
<1>5. QED
  BY <1>2, <1>3, <1>4 DEF PagesInv

LEMMA SubmitKeeps ==
  ASSUME PagesInv, NEW j \in Jobs, NEW s \in Sources, NEW r \in Respondents, Submit(j, s, r)
  PROVE  PagesInv'
<1>1. /\ form.pc = "idle" /\ forms < MaxForms /\ forms' = forms + 1
      /\ form' = [NoForm EXCEPT !.pc = IF brief THEN "brief" ELSE "answers", !.job = j, !.src = s, !.who = r]
      /\ UNCHANGED <<brief, briefs, answers, firstAfter, extras, locked, locking, comparing, cut, pageRestarts>>
  BY DEF Submit, rowVars, compareVars
<1>2. /\ form' \in FormType /\ form'.claim = 0 /\ form'.pc = IF brief THEN "brief" ELSE "answers"
      /\ form'.job = j /\ form'.src = s /\ form'.who = r
  BY <1>1, NoneFacts DEF FormType
<1>3. PagesTyped'
  <2>1. forms' \in 0 .. MaxForms
    <3>1. forms \in 0 .. MaxForms
      BY DEF PagesInv, PagesTyped, PagesTypeOK
    <3>2. QED
      BY <1>1, <3>1, PageBoundsAssumption
  <2>2. QED
    BY <1>1, <1>2, <2>1, Typing, TypedFacts
<1>4. FormOK'
  BY <1>1, <1>2 DEF FormOK, Claims
<1>5. BriefsOK'
  BY <1>1, <1>2 DEF PagesInv, BriefsOK, Complete
<1>6. CompareOK'
  BY <1>1, GrowingKeeps DEF PagesInv, PagesTyped, PagesTypeOK, compareVars
<1>7. QED
  BY <1>3, <1>4, <1>5, <1>6 DEF PagesInv

LEMMA AddBriefKeeps == ASSUME PagesInv, AddBrief PROVE PagesInv'
<1>1. /\ form.pc = "brief" /\ briefs' = briefs \cup {<<form.job, form.who>>}
      /\ form' = IF BriefTaken THEN NoForm ELSE [form EXCEPT !.pc = "answers", !.new = TRUE]
      /\ UNCHANGED <<brief, answers, firstAfter, extras, locked, locking, comparing, cut, forms, pageRestarts>>
  BY DEF AddBrief, compareVars
<1>2. /\ form.job \in Jobs /\ form.who \in Respondents /\ form.src \in Sources /\ brief /\ form.claim = 0
      /\ form \in FormType
  BY <1>1 DEF PagesInv, PagesTyped, PagesTypeOK, FormOK, FormType
<1>3. PagesTyped'
  <2>1. form' \in FormType
    BY <1>1, <1>2, NoneFacts DEF FormType
  <2>2. briefs' \subseteq Jobs \X Respondents
    <3>1. briefs \subseteq Jobs \X Respondents /\ <<form.job, form.who>> \in Jobs \X Respondents
      BY <1>2 DEF PagesInv, PagesTyped, PagesTypeOK
    <3>2. QED
      BY <1>1, <3>1
  <2>3. QED
    BY <1>1, <2>1, <2>2, Typing, TypedFacts
<1>4. FormOK'
  <2>1. CASE BriefTaken
    BY <1>1, <2>1, NoneFacts DEF FormOK
  <2>2. CASE ~BriefTaken
    <3>1. /\ form'.pc = "answers" /\ form'.job = form.job /\ form'.who = form.who /\ form'.src = form.src
          /\ form'.claim = 0 /\ form'.new
      BY <1>1, <1>2, <2>2 DEF FormType
    <3>2. \A c \in Claims : ~(c < 0)
      BY LastClaimAssumption DEF Claims
    <3>3. QED
      BY <1>1, <1>2, <3>1, <3>2 DEF FormOK
  <2>3. QED
    BY <2>1, <2>2
<1>5. BriefsOK'
  <2>1. CASE BriefTaken
    BY <1>1, <2>1, NoneFacts DEF PagesInv, BriefsOK, Complete, BriefTaken
  <2>2. CASE ~BriefTaken
    <3>1. /\ form'.pc = "answers" /\ form'.job = form.job /\ form'.who = form.who /\ form'.src = form.src
          /\ <<form.job, form.who>> \notin briefs
      BY <1>1, <1>2, <2>2 DEF BriefTaken, FormType
    <3>2. \A j \in Jobs, r \in Respondents : <<j, r>> = <<form.job, form.who>> <=> j = form.job /\ r = form.who
      OBVIOUS
    <3>3. QED
      BY <1>1, <1>2, <3>1, <3>2 DEF PagesInv, BriefsOK, Complete
  <2>3. QED
    BY <2>1, <2>2
<1>6. CompareOK'
  BY <1>1, GrowingKeeps DEF PagesInv, PagesTyped, PagesTypeOK, compareVars
<1>7. QED
  BY <1>3, <1>4, <1>5, <1>6 DEF PagesInv

\* A row of the form in hand keeps a respondent's rows to one brief and one source.
LEMMA RowKeeps ==
  ASSUME PagesInv, form.pc = "answers", brief,
         answers' = answers \cup {<<form.job, form.src, form.who, form.claim>>},
         NEW j \in Jobs, NEW s \in Sources, NEW r \in Respondents, NEW c \in Claims,
         <<j, s, r, c>> \in answers'
  PROVE  /\ <<j, r>> \in briefs
         /\ j = form.job /\ r = form.who => s = form.src
         /\ \A s2 \in Sources, c2 \in Claims : <<j, s2, r, c2>> \in answers' => s2 = s
<1>1. <<j, s, r, c>> \in answers \/ (j = form.job /\ s = form.src /\ r = form.who)
  OBVIOUS
<1>2. /\ <<j, r>> \in briefs
      /\ j = form.job /\ r = form.who => s = form.src
  BY <1>1 DEF PagesInv, FormOK, BriefsOK
<1>3. ASSUME NEW s2 \in Sources, NEW c2 \in Claims, <<j, s2, r, c2>> \in answers' PROVE s2 = s
  <2>1. <<j, s2, r, c2>> \in answers \/ (j = form.job /\ s2 = form.src /\ r = form.who)
    BY <1>3
  <2>2. QED
    BY <1>1, <1>2, <2>1 DEF PagesInv, BriefsOK
<1>4. QED
  BY <1>2, <1>3

LEMMA AddAnswerKeeps == ASSUME PagesInv, AddAnswer PROVE PagesInv'
<1> DEFINE row == <<form.job, form.src, form.who, form.claim>>
<1>1. /\ form.pc = "answers"
      /\ UNCHANGED <<brief, briefs, extras, locked, locking, comparing, cut, forms, pageRestarts>>
      /\ form' = IF form.claim = LastClaim THEN NoForm
                 ELSE [form EXCEPT !.claim = @ + 1, !.new = @ \/ Accepted]
  BY DEF AddAnswer, compareVars
<1>2. /\ form.job \in Jobs /\ form.who \in Respondents /\ form.src \in Sources /\ form.claim \in Claims
      /\ form \in FormType
      /\ row \in Jobs \X Sources \X Respondents \X Claims
  BY <1>1 DEF PagesInv, PagesTyped, PagesTypeOK, FormOK, FormType
<1>3. answers' = answers \cup {row} /\ firstAfter' \in {"never", "now", "earlier"}
  <2>1. CASE Accepted
    BY <2>1 DEF PagesInv, PagesTyped, PagesTypeOK, AddAnswer
  <2>2. CASE ~Accepted
    BY <1>2, <2>2 DEF PagesInv, PagesTyped, PagesTypeOK, AddAnswer, Accepted, ClaimsFrom
  <2>3. QED
    BY <2>1, <2>2
<1>4. IsFiniteSet(answers') /\ answers' \subseteq Jobs \X Sources \X Respondents \X Claims
  BY <1>2, <1>3, FS_AddElement DEF PagesInv, PagesTyped, PagesTypeOK
<1>5. CASE form.claim = LastClaim
  <2>1. form' = NoForm
    BY <1>1, <1>5
  <2>2. PagesTyped'
    BY <1>1, <1>2, <1>3, <1>4, <2>1, NoneFacts, Typing, TypedFacts
  <2>3. FormOK'
    BY <2>1, NoneFacts DEF FormOK
  <2>4. \A c \in Claims : <<form.job, form.src, form.who, c>> \in answers'
    <3>1. \A c \in Claims : c < form.claim \/ c = form.claim
      BY <1>5, LastClaimAssumption DEF Claims
    <3>2. QED
      BY <1>1, <1>3, <3>1 DEF PagesInv, FormOK
  <2>5. BriefsOK'
    <3>1. ASSUME brief, NEW j \in Jobs, NEW r \in Respondents, <<j, r>> \in briefs, <<j, r>> \notin cut
          PROVE  Complete(j, r)'
      <4>1. CASE j = form.job /\ r = form.who
        BY <1>2, <2>4, <4>1 DEF Complete
      <4>2. CASE ~(j = form.job /\ r = form.who)
        BY <1>3, <3>1, <4>2 DEF PagesInv, BriefsOK, Complete
      <4>3. QED
        BY <4>1, <4>2
    <3>2. QED
      BY <1>1, <1>2, <1>3, <2>1, <3>1, RowKeeps, NoneFacts DEF BriefsOK
  <2>6. CompareOK'
    BY <1>1, <1>3, <1>4, GrowingKeeps DEF PagesInv, PagesTyped, PagesTypeOK, compareVars
  <2>7. QED
    BY <2>2, <2>3, <2>5, <2>6 DEF PagesInv
<1>6. CASE form.claim # LastClaim
  <2>1. /\ form' \in FormType
        /\ form'.claim = form.claim + 1 /\ form'.pc = "answers" /\ (form.new => form'.new)
        /\ form'.job = form.job /\ form'.who = form.who /\ form'.src = form.src
    <3>1. \A c \in Claims : c # LastClaim => c + 1 \in Claims
      BY LastClaimAssumption DEF Claims
    <3>2. QED
      BY <1>1, <1>2, <1>6, <3>1 DEF FormType
  <2>2. PagesTyped'
    BY <1>1, <1>2, <1>3, <1>4, <2>1, Typing, TypedFacts
  <2>3. FormOK'
    <3>1. \A c \in Claims : c < form.claim + 1 => c < form.claim \/ c = form.claim
      BY <1>2, LastClaimAssumption DEF Claims
    <3>2. \A c \in Claims : c < form'.claim => <<form.job, form.src, form.who, c>> \in answers'
      BY <1>1, <1>3, <2>1, <3>1 DEF PagesInv, FormOK
    <3>3. QED
      BY <1>1, <1>2, <2>1, <3>2 DEF PagesInv, FormOK
  <2>4. BriefsOK'
    <3>1. ASSUME brief, NEW j \in Jobs, NEW r \in Respondents, <<j, r>> \in briefs, <<j, r>> \notin cut,
                 ~(j = form.job /\ r = form.who)
          PROVE  Complete(j, r)'
      BY <1>3, <3>1 DEF PagesInv, BriefsOK, Complete
    <3>2. ASSUME brief, NEW j \in Jobs, NEW s \in Sources, NEW r \in Respondents, NEW c \in Claims,
                 <<j, s, r, c>> \in answers'
          PROVE  /\ <<j, r>> \in briefs
                 /\ j = form.job /\ r = form.who => s = form.src
                 /\ \A s2 \in Sources, c2 \in Claims : <<j, s2, r, c2>> \in answers' => s2 = s
      BY <1>1, <1>3, <3>2, RowKeeps
    <3>3. ASSUME brief, NEW j \in Jobs, NEW r \in Respondents, <<j, r>> \in briefs
          PROVE  \/ Complete(j, r)' \/ <<j, r>> \in cut
                 \/ form'.pc = "answers" /\ form'.job = j /\ form'.who = r
      BY <2>1, <3>1, <3>3
    <3>4. ASSUME brief, NEW j \in Jobs, NEW s \in Sources, NEW r \in Respondents, NEW c \in Claims,
                 <<j, s, r, c>> \in answers'
          PROVE  form'.job = j /\ form'.who = r => form'.src = s
      BY <2>1, <3>2, <3>4
    <3>5. brief' = brief /\ briefs' = briefs /\ cut' = cut
      BY <1>1
    <3>6. QED
      BY <3>2, <3>3, <3>4, <3>5 DEF BriefsOK
  <2>5. CompareOK'
    BY <1>1, <1>3, <1>4, GrowingKeeps DEF PagesInv, PagesTyped, PagesTypeOK, compareVars
  <2>6. QED
    BY <2>2, <2>3, <2>4, <2>5 DEF PagesInv
<1>7. QED
  BY <1>5, <1>6

LEMMA ExtrasChangeKeeps == ASSUME PagesInv, NEW e \in Extras, ExtrasChange(e) PROVE PagesInv'
<1>1. /\ extras' = e
      /\ comparing' = [comparing EXCEPT !.moved = @ \/ comparing.pc \in {"lock", "hash"}]
      /\ UNCHANGED <<brief, briefs, answers, firstAfter, form, locked, locking, cut, forms, pageRestarts>>
  BY DEF ExtrasChange
<1>2. comparing' \in CompareType /\ comparing'.pc = comparing.pc /\ comparing'.v = comparing.v
      /\ comparing'.lk = comparing.lk /\ comparing'.crossed = comparing.crossed
      /\ comparing'.moved = (comparing.moved \/ comparing.pc \in {"lock", "hash"})
      /\ comparing.pc \in {"idle", "lock", "hash", "decide"}
  BY <1>1, TypedFacts DEF CompareType
<1>3. PagesTyped'
  BY <1>1, <1>2, Typing, TypedFacts
<1>4. FormOK' /\ BriefsOK'
  BY <1>1 DEF PagesInv, FormOK, BriefsOK, Complete
<1>5. VHash \in Verdicts /\ VHash' \in Verdicts /\ Le(VHash, VHash')
  BY <1>1, VHashGrows, TypedFacts
<1>6. locking.v \in Verdicts /\ locked.v \in Verdicts /\ comparing.v \in Verdicts
  BY TypedFacts DEF LockType, LockingType, CompareType
<1>7. CompareOK'
  BY <1>1, <1>2, <1>5, <1>6, LeFacts DEF PagesInv, CompareOK, ComparingOK
<1>8. QED
  BY <1>3, <1>4, <1>7 DEF PagesInv

LEMMA SecondKeeps == ASSUME PagesInv, Second PROVE PagesInv'
<1>1. /\ firstAfter' = "earlier"
      /\ UNCHANGED <<brief, briefs, answers, extras, form, locked, locking, comparing, cut, forms, pageRestarts>>
  BY DEF Second, compareVars
<1>2. PagesTyped'
  BY <1>1, Typing, TypedFacts
<1>3. FormOK' /\ BriefsOK'
  BY <1>1 DEF PagesInv, FormOK, BriefsOK, Complete
<1>4. CompareOK'
  BY <1>1, GrowingKeeps DEF PagesInv, PagesTyped, PagesTypeOK, compareVars
<1>5. QED
  BY <1>2, <1>3, <1>4 DEF PagesInv

LEMMA RestartPagesKeeps == ASSUME PagesInv, RestartPages PROVE PagesInv'
<1>1. /\ pageRestarts < MaxPageRestarts /\ pageRestarts' = pageRestarts + 1
      /\ cut' = IF form.pc = "idle" THEN cut ELSE cut \cup {<<form.job, form.who>>}
      /\ form' = NoForm /\ locking' = NotLocking /\ comparing' = NotComparing
      /\ UNCHANGED <<brief, briefs, answers, firstAfter, extras, locked, forms>>
  BY DEF RestartPages, rowVars
<1>2. pageRestarts' \in 0 .. MaxPageRestarts
  <2>1. pageRestarts \in 0 .. MaxPageRestarts
    BY DEF PagesInv, PagesTyped, PagesTypeOK
  <2>2. QED
    BY <1>1, <2>1, PageBoundsAssumption
<1>3. cut' \subseteq Jobs \X Respondents
  <2>1. cut \subseteq Jobs \X Respondents
    BY DEF PagesInv, PagesTyped, PagesTypeOK
  <2>2. form.pc # "idle" => <<form.job, form.who>> \in Jobs \X Respondents
    BY DEF PagesInv, PagesTyped, PagesTypeOK, FormOK
  <2>3. QED
    BY <1>1, <2>1, <2>2
<1>4. PagesTyped'
  BY <1>1, <1>2, <1>3, NoneFacts, Typing, TypedFacts
<1>5. FormOK'
  BY <1>1, NoneFacts DEF FormOK
<1>6. BriefsOK'
  <2>1. ASSUME brief, NEW j \in Jobs, NEW r \in Respondents, <<j, r>> \in briefs, <<j, r>> \notin cut'
        PROVE  Complete(j, r)'
    BY <1>1, <2>1 DEF PagesInv, BriefsOK, Complete
  <2>2. QED
    BY <1>1, <2>1, NoneFacts DEF PagesInv, BriefsOK
<1>7. CompareOK'
  <2>1. VHash \in Verdicts /\ VHash' = VHash
    BY <1>1, VHashGrows DEF PagesInv, PagesTyped, PagesTypeOK, VHash
  <2>2. QED
    BY <1>1, <2>1, LeFacts, NoneFacts DEF PagesInv, CompareOK, ComparingOK
<1>8. QED
  BY <1>4, <1>5, <1>6, <1>7 DEF PagesInv

\* Lock and comparison leave the rows and the form in hand alone.
LEMMA ReadingKeeps ==
  ASSUME PagesInv, UNCHANGED <<brief, briefs, answers, firstAfter, extras, form, cut, forms, pageRestarts>>
  PROVE  FormOK' /\ BriefsOK' /\ VHash' = VHash /\ VHash \in Verdicts
<1>1. FormOK'
  BY DEF PagesInv, FormOK
<1>2. BriefsOK'
  BY DEF PagesInv, BriefsOK, Complete
<1>3. VHash' = VHash
  BY DEF VHash
<1>4. VHash \in Verdicts
  BY VHashGrows, TypedFacts
<1>5. QED
  BY <1>1, <1>2, <1>3, <1>4

LEMMA LockKeeps == ASSUME PagesInv, LockRead \/ LockEvent PROVE PagesInv'
<1>1. /\ UNCHANGED <<brief, briefs, answers, firstAfter, extras, form, cut, forms, pageRestarts>>
      /\ \/ /\ locking' = [pc |-> "event", v |-> VHash] /\ UNCHANGED <<locked, comparing>>
         \/ /\ locked' = [is |-> TRUE, v |-> locking.v, late |-> firstAfter = "earlier"]
            /\ locking' = NotLocking
            /\ comparing' = [comparing EXCEPT !.crossed = @ \/ comparing.pc = "lock"]
  BY DEF LockRead, LockEvent, rowVars
<1>2. FormOK' /\ BriefsOK' /\ VHash' = VHash /\ VHash \in Verdicts
  BY <1>1, ReadingKeeps
<1>3. comparing \in CompareType /\ locked \in LockType /\ locking \in LockingType
  BY TypedFacts
<1>4. CASE locking' = [pc |-> "event", v |-> VHash] /\ UNCHANGED <<locked, comparing>>
  <2>1. PagesTyped'
    <3>1. locking' \in LockingType
      BY <1>2, <1>4 DEF LockingType
    <3>2. QED
      BY <1>1, <1>4, <3>1, Typing, TypedFacts
  <2>2. CompareOK'
    <3>1. Le(locking.v, VHash)' /\ Le(locked.v, VHash)'
      BY <1>2, <1>4, LeFacts DEF PagesInv, CompareOK
    <3>2. ComparingOK'
      BY <1>1, <1>2, <1>4 DEF PagesInv, CompareOK, ComparingOK
    <3>3. QED
      BY <3>1, <3>2 DEF CompareOK
  <2>3. QED
    BY <1>2, <2>1, <2>2 DEF PagesInv
<1>5. CASE /\ locked' = [is |-> TRUE, v |-> locking.v, late |-> firstAfter = "earlier"]
           /\ locking' = NotLocking
           /\ comparing' = [comparing EXCEPT !.crossed = @ \/ comparing.pc = "lock"]
  <2>1. /\ locked' \in LockType /\ locked'.v = locking.v
        /\ comparing' \in CompareType /\ comparing'.crossed = (comparing.crossed \/ comparing.pc = "lock")
        /\ comparing'.pc = comparing.pc /\ comparing'.v = comparing.v /\ comparing'.lk = comparing.lk
        /\ comparing'.moved = comparing.moved
    BY <1>3, <1>5 DEF LockType, LockingType, CompareType
  <2>2. PagesTyped'
    BY <1>1, <1>5, <2>1, NoneFacts, Typing, TypedFacts
  <2>3. CompareOK'
    <3>1. Le(locking.v, VHash)' /\ Le(locked.v, VHash)'
      BY <1>2, <1>5, <2>1, LeFacts, NoneFacts DEF PagesInv, CompareOK
    <3>2. ComparingOK'
      BY <1>1, <1>2, <2>1 DEF PagesInv, CompareOK, ComparingOK
    <3>3. QED
      BY <3>1, <3>2 DEF CompareOK
  <2>4. QED
    BY <1>2, <2>2, <2>3 DEF PagesInv
<1>6. QED
  BY <1>1, <1>4, <1>5

LEMMA CompareKeeps ==
  ASSUME PagesInv, CompareVerdicts \/ CompareLock \/ CompareHash \/ CompareDecide
  PROVE  PagesInv'
<1>1. /\ UNCHANGED <<brief, briefs, answers, firstAfter, extras, form, cut, forms, pageRestarts, locked, locking>>
      /\ \/ comparing' = [NotComparing EXCEPT !.pc = "lock", !.v = VHash]
         \/ comparing.pc = "lock" /\ comparing' = [comparing EXCEPT !.pc = "hash", !.lk = locked]
         \/ /\ comparing.pc = "hash" /\ comparing.lk.v = VHash
            /\ comparing' = [comparing EXCEPT !.pc = "decide"]
         \/ comparing' = NotComparing
  BY DEF CompareVerdicts, CompareLock, CompareHash, CompareDecide, Reading, rowVars
<1>3. FormOK' /\ BriefsOK' /\ VHash' = VHash /\ VHash \in Verdicts
  BY <1>1, ReadingKeeps
<1>4. comparing \in CompareType /\ locked \in LockType
  BY TypedFacts
<1>5. comparing' \in CompareType
  BY <1>1, <1>3, <1>4, NoneFacts DEF CompareType
<1>6. PagesTyped'
  BY <1>1, <1>5, Typing, TypedFacts
<1>7. CompareOK'
  <2>1. CASE comparing' = NotComparing
    BY <1>1, <1>3, <2>1, NoneFacts DEF PagesInv, CompareOK, ComparingOK
  <2>2. CASE comparing' = [NotComparing EXCEPT !.pc = "lock", !.v = VHash]
    <3>1. comparing'.pc = "lock" /\ comparing'.v = VHash
      BY <2>2 DEF NotComparing
    <3>2. QED
      BY <1>1, <1>3, <3>1, LeFacts DEF PagesInv, CompareOK, ComparingOK
  <2>3. CASE comparing.pc = "lock" /\ comparing' = [comparing EXCEPT !.pc = "hash", !.lk = locked]
    BY <1>1, <1>3, <1>4, <2>3 DEF PagesInv, CompareOK, ComparingOK, CompareType
  <2>4. CASE /\ comparing.pc = "hash" /\ comparing.lk.v = VHash
             /\ comparing' = [comparing EXCEPT !.pc = "decide"]
    <3>1. /\ comparing'.pc = "decide" /\ comparing'.v = comparing.v /\ comparing'.lk = comparing.lk
          /\ comparing'.crossed = comparing.crossed /\ comparing'.moved = comparing.moved
          /\ comparing.v \in Verdicts /\ comparing.lk.v \in Verdicts
      BY <1>4, <2>4 DEF LockType, CompareType
    <3>2. /\ Le(comparing.v, VHash)
          /\ ~comparing.crossed => Le(comparing.lk.v, comparing.v)
          /\ ~comparing.moved => comparing.v.extras = extras
      BY <2>4 DEF PagesInv, CompareOK, ComparingOK
    <3>3. ~comparing.crossed => comparing.v.n = comparing.lk.v.n
      BY <2>4, <3>1, <3>2, LeFacts
    <3>4. ~comparing.moved => comparing.v.extras = comparing.lk.v.extras
      BY <2>4, <3>2, LeFacts
    <3>5. QED
      BY <1>1, <1>3, <2>4, <3>1, <3>2, <3>3, <3>4, LeFacts DEF PagesInv, CompareOK, ComparingOK
  <2>5. QED
    BY <1>1, <2>1, <2>2, <2>3, <2>4
<1>8. QED
  BY <1>3, <1>6, <1>7 DEF PagesInv

LEMMA PagesInvNext == PagesInv /\ [PagesNext]_pageVars => PagesInv'
<1> SUFFICES ASSUME PagesInv, [PagesNext]_pageVars PROVE PagesInv'
  OBVIOUS
<1>1. CASE \E j \in Jobs, s \in Sources, r \in Respondents : Submit(j, s, r)
  BY <1>1, SubmitKeeps
<1>2. CASE AddBrief \/ AddAnswer \/ \E e \in Extras : ExtrasChange(e)
  BY <1>2, AddBriefKeeps, AddAnswerKeeps, ExtrasChangeKeeps
<1>3. CASE LockRead \/ LockEvent
  BY <1>3, LockKeeps
<1>4. CASE CompareVerdicts \/ CompareLock \/ CompareHash \/ CompareDecide
  BY <1>4, CompareKeeps
<1>5. CASE Second \/ RestartPages
  BY <1>5, SecondKeeps, RestartPagesKeeps
<1>6. CASE UNCHANGED pageVars
  <2>1. UNCHANGED <<brief, briefs, answers, firstAfter, extras, form, cut, forms, pageRestarts, locked, locking, comparing>>
    BY <1>6 DEF pageVars, rowVars, compareVars
  <2>2. PagesTyped'
    BY <2>1, Typing, TypedFacts
  <2>3. FormOK' /\ BriefsOK' /\ VHash' = VHash
    BY <2>1, ReadingKeeps
  <2>4. CompareOK'
    BY <2>1, <2>3 DEF PagesInv, CompareOK, ComparingOK
  <2>5. QED
    BY <2>2, <2>3, <2>4 DEF PagesInv
<1>7. QED
  BY <1>1, <1>2, <1>3, <1>4, <1>5, <1>6 DEF PagesNext

LEMMA PagesInvAlways == PagesSpec => []PagesInv
BY PagesInvInit, PagesInvNext, PTL DEF PagesSpec

\* Every variable of the rating pages has its type.
THEOREM PagesTypedAlways == PagesSpec => []PagesTypeOK
<1>1. PagesInv => PagesTypeOK
  BY DEF PagesInv, PagesTyped
<1>2. QED
  BY <1>1, PagesInvAlways, PTL

LEMMA OnRecord ==
  ASSUME NEW j, NEW r
  PROVE  Complete(j, r) => ClaimsOf(j, r) = Claims
<1>1. \A s \in Sources : ClaimsFrom(j, s, r) \subseteq ClaimsOf(j, r)
  BY DEF ClaimsOf
<1>2. ClaimsOf(j, r) \subseteq Claims
  BY DEF ClaimsOf, ClaimsFrom
<1>3. ASSUME Complete(j, r), NEW c \in Claims PROVE c \in ClaimsOf(j, r)
  <2>1. PICK s \in Sources : <<j, s, r, c>> \in answers
    BY <1>3 DEF Complete
  <2>2. c \in ClaimsFrom(j, s, r)
    BY <2>1 DEF ClaimsFrom
  <2>3. QED
    BY <1>1, <2>2
<1>4. QED
  BY <1>2, <1>3

\* A comparison that reports a measured difference has respondents nobody of whom finished
\* both forms, and a lock of a verdict with the very answers it compares, whatever came in
\* or was restarted between its reads, unless it was locked again between the first two; the
\* verdict is the locked one in all else unless something in it changed meanwhile
\* (before_after.compare, api.rate_submit).
THEOREM ComparisonsAreMeasured == PagesSpec => []ComparisonIsMeasured
<1>1. PagesInv => ComparisonIsMeasured
  <2>1. SUFFICES ASSUME PagesInv, Measured PROVE
            /\ \A r \in Respondents : ~(Finished("before", r) /\ Finished("after", r))
            /\ ~comparing.crossed => /\ comparing.v.n = comparing.lk.v.n
                                     /\ comparing.moved \/ comparing.v = comparing.lk.v
    BY DEF ComparisonIsMeasured
  <2>2. ASSUME NEW j \in Jobs, NEW r \in Respondents, Finished(j, r) PROVE r \in Counted(j)
    <3>1. CASE brief
      <4>1. <<j, r>> \in briefs /\ <<j, r>> \notin cut /\ ~(form.pc = "answers" /\ form.job = j /\ form.who = r)
        BY <2>2, <3>1 DEF Finished
      <4>2. ClaimsOf(j, r) = Claims
        BY <2>1, <3>1, <4>1, OnRecord DEF PagesInv, BriefsOK
      <4>3. QED
        BY <4>2, NoneFacts DEF Counted
    <3>2. CASE ~brief
      BY <2>2, <3>2 DEF Finished, Counted
    <3>3. QED
      BY <3>1, <3>2
  <2>3. \A r \in Respondents : ~(Finished("before", r) /\ Finished("after", r))
    BY <2>1, <2>2 DEF Measured, Shared, Jobs
  <2>4. ~comparing.crossed => /\ comparing.v.n = comparing.lk.v.n
                              /\ comparing.moved \/ comparing.v = comparing.lk.v
    BY <2>1 DEF Measured, PagesInv, CompareOK, ComparingOK
  <2>5. QED
    BY <2>3, <2>4
<1>2. QED
  BY <1>1, PagesInvAlways, PTL

\* Nobody's answers count twice on the v2 page and nobody is told so in error on either:
\* the brief stands for all its answers unless a restart cut it from them
\* (rate_v2.submit, store.add_human_brief, store.add_human_answer).
THEOREM RespondentsCountOnce == PagesSpec => []CountedOnce
<1>1. PagesInv => CountedOnce
  <2>1. SUFFICES ASSUME PagesInv PROVE CountedOnce
    OBVIOUS
  <2>2. BriefTaken => ClaimsOf(form.job, form.who) = Claims \/ <<form.job, form.who>> \in cut
    <3>1. SUFFICES ASSUME BriefTaken
                   PROVE  Complete(form.job, form.who) \/ <<form.job, form.who>> \in cut
      BY OnRecord
    <3>2. form.pc = "brief" /\ <<form.job, form.who>> \in briefs /\ brief
          /\ form.job \in Jobs /\ form.who \in Respondents
      BY <2>1, <3>1 DEF BriefTaken, PagesInv, FormOK, PagesTyped, PagesTypeOK
    <3>3. QED
      BY <2>1, <3>2 DEF PagesInv, BriefsOK
  <2>3. NoneAccepted => ClaimsOf(form.job, form.who) = Claims
    <3>1. SUFFICES ASSUME NoneAccepted PROVE Complete(form.job, form.who)
      BY OnRecord
    <3>2. /\ form.pc = "answers" /\ form.claim = LastClaim /\ form.src \in Sources
          /\ <<form.job, form.src, form.who, LastClaim>> \in answers
      BY <2>1, <3>1, NoneFacts DEF NoneAccepted, Accepted, ClaimsFrom, PagesInv, FormOK
    <3>3. \A c \in Claims : c < LastClaim \/ c = LastClaim
      BY LastClaimAssumption DEF Claims
    <3>4. QED
      BY <2>1, <3>2, <3>3 DEF PagesInv, FormOK, Complete
  <2>4. ASSUME brief, NEW j \in Jobs, NEW r \in Respondents
        PROVE  Cardinality({s \in Sources : ClaimsFrom(j, s, r) # {}}) <= 1
    <3> DEFINE S == {s \in Sources : ClaimsFrom(j, s, r) # {}}
    <3>1. \A s, s2 \in S : s = s2
      BY <2>1, <2>4 DEF ClaimsFrom, PagesInv, BriefsOK
    <3>2. S = {} \/ \E s : S = {s}
      BY <3>1
    <3>3. Cardinality(S) = 0 \/ Cardinality(S) = 1
      BY <3>2, FS_EmptySet, FS_Singleton
    <3>4. QED
      BY <3>3
  <2>5. QED
    BY <2>2, <2>3, <2>4 DEF CountedOnce
<1>2. QED
  BY <1>1, PagesInvAlways, PTL

-----------------------------------------------------------------------------
(* The parts side by side.  A step of one leaves the variables of the      *)
(* others alone, so each keeps the invariant it has by itself.             *)

PartsInv ==
  /\ RatersInv /\ CacheInv /\ StampInv /\ PagesInv /\ ReplayInv
  /\ AdmissionInv /\ AdmissionTypeOK
  /\ ReportInv /\ ReportTyping

LEMMA EachPartMoves ==
  [PartsNext]_partsVars =>
    /\ [RatersNext]_raterVars /\ [CacheNext]_cacheVars /\ [AdmissionNext]_admissionVars
    /\ [ReportNext]_reportVars /\ [StampNext]_stampVars /\ [PagesNext]_pageVars /\ [ReplayNext]_replayVars
BY DEF PartsNext, partsVars

LEMMA PartsInvInit == PartsInit => PartsInv
BY RatersInvInit, CacheInvInit, StampInvInit, PagesInvInit, ReplayInvInit, AdmissionInitially, ReportInvInit,
   ReportTypingInit DEF PartsInit, PartsInv

LEMMA PartsInvNext == PartsInv /\ [PartsNext]_partsVars => PartsInv'
<1> SUFFICES ASSUME PartsInv, [PartsNext]_partsVars PROVE PartsInv'
  OBVIOUS
<1>1. RatersInv' /\ CacheInv' /\ StampInv' /\ PagesInv' /\ ReplayInv'
  BY EachPartMoves, RatersInvNext, CacheInvNext, StampInvNext, PagesInvNext, ReplayInvNext DEF PartsInv
<1>2. AdmissionInv' /\ AdmissionTypeOK'
  BY EachPartMoves, AdmissionInvNext, AdmissionTypingNext DEF PartsInv
<1>3. ReportInv' /\ ReportTyping'
  BY EachPartMoves, ReportInvNext, ReportTypingNext DEF PartsInv
<1>4. QED
  BY <1>1, <1>2, <1>3 DEF PartsInv

\* The parts are well typed side by side, for any values of all their constants: what one
\* of them does is nothing to the others.
THEOREM PartsTyped == PartsSpec => []PartsTypeOK
<1>1. PartsInv => PartsTypeOK
  BY DEF PartsInv, PartsTypeOK, RatersInv, CacheInv, StampInv, PagesInv, PagesTyped, ReplayInv, ReportTyping
<1>2. QED
  BY <1>1, PartsInvInit, PartsInvNext, PTL DEF PartsSpec
=============================================================================
