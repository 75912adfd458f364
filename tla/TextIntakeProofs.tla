--------------------------- MODULE TextIntakeProofs ---------------------------
(***************************************************************************)
(* One phone's orders, for any orders, texts and links.  Between two       *)
(* writes of a turn or of a merge the copy in hand is ahead of the rows;   *)
(* the invariant says of each place how far (TurnOK), and that what the    *)
(* buyer was told never gets ahead of the order (ToldOK).  Once a merge    *)
(* and a turn have overlapped (torn) it says nothing of either, nor of an  *)
(* order whose sources the operator has reset.                             *)
(***************************************************************************)
EXTENDS TextIntake, WellFoundedInduction, TLAPS

\* A request that lacks nothing another has: each slot filled there is filled, each note is kept.
Below(a, b) ==
  /\ \A s \in Slots : a.links[s] # NoLink => b.links[s] # NoLink
  /\ a.notes \subseteq b.notes

Made == Orders \ Absent

\* An order's request is req, or what judge.start read of it in the free room.
Agree(o, req) == request[o] = req \/ (free /\ request[o] \in Resolved(req))

\* Finitely many orders have been made, so that a set of them has a newest.
Bounded == \E n \in Nat : \A o \in Made : o <= n

LoopOK ==
  /\ loop.pc = "open" => loop.job \in Absent
  /\ loop.pc \in {"attach", "row", "stage"} => loop.job \in Made

PollerOK ==
  /\ poller.pc \in {"idle", "start", "nudge", "mark"}
  /\ poller.pc \in {"start", "mark"} => poller.job \in Made
  /\ poller.todo \subseteq Made \ nudgedFlag
  /\ poller.pc = "nudge" => poller.todo # {}
  /\ poller.pc = "mark" => poller.job \notin poller.todo /\ poller.job \notin nudgedFlag

MergeOK ==
  /\ merge.pc \in {"idle", "cancel", "row", "reset"}
  /\ merge.pc # "idle" => merge.job \in Made
  /\ merge.todo \subseteq Made

LastOK == last.job # NoOrder => last.job \in Made

\* A turn and a merge in hand at once have torn the thread.
Apart == loop.pc # "idle" /\ merge.pc # "idle" => torn

TurnOK ==
  ~torn =>
    /\ loop.pc = "attach" => Below(request[loop.job], loop.req)
    /\ loop.pc = "row" => Agree(loop.job, loop.req)
    /\ merge.pc = "cancel" => Below(request[merge.job], merge.req)
    /\ merge.pc = "row" => merge.req = request[merge.job]

ToldOK ==
  /\ \A o \in Absent : told[o] = Empty /\ bought[o] = Empty
  /\ ~torn => \A o \in Orders \ reset : Below(told[o], request[o]) /\ Below(bought[o], request[o])

\* The order the poller is about to start is started with what it was bought with.
StartOK == ~torn /\ poller.pc = "start" /\ poller.job \notin reset => Below(bought[poller.job], poller.req)

LatestOK ==
  /\ ~torn /\ last.job # NoOrder /\ last.job \notin reset
  /\ ~(loop.pc = "row" /\ loop.job = last.job)
  /\ ~(merge.pc = "row" /\ merge.job = last.job)
  => Agree(last.job, last.req)

\* An order that has its flag, or whose nudge waits for it, has one more nudge than the
\* restarts can account for at most.
Nudged(o) == o \in nudgedFlag \/ (poller.pc = "mark" /\ poller.job = o)
NudgesOK == \A o \in Orders : nudges[o] <= restarts + (IF Nudged(o) THEN 1 ELSE 0)

Inv == /\ TypeOK /\ Bounded /\ LoopOK /\ PollerOK /\ MergeOK /\ LastOK /\ Apart
       /\ TurnOK /\ ToldOK /\ StartOK /\ LatestOK /\ NudgesOK
-----------------------------------------------------------------------------
(* Numbers.                                                                *)

LEMMA MinFacts ==
  ASSUME NEW S \in SUBSET Nat, S # {}
  PROVE  Min(S) \in S /\ \A x \in S : Min(S) <= x
<1>1. \E m \in S : \A x \in S : ~(<<x, m>> \in OpToRel(<, Nat))
  BY WFMin, NatLessThanWellFounded
<1>2. \A m, x \in S : <<x, m>> \in OpToRel(<, Nat) <=> x < m
  BY DEF OpToRel
<1>3. \E m \in S : \A x \in S : m <= x
  <2>1. PICK m \in S : \A x \in S : ~(<<x, m>> \in OpToRel(<, Nat))
    BY <1>1
  <2>2. \A x \in S : x \in Nat /\ m \in Nat /\ ~(x < m)
    BY <1>2, <2>1
  <2>3. \A x \in S : m <= x
    BY <2>2
  <2>4. QED
    BY <2>3
<1>4. QED
  BY <1>3 DEF Min

LEMMA MaxFacts ==
  ASSUME NEW S \in SUBSET Nat, S # {}, NEW n \in Nat, \A x \in S : x <= n
  PROVE  Max(S) \in S /\ \A x \in S : x <= Max(S)
<1> DEFINE Bounds == {m \in Nat : \A x \in S : x <= m}
<1>1. Min(Bounds) \in Bounds /\ \A m \in Bounds : Min(Bounds) <= m
  BY MinFacts
<1> DEFINE m == Min(Bounds)
<1>2. m \in Nat /\ \A x \in S : x <= m
  BY <1>1
<1>3. m \in S
  <2>1. ASSUME m \notin S PROVE m - 1 \in Bounds
    <3>1. \A x \in S : x \in Nat /\ x <= m /\ x # m
      BY <2>1, <1>2
    <3>2. \A x \in S : x <= m - 1
      BY <1>2, <3>1
    <3>3. PICK x \in S : TRUE
      OBVIOUS
    <3>4. x \in Nat /\ x <= m /\ x # m /\ m \in Nat
      BY <1>2, <3>1
    <3>5. m - 1 \in Nat
      BY <3>4
    <3>6. QED
      BY <3>2, <3>5
  <2>2. QED
    BY <2>1, <1>1, <1>2
<1>4. \A x, y \in S : x >= y <=> y <= x
  OBVIOUS
<1> HIDE DEF m, Bounds
<1>5. QED
  BY <1>2, <1>3, <1>4 DEF Max

\* A set of orders that have been made has a newest.
LEMMA NewestMade ==
  ASSUME Bounded, NEW S \in SUBSET Made, S # {}
  PROVE  Max(S) \in S /\ \A o \in S : o <= Max(S)
<1>1. PICK n \in Nat : \A o \in Made : o <= n
  BY DEF Bounded
<1>2. S \in SUBSET Nat
  BY OrdersAssumption DEF Made
<1>3. QED
  BY <1>1, <1>2, MaxFacts

\* Orders are numbered in order of creation.
LEMMA NextOrder == Absent # {} => Min(Absent) \in Absent
BY OrdersAssumption, MinFacts DEF Absent
-----------------------------------------------------------------------------
(* Requests.                                                               *)

LEMMA LinkFacts == NoLink \in Links /\ \A t \in Texts : \A s \in Slots : t.links[s] \in Links
<1>1. NoLink \in Links
  BY DEF Links
<1>2. ASSUME NEW t \in Texts, NEW s \in Slots PROVE t.links[s] \in Links
  <2>1. t.links[s] \in {t.links[r] : r \in Slots}
    OBVIOUS
  <2>2. {t.links[r] : r \in Slots} \in {{u.links[r] : r \in Slots} : u \in Texts}
    OBVIOUS
  <2>3. QED
    BY <2>1, <2>2, Zenon DEF Links
<1>3. QED
  BY <1>1, <1>2

LEMMA EmptyFacts == Empty \in Requests /\ \A r : Below(Empty, r)
<1>1. NoLink \in Links
  BY LinkFacts
<1>2. QED
  BY <1>1 DEF Empty, Requests, Below

LEMMA BelowFacts ==
  /\ \A a : Below(a, a)
  /\ \A a, b, c : Below(a, b) /\ Below(b, c) => Below(a, c)
BY DEF Below

\* What a text is turned into, whichever of its links open.
LEMMA TextFacts ==
  ASSUME NEW t \in Texts, NEW opens \in Opens(t)
  PROVE  /\ FirstRequest(t, opens) \in Requests
         /\ \A r \in Requests : Attached(r, t, opens) \in Requests /\ Below(r, Attached(r, t, opens))
<1>1. opens \subseteq Slots /\ \A s \in opens : t.links[s] # NoLink
  BY DEF Opens, LinkedSlots
<1>2. NoLink \in Links /\ \A s \in Slots : t.links[s] \in Links
  BY LinkFacts
<1>3. NoteOf(t) \subseteq {"note", "apology", "bundle"}
  BY DEF NoteOf
<1>4. Good(t, opens) \in [Slots -> Links]
  BY <1>1, <1>2 DEF Good
<1>5. FirstRequest(t, opens) \in Requests
  BY <1>3, <1>4 DEF FirstRequest, Requests
<1>6. ASSUME NEW r \in Requests PROVE Attached(r, t, opens) \in Requests /\ Below(r, Attached(r, t, opens))
  <2>1. r.links \in [Slots -> Links] /\ r.notes \subseteq {"note", "apology", "bundle"}
    BY DEF Requests
  <2>2. Attached(r, t, opens) \in Requests
    BY <1>1, <1>2, <1>3, <2>1 DEF Attached, Requests
  <2>3. Below(r, Attached(r, t, opens))
    BY <1>1, <2>1 DEF Attached, Below
  <2>4. QED
    BY <2>2, <2>3
<1>7. QED
  BY <1>5, <1>6

\* Reading sources makes a request of a request, and loses nothing of it.
LEMMA BundleFacts ==
  ASSUME NEW req \in Requests, NEW r \in Bundles(req)
  PROVE  r \in Requests /\ Below(req, r)
<1>1. PageSlot \in Slots /\ PageLinks \subseteq Links /\ NoLink \in Links
  BY LinkFacts, SlotsAssumption DEF PageLinks
<1>2. CASE r = req
  BY <1>2, BelowFacts
<1>3. ASSUME NEW live \in PageLinks,
             r = [links |-> [req.links EXCEPT ![PageSlot] = IF @ = NoLink THEN live ELSE @],
                  notes |-> req.notes \cup {"bundle"}]
      PROVE  r \in Requests /\ Below(req, r)
  BY <1>1, <1>3 DEF Requests, Below
<1>4. QED
  BY <1>2, <1>3 DEF Bundles

LEMMA ResolvedFacts ==
  ASSUME NEW req \in Requests, NEW r \in Resolved(req)
  PROVE  r \in Requests /\ Below(req, r)
<1>1. \E x \in Bundles(req) \cup {req} : r = IF x.notes = {} THEN [x EXCEPT !.notes = {"apology"}] ELSE x
  BY DEF Resolved
<1>2. PICK x \in Bundles(req) \cup {req} : r = IF x.notes = {} THEN [x EXCEPT !.notes = {"apology"}] ELSE x
  BY <1>1
<1>3. x \in Requests /\ Below(req, x)
  BY <1>2, BundleFacts, BelowFacts
<1>4. QED
  BY <1>2, <1>3 DEF Requests, Below

LEMMA ResetFacts ==
  ASSUME NEW req \in Requests, NEW to \in Resets, NEW r \in ResetTo(req, to)
  PROVE  r \in Requests
<1> DEFINE new == [links |-> [req.links EXCEPT ![to.slot] = to.link],
                   notes |-> IF "bundle" \in req.notes THEN {} ELSE req.notes]
<1>1. to.slot \in Slots /\ to.link \in Links
  BY SlotsAssumption
<1>2. new \in Requests
  BY <1>1 DEF Requests
<1>3. r \in Bundles(new) \cup {new}
  BY DEF ResetTo
<1> HIDE DEF new
<1>4. QED
  BY <1>2, <1>3, BundleFacts

\* A merge keeps what the surviving order has.
LEMMA MergeFacts ==
  ASSUME request \in [Orders -> Requests], Bounded, NEW S \in SUBSET Made, S # {}
  PROVE  Merged(S) \in Requests /\ Below(request[Max(S)], Merged(S))
<1> DEFINE offers(s) == {o \in S : request[o].links[s] # NoLink}
<1>1. Max(S) \in S /\ S \subseteq Orders
  BY NewestMade DEF Made
<1>2. \A s : offers(s) # {} => Max(offers(s)) \in offers(s)
  BY NewestMade
<1>3. NoLink \in Links /\ \A o \in Orders : request[o].links \in [Slots -> Links]
                                   /\ request[o].notes \subseteq {"note", "apology", "bundle"}
  BY LinkFacts DEF Requests
<1>4. /\ Merged(S).links = [s \in Slots |-> IF offers(s) = {} THEN NoLink ELSE request[Max(offers(s))].links[s]]
      /\ Merged(S).notes = UNION {request[o].notes : o \in S}
      /\ Merged(S) = [links |-> Merged(S).links, notes |-> Merged(S).notes]
  BY DEF Merged
<1> HIDE DEF offers
<1>5. \A s \in Slots : offers(s) # {} => request[Max(offers(s))].links[s] \in Links \ {NoLink}
  BY <1>1, <1>2, <1>3 DEF offers
<1>6. Merged(S).links \in [Slots -> Links]
  BY <1>3, <1>4, <1>5
<1>7. Merged(S).notes \subseteq {"note", "apology", "bundle"}
  BY <1>1, <1>3, <1>4
<1>8. Merged(S) \in Requests
  BY <1>4, <1>6, <1>7 DEF Requests
<1>9. Below(request[Max(S)], Merged(S))
  <2>1. ASSUME NEW s \in Slots, request[Max(S)].links[s] # NoLink PROVE Merged(S).links[s] # NoLink
    BY <1>1, <1>4, <1>5, <2>1 DEF offers
  <2>2. request[Max(S)].notes \subseteq Merged(S).notes
    BY <1>1, <1>4
  <2>3. QED
    BY <2>1, <2>2 DEF Below
<1>10. QED
  BY <1>8, <1>9
-----------------------------------------------------------------------------
(* Every step keeps the invariant.                                         *)

LEMMA PendingFacts ==
  /\ Pending \subseteq Made
  /\ OpenJob # NoOrder => OpenJob \in Pending /\ OpenJob = last.job
  /\ NoOrder \notin Orders /\ Orders \subseteq Nat
BY OrdersAssumption DEF Pending, Made, Absent, OpenJob

LEMMA SameStatus ==
  ASSUME status' = status
  PROVE  Made' = Made /\ Absent' = Absent /\ Pending' = Pending /\ (Bounded => Bounded')
BY DEF Made, Absent, Pending, Bounded

LEMMA InvInit == Init => Inv
<1> SUFFICES ASSUME Init PROVE Inv
  OBVIOUS
<1>1. /\ Made = {} /\ Absent = Orders
      /\ told = request /\ bought = request /\ request = [o \in Orders |-> Empty]
  BY DEF Init, Made, Absent
<1>2. TypeOK
  <2>1. Empty \in Requests
    BY EmptyFacts
  <2>2. /\ request \in [Orders -> Requests] /\ told \in [Orders -> Requests]
        /\ bought \in [Orders -> Requests]
    BY <1>1, <2>1
  <2>3. /\ Idle \in [pc : {"idle", "start", "nudge", "mark", "cancel", "row", "reset"},
                     job : Orders \cup {NoOrder}, req : Requests, todo : SUBSET Orders]
        /\ IdleLoop \in [pc : {"idle", "open", "attach", "row", "stage"}, job : Orders \cup {NoOrder},
                         req : Requests, first : BOOLEAN]
        /\ [job |-> NoOrder, req |-> Empty] \in [job : Orders \cup {NoOrder}, req : Requests]
    BY <2>1 DEF Idle, IdleLoop
  <2>4. {free, torn} \subseteq BOOLEAN /\ reset \subseteq Orders
    BY DEF Init
  <2>5. /\ status \in [Orders -> {"absent", "pending_payment", "started", "cancelled"}]
        /\ stage \in [Orders -> {"gathering", "awaiting_payment", "paid"}]
        /\ nudges \in [Orders -> Nat] /\ {texts, reruns, merges, restarts} \subseteq Nat
        /\ nudgedFlag \subseteq Orders /\ quiet \subseteq Orders /\ paid \subseteq Orders
    BY DEF Init
  <2>6. /\ loop = IdleLoop /\ poller = Idle /\ merge = Idle
        /\ last = [job |-> NoOrder, req |-> Empty]
    BY DEF Init
  <2>7. QED
    BY <2>2, <2>3, <2>4, <2>5, <2>6 DEF TypeOK
<1>3. Bounded
  BY <1>1 DEF Bounded
<1>4. LoopOK /\ PollerOK /\ MergeOK /\ LastOK /\ Apart /\ TurnOK
  BY DEF Init, LoopOK, PollerOK, MergeOK, LastOK, Apart, TurnOK, Agree, IdleLoop, Idle
<1>5. ToldOK
  BY <1>1, EmptyFacts DEF ToldOK
<1>6. StartOK /\ LatestOK /\ NudgesOK
  BY DEF Init, StartOK, LatestOK, Agree, NudgesOK, Idle
<1>7. QED
  BY <1>2, <1>3, <1>4, <1>5, <1>6 DEF Inv

LEMMA ReceiveKeeps ==
  ASSUME Inv, NEW t \in Texts, NEW opens \in Opens(t), Receive(t, opens)
  PROVE  Inv'
<1> DEFINE turn == loop'
<1>1. /\ turn \in [pc : {"open", "attach", "stage"}, job : Orders, req : Requests, first : BOOLEAN]
      /\ turn.pc = "open" => turn.job \in Absent
      /\ turn.pc # "open" => turn.job \in Pending
      /\ turn.pc = "attach" => Below(request[turn.job], turn.req)
      /\ reruns' \in Nat
  <2>1. CASE /\ t.word = "RERUN" /\ opens = {} /\ last.job # NoOrder /\ Absent # {}
             /\ Turn("open", Min(Absent), last.req, TRUE) /\ reruns' = reruns + 1
    BY <2>1, NextOrder DEF Inv, TypeOK, Turn, Absent
  <2>2. CASE /\ t.word \in {"DONE", "PAY"} /\ opens = {} /\ OpenJob # NoOrder
             /\ Turn("stage", OpenJob, Empty, FALSE) /\ UNCHANGED reruns
    BY <2>2, EmptyFacts, PendingFacts DEF Inv, TypeOK, Turn, Made
  <2>3. CASE /\ t.word = "" /\ OpenJob # NoOrder
             /\ Turn("attach", OpenJob, Attached(request[OpenJob], t, opens), FALSE) /\ UNCHANGED reruns
    <3>1. OpenJob \in Pending /\ OpenJob \in Orders /\ request[OpenJob] \in Requests
      BY <2>3, PendingFacts DEF Inv, TypeOK, Made
    <3>2. QED
      BY <2>3, <3>1, TextFacts DEF Inv, TypeOK, Turn
  <2>4. CASE /\ t.word # "RERUN" /\ OpenJob = NoOrder /\ Absent # {}
             /\ Turn("open", Min(Absent), FirstRequest(t, opens), TRUE) /\ UNCHANGED reruns
    BY <2>4, NextOrder, TextFacts DEF Inv, TypeOK, Turn, Absent
  <2>5. QED
    BY <2>1, <2>2, <2>3, <2>4 DEF Receive
<1>2. /\ Made' = Made /\ Absent' = Absent /\ Pending \subseteq Made /\ Bounded'
      /\ loop.pc = "idle" /\ texts' = texts + 1 /\ torn' = (torn \/ merge.pc # "idle")
      /\ UNCHANGED <<free, rows, poller, merge, paid, told, bought, nudges, reset, merges, restarts>>
  BY SameStatus, PendingFacts DEF Receive, Inv, rows
<1> HIDE DEF turn
<1>3. TypeOK'
  BY <1>1, <1>2 DEF Inv, TypeOK, rows, turn
<1>4. LoopOK'
  BY <1>1, <1>2 DEF LoopOK, turn
<1>5. PollerOK' /\ MergeOK' /\ LastOK'
  BY <1>2 DEF Inv, PollerOK, MergeOK, LastOK, rows
<1>6. Apart'
  BY <1>2 DEF Inv, Apart, TypeOK
<1>7. TurnOK'
  BY <1>1, <1>2 DEF Inv, TurnOK, Agree, TypeOK, rows, turn
<1>8. ToldOK' /\ StartOK' /\ NudgesOK'
  BY <1>2 DEF Inv, ToldOK, StartOK, NudgesOK, Nudged, TypeOK, rows
<1>9. LatestOK'
  BY <1>1, <1>2 DEF Inv, LatestOK, Agree, TypeOK, rows, turn
<1>10. QED
  BY <1>2, <1>3, <1>4, <1>5, <1>6, <1>7, <1>8, <1>9 DEF Inv

LEMMA OpenKeeps == ASSUME Inv, Open PROVE Inv'
<1> DEFINE o == loop.job
<1>1. /\ o \in Absent /\ o \in Orders /\ o \in Nat /\ o \notin Made /\ status[o] = "absent"
      /\ loop.req \in Requests
  BY PendingFacts DEF Inv, TypeOK, LoopOK, Open, Made, Absent
<1>2. /\ \E req \in IF free THEN Resolved(loop.req) ELSE {loop.req} : request' = [request EXCEPT ![o] = req]
      /\ status' = [status EXCEPT ![o] = IF free THEN "started" ELSE "pending_payment"]
      /\ loop' = [loop EXCEPT !.pc = "row"] /\ loop.pc = "open"
      /\ UNCHANGED <<free, stage, nudgedFlag, quiet, last, poller, merge, paid, told, bought, nudges, torn, reset, counts>>
  BY DEF Open
<1> HIDE DEF o
<1>3. Made' = Made \cup {o} /\ Absent' = Absent \ {o}
  BY <1>1, <1>2 DEF Made, Absent, Inv, TypeOK
<1>4. Bounded'
  <2>1. PICK n \in Nat : \A x \in Made : x <= n
    BY DEF Inv, Bounded
  <2>2. CASE n <= o
    <3>1. \A x \in Made' : x <= o
      BY <1>1, <1>3, <2>1, <2>2, PendingFacts DEF Made
    <3>2. QED
      BY <1>1, <3>1 DEF Bounded
  <2>3. CASE o <= n
    BY <1>3, <2>1, <2>3 DEF Bounded
  <2>4. QED
    BY <1>1, <2>1, <2>2, <2>3
<1>5. TypeOK'
  <2>1. PICK req \in IF free THEN Resolved(loop.req) ELSE {loop.req} : request' = [request EXCEPT ![o] = req]
    BY <1>2
  <2>2. req \in Requests
    BY <1>1, <2>1, ResolvedFacts
  <2>3. QED
    BY <1>1, <1>2, <2>1, <2>2 DEF Inv, TypeOK, counts
<1>6. \A x \in Made : request'[x] = request[x]
  BY <1>1, <1>2 DEF Inv, TypeOK
<1>7. LoopOK' /\ PollerOK' /\ MergeOK' /\ LastOK' /\ Apart'
  BY <1>1, <1>2, <1>3 DEF Inv, LoopOK, PollerOK, MergeOK, LastOK, Apart, o, TypeOK
<1>8. TurnOK'
  BY <1>1, <1>2, <1>6 DEF Inv, TypeOK, TurnOK, Agree, MergeOK, o
<1>9. ToldOK' /\ StartOK'
  BY <1>1, <1>2, <1>3, <1>6, EmptyFacts DEF Inv, TypeOK, ToldOK, StartOK, Made
<1>10. LatestOK'
  BY <1>1, <1>2, <1>6 DEF Inv, TypeOK, LatestOK, Agree, LastOK, o
<1>11. NudgesOK'
  BY <1>2 DEF Inv, NudgesOK, Nudged, counts
<1>12. QED
  BY <1>4, <1>5, <1>7, <1>8, <1>9, <1>10, <1>11 DEF Inv

LEMMA AttachKeeps == ASSUME Inv, Attach PROVE Inv'
<1> DEFINE o == loop.job
<1>1. o \in Made /\ o \in Orders /\ loop.req \in Requests
  BY DEF Inv, TypeOK, LoopOK, Attach, Made
<1>2. /\ request' = [request EXCEPT ![o] = loop.req] /\ quiet' = quiet \ {o}
      /\ loop' = [loop EXCEPT !.pc = "row"] /\ loop.pc = "attach"
      /\ UNCHANGED <<free, status, stage, nudgedFlag, last, poller, merge, paid, history, counts>>
  BY DEF Attach
<1>3. Made' = Made /\ Absent' = Absent /\ Bounded'
  BY <1>2, SameStatus DEF Inv
<1> HIDE DEF o
<1>4. TypeOK'
  BY <1>1, <1>2 DEF Inv, TypeOK, counts, history
<1>5. LoopOK' /\ PollerOK' /\ MergeOK' /\ LastOK' /\ Apart'
  BY <1>1, <1>2, <1>3 DEF Inv, LoopOK, PollerOK, MergeOK, LastOK, Apart, o, TypeOK, history
<1>6. TurnOK'
  BY <1>1, <1>2 DEF Inv, TypeOK, TurnOK, Agree, Apart, history, o
<1>7. ~torn => \A x \in Orders : Below(request[x], request'[x])
  BY <1>1, <1>2, BelowFacts DEF Inv, TypeOK, TurnOK, Agree, o
<1>8. ToldOK' /\ StartOK'
  BY <1>2, <1>3, <1>7, BelowFacts DEF Inv, TypeOK, ToldOK, StartOK, history
<1>9. LatestOK'
  BY <1>1, <1>2 DEF Inv, TypeOK, LatestOK, Agree, LastOK, Apart, history, o
<1>10. NudgesOK'
  BY <1>2 DEF Inv, NudgesOK, Nudged, counts, history
<1>11. QED
  BY <1>3, <1>4, <1>5, <1>6, <1>8, <1>9, <1>10 DEF Inv

LEMMA PutRowKeeps == ASSUME Inv, PutRow PROVE Inv'
<1> DEFINE o == loop.job
<1>1. o \in Made /\ o \in Orders /\ o # NoOrder /\ loop.req \in Requests /\ loop.pc = "row"
  BY PendingFacts DEF Inv, TypeOK, LoopOK, PutRow, Made
<1>2. /\ last' = [job |-> o, req |-> loop.req]
      /\ told' = IF o \in Pending THEN [told EXCEPT ![o] = loop.req] ELSE told
      /\ loop' = IdleLoop
      /\ UNCHANGED <<free, status, request, stage, nudgedFlag, quiet, poller, merge, paid,
                     bought, nudges, torn, reset, counts>>
  BY DEF PutRow
<1>3. Made' = Made /\ Absent' = Absent /\ Bounded' /\ Pending \subseteq Made
  BY <1>2, SameStatus, PendingFacts DEF Inv
<1> HIDE DEF o
<1>4. TypeOK'
  BY <1>1, <1>2, EmptyFacts DEF Inv, TypeOK, counts, IdleLoop
<1>5. LoopOK' /\ PollerOK' /\ MergeOK' /\ LastOK' /\ Apart' /\ TurnOK'
  BY <1>1, <1>2, <1>3 DEF Inv, LoopOK, PollerOK, MergeOK, LastOK, Apart, TurnOK, Agree, IdleLoop
<1>6. ~torn => Agree(o, loop.req) /\ Below(loop.req, request[o])
  <2>1. ~torn => Agree(o, loop.req)
    BY <1>1 DEF Inv, TurnOK, o
  <2>2. Agree(o, loop.req) => Below(loop.req, request[o])
    BY <1>1, ResolvedFacts, BelowFacts DEF Agree
  <2>3. QED
    BY <2>1, <2>2
<1>7. ToldOK'
  BY <1>1, <1>2, <1>3, <1>6, BelowFacts DEF Inv, TypeOK, ToldOK, Made
<1>8. StartOK' /\ NudgesOK'
  BY <1>2 DEF Inv, StartOK, NudgesOK, Nudged, counts
<1>9. LatestOK'
  BY <1>1, <1>2, <1>6 DEF Inv, LatestOK, Agree
<1>10. QED
  BY <1>3, <1>4, <1>5, <1>7, <1>8, <1>9 DEF Inv

LEMMA SendPaymentKeeps == ASSUME Inv, SendPayment PROVE Inv'
<1>1. /\ stage' = [stage EXCEPT ![loop.job] = "awaiting_payment"] /\ loop' = IdleLoop
      /\ UNCHANGED <<free, status, request, nudgedFlag, quiet, last, poller, merge, paid, history, counts>>
      /\ loop.pc = "stage"
  BY DEF SendPayment
<1>2. Made' = Made /\ Absent' = Absent /\ Bounded'
  BY <1>1, SameStatus DEF Inv
<1>3. TypeOK'
  BY <1>1, EmptyFacts DEF Inv, TypeOK, counts, history, IdleLoop
<1>4. LoopOK' /\ PollerOK' /\ MergeOK' /\ LastOK' /\ Apart' /\ TurnOK'
  BY <1>1, <1>2 DEF Inv, LoopOK, PollerOK, MergeOK, LastOK, Apart, TurnOK, Agree, IdleLoop, history
<1>5. ToldOK' /\ StartOK' /\ NudgesOK' /\ LatestOK'
  BY <1>1, <1>2 DEF Inv, ToldOK, StartOK, NudgesOK, Nudged, LatestOK, Agree, counts, history, IdleLoop
<1>6. QED
  BY <1>2, <1>3, <1>4, <1>5 DEF Inv

LEMMA TenMinutesKeeps == ASSUME Inv, TenMinutes PROVE Inv'
<1>1. /\ quiet' = Pending /\ Pending \subseteq Orders
      /\ UNCHANGED <<free, status, request, stage, nudgedFlag, last, loop, poller, merge, paid, history, counts>>
  BY DEF TenMinutes, Pending
<1>2. Made' = Made /\ Absent' = Absent /\ Bounded'
  BY <1>1, SameStatus DEF Inv
<1>3. TypeOK'
  BY <1>1 DEF Inv, TypeOK, counts, history
<1>4. LoopOK' /\ PollerOK' /\ MergeOK' /\ LastOK' /\ Apart' /\ TurnOK'
  BY <1>1, <1>2 DEF Inv, LoopOK, PollerOK, MergeOK, LastOK, Apart, TurnOK, Agree, history
<1>5. ToldOK' /\ StartOK' /\ NudgesOK' /\ LatestOK'
  BY <1>1, <1>2 DEF Inv, ToldOK, StartOK, NudgesOK, Nudged, LatestOK, Agree, counts, history
<1>6. QED
  BY <1>2, <1>3, <1>4, <1>5 DEF Inv

LEMMA PayKeeps == ASSUME Inv, NEW o \in Orders, Pay(o) PROVE Inv'
<1>1. /\ o \in Pending /\ ~(poller.pc = "start" /\ poller.job = o)
      /\ paid' = paid \cup {o} /\ bought' = [bought EXCEPT ![o] = told[o]]
      /\ UNCHANGED <<free, rows, loop, poller, merge, told, nudges, torn, reset, counts>>
  BY DEF Pay
<1>2. Made' = Made /\ Absent' = Absent /\ Bounded' /\ o \notin Absent
  BY <1>1, SameStatus, PendingFacts DEF Inv, rows, Made
<1>3. TypeOK'
  BY <1>1 DEF Inv, TypeOK, counts, rows
<1>4. LoopOK' /\ PollerOK' /\ MergeOK' /\ LastOK' /\ Apart' /\ TurnOK'
  BY <1>1, <1>2 DEF Inv, LoopOK, PollerOK, MergeOK, LastOK, Apart, TurnOK, Agree, rows
<1>5. ToldOK'
  BY <1>1, <1>2 DEF Inv, TypeOK, ToldOK, rows
<1>6. StartOK' /\ NudgesOK' /\ LatestOK'
  BY <1>1 DEF Inv, TypeOK, StartOK, NudgesOK, Nudged, LatestOK, Agree, counts, rows
<1>7. QED
  BY <1>2, <1>3, <1>4, <1>5, <1>6 DEF Inv

LEMMA ReadPaidKeeps == ASSUME Inv, NEW o \in Orders, ReadPaid(o) PROVE Inv'
<1>1. /\ o \in Pending /\ poller.pc = "idle" /\ paid' = paid \ {o}
      /\ poller' = [pc |-> "start", job |-> o, req |-> request[o], todo |-> {}]
      /\ UNCHANGED <<free, rows, loop, merge, history, counts>>
  BY DEF ReadPaid, Idle
<1>2. Made' = Made /\ Absent' = Absent /\ Bounded' /\ o \in Made
  BY <1>1, SameStatus, PendingFacts DEF Inv, rows
<1>3. TypeOK'
  BY <1>1 DEF Inv, TypeOK, counts, rows, history
<1>4. LoopOK' /\ PollerOK' /\ MergeOK' /\ LastOK' /\ Apart' /\ TurnOK'
  BY <1>1, <1>2 DEF Inv, LoopOK, PollerOK, MergeOK, LastOK, Apart, TurnOK, Agree, rows, history
<1>5. ToldOK' /\ StartOK'
  BY <1>1, <1>2 DEF Inv, TypeOK, ToldOK, StartOK, rows, history
<1>6. NudgesOK' /\ LatestOK'
  BY <1>1 DEF Inv, TypeOK, NudgesOK, Nudged, LatestOK, Agree, counts, rows, history
<1>7. QED
  BY <1>2, <1>3, <1>4, <1>5, <1>6 DEF Inv

LEMMA StartKeeps == ASSUME Inv, Start PROVE Inv'
<1> DEFINE o == poller.job
<1>1. o \in Made /\ o \in Orders /\ poller.pc = "start"
  BY DEF Inv, PollerOK, Start, Made
<1>2. /\ status' = [status EXCEPT ![o] = "started"] /\ stage' = [stage EXCEPT ![o] = "paid"]
      /\ told' = [told EXCEPT ![o] = Empty] /\ bought' = [bought EXCEPT ![o] = Empty]
      /\ poller' = Idle
      /\ UNCHANGED <<free, request, nudgedFlag, quiet, last, loop, merge, paid, nudges, torn, reset, counts>>
  BY DEF Start
<1> HIDE DEF o
<1>3. Made' = Made /\ Absent' = Absent
  BY <1>1, <1>2 DEF Inv, TypeOK, Made, Absent
<1>4. Bounded'
  BY <1>3 DEF Inv, Bounded
<1>5. TypeOK'
  BY <1>1, <1>2, EmptyFacts DEF Inv, TypeOK, counts, Idle
<1>6. LoopOK' /\ PollerOK' /\ MergeOK' /\ LastOK' /\ Apart' /\ TurnOK'
  BY <1>2, <1>3 DEF Inv, LoopOK, PollerOK, MergeOK, LastOK, Apart, TurnOK, Agree, Idle
<1>7. ToldOK' /\ StartOK'
  BY <1>1, <1>2, <1>3, EmptyFacts DEF Inv, TypeOK, ToldOK, StartOK, Idle
<1>8. NudgesOK' /\ LatestOK'
  BY <1>1, <1>2 DEF Inv, TypeOK, NudgesOK, Nudged, LatestOK, Agree, counts, Idle
<1>9. QED
  BY <1>4, <1>5, <1>6, <1>7, <1>8 DEF Inv

LEMMA ScanKeeps == ASSUME Inv, Scan PROVE Inv'
<1>1. /\ NudgeDue # {} /\ NudgeDue \subseteq Made \ nudgedFlag /\ NudgeDue \subseteq Orders
      /\ poller' = [pc |-> "nudge", job |-> NoOrder, req |-> Empty, todo |-> NudgeDue]
      /\ poller.pc = "idle"
      /\ UNCHANGED <<free, rows, loop, merge, paid, history, counts>>
  BY PendingFacts DEF Scan, Idle, NudgeDue, Made
<1>2. Made' = Made /\ Absent' = Absent /\ Bounded' /\ nudgedFlag' = nudgedFlag
  BY <1>1, SameStatus DEF Inv, rows
<1>3. TypeOK'
  BY <1>1, EmptyFacts DEF Inv, TypeOK, counts, rows, history
<1>4. PollerOK'
  BY <1>1, <1>2 DEF PollerOK
<1>5. LoopOK' /\ MergeOK' /\ LastOK' /\ Apart' /\ TurnOK'
  BY <1>1, <1>2 DEF Inv, LoopOK, MergeOK, LastOK, Apart, TurnOK, Agree, rows, history
<1>6. ToldOK' /\ StartOK' /\ NudgesOK' /\ LatestOK'
  BY <1>1, <1>2 DEF Inv, ToldOK, StartOK, NudgesOK, Nudged, LatestOK, Agree, counts, rows, history
<1>7. QED
  BY <1>2, <1>3, <1>4, <1>5, <1>6 DEF Inv

LEMMA NudgeKeeps == ASSUME Inv, Nudge PROVE Inv'
<1> DEFINE o == Max(poller.todo)
           rest == poller.todo \ {o}
           due == o = OpenJob
<1>1. /\ poller.pc = "nudge"
      /\ nudges' = IF due THEN [nudges EXCEPT ![o] = @ + 1] ELSE nudges
      /\ poller' = IF due THEN [poller EXCEPT !.pc = "mark", !.job = o, !.todo = rest]
                   ELSE IF rest = {} THEN Idle ELSE [poller EXCEPT !.todo = rest]
      /\ UNCHANGED <<free, rows, loop, merge, paid, told, bought, torn, reset, counts>>
  BY DEF Nudge
<1>2. o \in poller.todo /\ o \in Made /\ o \in Orders /\ o \notin nudgedFlag
  BY <1>1, NewestMade DEF Inv, PollerOK, Made
<1>3. Made' = Made /\ Absent' = Absent /\ Bounded' /\ nudgedFlag' = nudgedFlag
  BY <1>1, SameStatus DEF Inv, rows
<1> HIDE DEF o, due
<1>4. TypeOK'
  <2>1. nudges' \in [Orders -> Nat]
    BY <1>1, <1>2 DEF Inv, TypeOK
  <2>2. poller' \in [pc : {"idle", "start", "nudge", "mark", "cancel", "row", "reset"},
                     job : Orders \cup {NoOrder}, req : Requests, todo : SUBSET Orders]
    BY <1>1, <1>2, EmptyFacts DEF Inv, TypeOK, Idle
  <2>3. QED
    BY <1>1, <2>1, <2>2 DEF Inv, TypeOK, counts, rows
<1>5. PollerOK'
  BY <1>1, <1>2, <1>3 DEF Inv, PollerOK, TypeOK, Idle
<1>6. LoopOK' /\ MergeOK' /\ LastOK' /\ Apart' /\ TurnOK'
  BY <1>1, <1>3 DEF Inv, LoopOK, MergeOK, LastOK, Apart, TurnOK, Agree, rows
<1>7. ToldOK' /\ StartOK' /\ LatestOK'
  BY <1>1, <1>3 DEF Inv, TypeOK, ToldOK, StartOK, LatestOK, Agree, rows, Idle
<1>8. NudgesOK'
  <2>1. ASSUME NEW x \in Orders PROVE (nudges[x] <= restarts + (IF Nudged(x) THEN 1 ELSE 0))'
    <3>1. /\ nudges[x] \in Nat /\ restarts \in Nat /\ restarts' = restarts
          /\ nudges[x] <= restarts + (IF x \in nudgedFlag THEN 1 ELSE 0)
      BY <1>1 DEF Inv, TypeOK, NudgesOK, Nudged, counts
    <3>2. CASE due /\ x = o
      <4>1. nudges'[x] = nudges[x] + 1 /\ Nudged(x)'
        BY <1>1, <1>2, <3>2 DEF Inv, TypeOK, Nudged
      <4>2. QED
        BY <1>2, <3>1, <3>2, <4>1
    <3>3. CASE ~(due /\ x = o)
      <4>1. nudges'[x] = nudges[x] /\ (x \in nudgedFlag => Nudged(x)')
        BY <1>1, <1>3, <3>3 DEF Inv, TypeOK, Nudged
      <4>2. QED
        BY <3>1, <4>1
    <3>4. QED
      BY <3>2, <3>3
  <2>2. QED
    BY <2>1 DEF NudgesOK
<1>9. QED
  BY <1>3, <1>4, <1>5, <1>6, <1>7, <1>8 DEF Inv

LEMMA MarkNudgedKeeps == ASSUME Inv, MarkNudged PROVE Inv'
<1>1. /\ poller.pc = "mark" /\ nudgedFlag' = nudgedFlag \cup {poller.job}
      /\ poller' = IF poller.todo = {} THEN Idle ELSE [poller EXCEPT !.pc = "nudge", !.job = NoOrder]
      /\ UNCHANGED <<free, status, request, stage, quiet, last, loop, merge, paid, history, counts>>
  BY DEF MarkNudged
<1>2. Made' = Made /\ Absent' = Absent /\ Bounded' /\ poller.job \in Orders
  BY <1>1, SameStatus DEF Inv, PollerOK, Made
<1>3. TypeOK'
  <2>1. poller' \in [pc : {"idle", "start", "nudge", "mark", "cancel", "row", "reset"},
                     job : Orders \cup {NoOrder}, req : Requests, todo : SUBSET Orders]
    BY <1>1, EmptyFacts DEF Inv, TypeOK, Idle
  <2>2. nudgedFlag' \subseteq Orders
    BY <1>1, <1>2 DEF Inv, TypeOK
  <2>3. QED
    BY <1>1, <2>1, <2>2 DEF Inv, TypeOK, counts, history
<1>4. PollerOK'
  BY <1>1, <1>2 DEF Inv, PollerOK, TypeOK, Idle
<1>5. LoopOK' /\ MergeOK' /\ LastOK' /\ Apart' /\ TurnOK'
  BY <1>1, <1>2 DEF Inv, LoopOK, MergeOK, LastOK, Apart, TurnOK, Agree, history
<1>6. ToldOK' /\ StartOK' /\ LatestOK'
  BY <1>1, <1>2 DEF Inv, TypeOK, ToldOK, StartOK, LatestOK, Agree, history, Idle
<1>7. NudgesOK'
  BY <1>1 DEF Inv, TypeOK, NudgesOK, Nudged, counts, history
<1>8. QED
  BY <1>2, <1>3, <1>4, <1>5, <1>6, <1>7 DEF Inv

LEMMA MergeReadKeeps == ASSUME Inv, MergeRead PROVE Inv'
<1> DEFINE keep == Max(Pending)
<1>1. /\ Pending # {} /\ merge.pc = "idle" /\ merges' = merges + 1
      /\ merge' = [pc |-> "cancel", job |-> keep, req |-> Merged(Pending), todo |-> Pending \ {keep}]
      /\ torn' = (torn \/ loop.pc # "idle")
      /\ UNCHANGED <<free, rows, loop, poller, paid, told, bought, nudges, reset, texts, reruns, restarts>>
  BY DEF MergeRead
<1>2. Made' = Made /\ Absent' = Absent /\ Bounded' /\ Pending \subseteq Made /\ Made \subseteq Orders
  BY <1>1, SameStatus, PendingFacts DEF Inv, rows, Made
<1>3. keep \in Pending /\ keep \in Orders
  BY <1>1, <1>2, NewestMade DEF Inv
<1>4. Merged(Pending) \in Requests /\ Below(request[keep], Merged(Pending))
  BY <1>1, <1>2, MergeFacts DEF Inv, TypeOK
<1> HIDE DEF keep
<1>5. TypeOK'
  <2>1. merge' \in [pc : {"idle", "start", "nudge", "mark", "cancel", "row", "reset"},
                    job : Orders \cup {NoOrder}, req : Requests, todo : SUBSET Orders]
    BY <1>1, <1>2, <1>3, <1>4
  <2>2. torn' \in BOOLEAN /\ merges' \in Nat
    BY <1>1 DEF Inv, TypeOK
  <2>3. QED
    BY <1>1, <2>1, <2>2 DEF Inv, TypeOK, rows
<1>6. MergeOK' /\ Apart'
  BY <1>1, <1>2, <1>3 DEF Inv, TypeOK, MergeOK, Apart
<1>7. LoopOK' /\ PollerOK' /\ LastOK'
  BY <1>1, <1>2 DEF Inv, LoopOK, PollerOK, LastOK, rows
<1>8. TurnOK'
  BY <1>1, <1>4 DEF Inv, TypeOK, TurnOK, Agree, rows
<1>9. ToldOK' /\ StartOK' /\ LatestOK' /\ NudgesOK'
  BY <1>1, <1>2 DEF Inv, TypeOK, ToldOK, StartOK, LatestOK, Agree, NudgesOK, Nudged, rows
<1>10. QED
  BY <1>2, <1>5, <1>6, <1>7, <1>8, <1>9 DEF Inv

LEMMA MergeCancelKeeps == ASSUME Inv, MergeCancel PROVE Inv'
<1> DEFINE o == Max(merge.todo)
<1>1. /\ merge.pc = "cancel" /\ merge.todo # {}
      /\ status' = [status EXCEPT ![o] = "cancelled"]
      /\ merge' = [merge EXCEPT !.todo = @ \ {o}]
      /\ UNCHANGED <<free, request, stage, nudgedFlag, quiet, last, loop, poller, paid, history, counts>>
  BY DEF MergeCancel
<1>2. o \in Made /\ o \in Orders
  BY <1>1, NewestMade DEF Inv, MergeOK, Made
<1> HIDE DEF o
<1>3. Made' = Made /\ Absent' = Absent
  BY <1>1, <1>2 DEF Inv, TypeOK, Made, Absent
<1>4. Bounded'
  BY <1>3 DEF Inv, Bounded
<1>5. TypeOK'
  BY <1>1, <1>2 DEF Inv, TypeOK, counts, history
<1>6. LoopOK' /\ PollerOK' /\ MergeOK' /\ LastOK' /\ Apart' /\ TurnOK'
  BY <1>1, <1>3 DEF Inv, TypeOK, LoopOK, PollerOK, MergeOK, LastOK, Apart, TurnOK, Agree, history
<1>7. ToldOK' /\ StartOK' /\ LatestOK' /\ NudgesOK'
  BY <1>1, <1>3 DEF Inv, TypeOK, ToldOK, StartOK, LatestOK, Agree, NudgesOK, Nudged, counts, history
<1>8. QED
  BY <1>4, <1>5, <1>6, <1>7 DEF Inv

LEMMA MergeUpdateKeeps == ASSUME Inv, MergeUpdate PROVE Inv'
<1> DEFINE o == merge.job
<1>1. o \in Made /\ o \in Orders /\ merge.req \in Requests /\ merge.pc = "cancel"
  BY DEF Inv, TypeOK, MergeOK, MergeUpdate, Made
<1>2. /\ request' = [request EXCEPT ![o] = merge.req] /\ merge' = [merge EXCEPT !.pc = "row"]
      /\ UNCHANGED <<free, status, stage, nudgedFlag, quiet, last, loop, poller, paid, history, counts>>
  BY DEF MergeUpdate
<1>3. Made' = Made /\ Absent' = Absent /\ Bounded'
  BY <1>2, SameStatus DEF Inv
<1> HIDE DEF o
<1>4. TypeOK'
  BY <1>1, <1>2 DEF Inv, TypeOK, counts, history
<1>5. LoopOK' /\ PollerOK' /\ MergeOK' /\ LastOK' /\ Apart'
  BY <1>1, <1>2, <1>3 DEF Inv, LoopOK, PollerOK, MergeOK, LastOK, Apart, o, TypeOK, history
<1>6. TurnOK'
  BY <1>1, <1>2 DEF Inv, TypeOK, TurnOK, Agree, Apart, history, o
<1>7. ~torn => \A x \in Orders : Below(request[x], request'[x])
  BY <1>1, <1>2, BelowFacts DEF Inv, TypeOK, TurnOK, Agree, o
<1>8. ToldOK' /\ StartOK'
  BY <1>2, <1>3, <1>7, BelowFacts DEF Inv, TypeOK, ToldOK, StartOK, history
<1>9. LatestOK'
  BY <1>1, <1>2 DEF Inv, TypeOK, LatestOK, Agree, LastOK, Apart, history, o
<1>10. NudgesOK'
  BY <1>2 DEF Inv, NudgesOK, Nudged, counts, history
<1>11. QED
  BY <1>3, <1>4, <1>5, <1>6, <1>8, <1>9, <1>10 DEF Inv

LEMMA MergeRowKeeps == ASSUME Inv, MergeRow PROVE Inv'
<1> DEFINE o == merge.job
<1>1. o \in Made /\ o \in Orders /\ o # NoOrder /\ merge.req \in Requests /\ merge.pc = "row"
  BY PendingFacts DEF Inv, TypeOK, MergeOK, MergeRow, Made
<1>2. /\ last' = [job |-> o, req |-> merge.req]
      /\ told' = IF o \in Pending THEN [told EXCEPT ![o] = merge.req] ELSE told
      /\ merge' = Idle
      /\ UNCHANGED <<free, status, request, stage, nudgedFlag, quiet, loop, poller, paid,
                     bought, nudges, torn, reset, counts>>
  BY DEF MergeRow
<1>3. Made' = Made /\ Absent' = Absent /\ Bounded' /\ Pending \subseteq Made
  BY <1>2, SameStatus, PendingFacts DEF Inv
<1> HIDE DEF o
<1>4. TypeOK'
  BY <1>1, <1>2, EmptyFacts DEF Inv, TypeOK, counts, Idle
<1>5. LoopOK' /\ PollerOK' /\ MergeOK' /\ LastOK' /\ Apart' /\ TurnOK'
  BY <1>1, <1>2, <1>3 DEF Inv, LoopOK, PollerOK, MergeOK, LastOK, Apart, TurnOK, Agree, Idle
<1>6. ~torn => merge.req = request[o]
  BY <1>1 DEF Inv, TurnOK, Agree, o
<1>7. ToldOK'
  BY <1>1, <1>2, <1>3, <1>6, BelowFacts DEF Inv, TypeOK, ToldOK, Made
<1>8. StartOK' /\ NudgesOK'
  BY <1>2 DEF Inv, StartOK, NudgesOK, Nudged, counts
<1>9. LatestOK'
  BY <1>1, <1>2, <1>6 DEF Inv, LatestOK, Agree
<1>10. QED
  BY <1>3, <1>4, <1>5, <1>7, <1>8, <1>9 DEF Inv

LEMMA ResetReadKeeps == ASSUME Inv, NEW o \in Orders, ResetRead(o) PROVE Inv'
<1>1. /\ o \in Made /\ merge.pc = "idle" /\ merges' = merges + 1 /\ torn' = (torn \/ loop.pc # "idle")
      /\ UNCHANGED <<free, rows, loop, poller, paid, told, bought, nudges, reset, texts, reruns, restarts>>
  BY DEF ResetRead, Made
<1>2. PICK req \in Requests : merge' = [pc |-> "reset", job |-> o, req |-> req, todo |-> {}]
  <2>1. PICK to \in Resets : \E req \in ResetTo(request[o], to) :
          merge' = [pc |-> "reset", job |-> o, req |-> req, todo |-> {}]
    BY DEF ResetRead
  <2>2. request[o] \in Requests
    BY DEF Inv, TypeOK
  <2>3. QED
    BY <2>1, <2>2, ResetFacts
<1>3. Made' = Made /\ Absent' = Absent /\ Bounded'
  BY <1>1, SameStatus DEF Inv, rows
<1>4. TypeOK'
  <2>1. merge' \in [pc : {"idle", "start", "nudge", "mark", "cancel", "row", "reset"},
                    job : Orders \cup {NoOrder}, req : Requests, todo : SUBSET Orders]
    BY <1>2
  <2>2. torn' \in BOOLEAN /\ merges' \in Nat
    BY <1>1 DEF Inv, TypeOK
  <2>3. QED
    BY <1>1, <2>1, <2>2 DEF Inv, TypeOK, rows
<1>5. MergeOK' /\ Apart'
  BY <1>1, <1>2, <1>3 DEF Inv, TypeOK, MergeOK, Apart
<1>6. LoopOK' /\ PollerOK' /\ LastOK'
  BY <1>1, <1>3 DEF Inv, LoopOK, PollerOK, LastOK, rows
<1>7. TurnOK'
  BY <1>1, <1>2 DEF Inv, TypeOK, TurnOK, Agree, rows
<1>8. ToldOK' /\ StartOK' /\ LatestOK' /\ NudgesOK'
  BY <1>1, <1>2, <1>3 DEF Inv, TypeOK, ToldOK, StartOK, LatestOK, Agree, NudgesOK, Nudged, rows
<1>9. QED
  BY <1>3, <1>4, <1>5, <1>6, <1>7, <1>8 DEF Inv

LEMMA ResetUpdateKeeps == ASSUME Inv, ResetUpdate PROVE Inv'
<1> DEFINE o == merge.job
<1>1. o \in Made /\ o \in Orders /\ merge.req \in Requests /\ merge.pc = "reset"
  BY DEF Inv, TypeOK, MergeOK, ResetUpdate, Made
<1>2. /\ request' = [request EXCEPT ![o] = merge.req] /\ reset' = reset \cup {o} /\ merge' = Idle
      /\ UNCHANGED <<free, status, stage, nudgedFlag, quiet, last, loop, poller, paid,
                     told, bought, nudges, torn, counts>>
  BY DEF ResetUpdate
<1>3. Made' = Made /\ Absent' = Absent /\ Bounded'
  BY <1>2, SameStatus DEF Inv
<1>4. loop.pc # "idle" => torn
  BY <1>1 DEF Inv, Apart
<1> HIDE DEF o
<1>5. TypeOK'
  BY <1>1, <1>2, EmptyFacts DEF Inv, TypeOK, counts, Idle
<1>6. LoopOK' /\ PollerOK' /\ MergeOK' /\ LastOK' /\ Apart'
  BY <1>2, <1>3 DEF Inv, LoopOK, PollerOK, MergeOK, LastOK, Apart, Idle
<1>7. TurnOK'
  BY <1>2, <1>4 DEF Inv, TypeOK, TurnOK, Idle
<1>8. ToldOK' /\ StartOK'
  BY <1>1, <1>2, <1>3 DEF Inv, TypeOK, ToldOK, StartOK
<1>9. LatestOK'
  BY <1>1, <1>2, <1>4 DEF Inv, TypeOK, LatestOK, Agree
<1>10. NudgesOK'
  BY <1>2 DEF Inv, NudgesOK, Nudged, counts
<1>11. QED
  BY <1>3, <1>5, <1>6, <1>7, <1>8, <1>9, <1>10 DEF Inv

LEMMA RestartKeeps == ASSUME Inv, Restart PROVE Inv'
<1>1. /\ restarts' = restarts + 1
      /\ torn' = (torn \/ loop.pc # "idle" \/ merge.pc # "idle")
      /\ loop' = IdleLoop /\ poller' = Idle /\ merge' = Idle
      /\ UNCHANGED <<free, rows, paid, told, bought, nudges, reset, texts, reruns, merges>>
  BY DEF Restart
<1>2. Made' = Made /\ Absent' = Absent /\ Bounded'
  BY <1>1, SameStatus DEF Inv, rows
<1>3. TypeOK'
  BY <1>1, EmptyFacts DEF Inv, TypeOK, rows, Idle, IdleLoop
<1>4. LoopOK' /\ PollerOK' /\ MergeOK' /\ LastOK' /\ Apart' /\ TurnOK'
  BY <1>1, <1>2 DEF Inv, LoopOK, PollerOK, MergeOK, LastOK, Apart, TurnOK, Agree, Idle, IdleLoop, rows
<1>5. ToldOK' /\ StartOK' /\ LatestOK'
  BY <1>1, <1>2 DEF Inv, TypeOK, ToldOK, StartOK, LatestOK, Agree, Idle, IdleLoop, rows
<1>6. NudgesOK'
  <2>1. \A o \in Orders : nudges[o] \in Nat /\ restarts \in Nat /\ nudges[o] <= restarts + 1
    BY DEF Inv, TypeOK, NudgesOK
  <2>2. QED
    BY <1>1, <2>1 DEF NudgesOK
<1>7. QED
  BY <1>2, <1>3, <1>4, <1>5, <1>6 DEF Inv

LEMMA InvNext == Inv /\ [Next]_vars => Inv'
<1> SUFFICES ASSUME Inv, [Next]_vars PROVE Inv'
  OBVIOUS
<1>1. CASE \E t \in Texts : \E opens \in Opens(t) : Receive(t, opens)
  BY <1>1, ReceiveKeeps
<1>2. CASE LoopNext
  BY <1>2, OpenKeeps, AttachKeeps, PutRowKeeps, SendPaymentKeeps DEF LoopNext
<1>3. CASE PollerNext
  BY <1>3, StartKeeps, NudgeKeeps, MarkNudgedKeeps DEF PollerNext
<1>4. CASE Scan \/ TenMinutes \/ \E o \in Orders : Pay(o) \/ ReadPaid(o)
  BY <1>4, ScanKeeps, TenMinutesKeeps, PayKeeps, ReadPaidKeeps
<1>5. CASE MergeRead \/ MergeNext \/ ResetNext \/ Restart
  BY <1>5, MergeReadKeeps, MergeCancelKeeps, MergeUpdateKeeps, MergeRowKeeps,
     ResetReadKeeps, ResetUpdateKeeps, RestartKeeps DEF MergeNext, ResetNext
<1>6. CASE UNCHANGED vars
  <2>1. Made' = Made /\ Absent' = Absent /\ Bounded'
    BY <1>6, SameStatus DEF Inv, vars, rows
  <2>2. QED
    BY <1>6, <2>1 DEF Inv, TypeOK, LoopOK, PollerOK, MergeOK, LastOK, Apart, TurnOK, Agree, ToldOK, StartOK,
                      LatestOK, NudgesOK, Nudged, vars, rows, history, counts
<1>7. QED
  BY <1>1, <1>2, <1>3, <1>4, <1>5, <1>6 DEF Next

LEMMA InvAlways == Spec => []Inv
BY InvInit, InvNext, PTL DEF Spec
-----------------------------------------------------------------------------
(* The theorems.                                                           *)

\* Every variable has its type, for any number of orders, texts, merges and restarts.
THEOREM IntakeTyped == Spec => []TypeOK
<1>1. Inv => TypeOK
  BY DEF Inv
<1>2. QED
  BY <1>1, InvAlways, PTL

\* What the buyer had been told was in the order when they paid is in the copy the poller
\* starts, unless the operator reset its sources or a merge or a reset overlapped a turn
\* (textflow._open_job, attach_to_job, merge_open_jobs against complete_session).
THEOREM PaidOrdersHoldWhatWasTold == Spec => []BoughtIsJudged
<1>1. Inv => BoughtIsJudged
  BY DEF Inv, StartOK, BoughtIsJudged, Below
<1>2. QED
  BY <1>1, InvAlways, PTL

\* Between turns and merges the newest row of the thread holds what its order's request
\* holds, in the free room what that was read from; it is what a RERUN starts from
\* (textflow.handle_text).  An order whose sources were reset is excepted: its row is not.
THEOREM RerunsStartFromTheLatest == Spec => []RerunSeesLatest
<1>1. Inv => RerunSeesLatest
  BY DEF Inv, LatestOK, Agree, RerunSeesLatest
<1>2. QED
  BY <1>1, InvAlways, PTL

\* An order gets one nudge, and one more for each restart at most: the flag and the scan's
\* copy of it, taken before the texts go out, agree on who is still due
\* (textflow.nudge_idle_threads).
THEOREM NudgesAreSentOnce == Spec => []NudgedOnce
<1>1. Inv => NudgedOnce
  <2>1. SUFFICES ASSUME Inv, NEW o \in Orders PROVE nudges[o] <= 1 + restarts
    BY DEF NudgedOnce
  <2>2. nudges[o] \in Nat /\ restarts \in Nat
    BY <2>1 DEF Inv, TypeOK
  <2>3. nudges[o] <= restarts + (IF Nudged(o) THEN 1 ELSE 0)
    BY <2>1 DEF Inv, NudgesOK
  <2>4. QED
    BY <2>2, <2>3
<1>2. QED
  BY <1>1, InvAlways, PTL
=============================================================================
