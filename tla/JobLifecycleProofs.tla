------------------------ MODULE JobLifecycleProofs ------------------------
(***************************************************************************)
(* Safety of JobLifecycle for any number of reading and recruiting         *)
(* threads, answers, launches and thresholds.  A row is sound when it is   *)
(* justified and its count real.  That the stored row is sound is not      *)
(* inductive: threads put back rows they read long ago, so every copy a    *)
(* thread still carries to a put must be sound too, and a thread on its    *)
(* way to a settlement must carry the reason for it.                       *)
(* What holds of the event loop by itself follows (LoneOK).               *)
(***************************************************************************)
EXTENDS JobLifecycle, TLAPS

Sound(r) == r \in Rows /\ Justified(r) /\ RealCount(r.st)

\* The calls between a read of the job and the put (or the refusal) that ends its use.
Holding == {"settle", "count", "expire", "say", "sayStore", "send", "mark", "recruit", "launchPut"}

\* What thread t carries with it.
HeldOK(t) ==
  /\ pc[t] \in Holding => Sound(snap[t])
  /\ pc[t] \in {"store", "sayStore"} => Sound(inner[t])
  /\ pc[t] \in {"settle", "expire"} => seen[t][1] <= yes /\ seen[t][2] <= no
  /\ pc[t] = "settle" => seen[t][1] + seen[t][2] >= MinN
  /\ pc[t] \in {"count", "expire"} => snap[t].st.launch \in overdue

AllHeld == \A t \in Threads : HeldOK(t)

Inv == TypeOK /\ Sound(row) /\ AllHeld
-----------------------------------------------------------------------------
(* Lemmas about rows.                                                      *)

\* A settlement writes a well-formed state, its humans are the answers counted, and it
\* leaves the launch alone.
LEMMA SettledByState ==
  ASSUME NEW st \in States, NEW y \in Nat, NEW n \in Nat
  PROVE  /\ SettledBy(st, y, n) \in States
         /\ SettledBy(st, y, n).humans = y + n
         /\ SettledBy(st, y, n).side = Majority(y, n)
         /\ SettledBy(st, y, n).launch = st.launch
         /\ SettledBy(st, y, n).side # "undecided" =>
              SettledBy(st, y, n).scored = SettledBy(st, y, n).side
<1> DEFINE c == IF y = n THEN st.scored ELSE Majority(y, n)
<1>1. Majority(y, n) \in Sides /\ (y # n => Majority(y, n) \in Sides \ {"undecided"})
  BY DEF Majority, Sides
<1>2. st.scored \in Sides \ {"undecided"}
  BY DEF States
<1>3. c \in Sides \ {"undecided"}
  BY <1>1, <1>2
<1>a. Majority(y, n) # "undecided" => c = Majority(y, n)
  BY DEF Majority
<1>4. SettledBy(st, y, n) = [st EXCEPT !.humans = y + n, !.side = Majority(y, n), !.scored = c]
  BY DEF SettledBy
<1> DEFINE d == Majority(y, n)
           h == y + n
<1>5. /\ d \in Sides /\ h \in Nat /\ (d # "undecided" => c = d)
      /\ SettledBy(st, y, n) = [st EXCEPT !.humans = h, !.side = d, !.scored = c]
  BY <1>1, <1>a, <1>4
<1> HIDE DEF c, d, h
<1>6. /\ SettledBy(st, y, n) \in States /\ SettledBy(st, y, n).humans = h
      /\ SettledBy(st, y, n).side = d /\ SettledBy(st, y, n).launch = st.launch
      /\ SettledBy(st, y, n).scored = c
  BY <1>3, <1>5 DEF States
<1>7. QED
  BY <1>5, <1>6 DEF d, h

\* A settlement by a count of answers that were given makes a sound row, when the count is
\* large enough or the launch is overdue.
LEMMA SettledIsSound ==
  ASSUME TypeOK, NEW st \in States, NEW y \in Nat, NEW n \in Nat, y <= yes, n <= no,
         y + n >= MinN \/ (st.launch \in overdue /\ y + n > 0)
  PROVE  Sound([status |-> "settled", st |-> SettledBy(st, y, n)])
<1> DEFINE s == SettledBy(st, y, n)
           r == [status |-> "settled", st |-> s]
<1>1. /\ s \in States /\ s.humans = y + n /\ s.side = Majority(y, n) /\ s.launch = st.launch
      /\ s.side # "undecided" => s.scored = s.side
  BY SettledByState
<1>2. r \in Rows /\ r.status = "settled" /\ r.st = s
  BY <1>1 DEF Rows
<1>3. Justified(r)
  BY <1>1, <1>2 DEF Justified
<1>4. RealCount(s)
  <2>1. y \in 0..yes /\ n \in 0..no
    BY DEF TypeOK
  <2>2. QED
    BY <1>1, <2>1 DEF RealCount
<1>5. QED
  BY <1>2, <1>3, <1>4 DEF Sound

\* Answers are never taken back and a launch stays overdue, so a sound row stays sound.
LEMMA SoundStays ==
  ASSUME TypeOK, NEW r, Sound(r), yes' \in Nat, no' \in Nat, yes <= yes', no <= no',
         overdue \subseteq overdue'
  PROVE  Sound(r)'
<1>1. r \in Rows /\ Justified(r)'
  BY DEF Sound, Justified
<1>2. RealCount(r.st)'
  BY DEF Sound, RealCount, TypeOK
<1>3. QED
  BY <1>1, <1>2 DEF Sound

\* Changing fields that neither condition speaks of keeps a row sound.
LEMMA SoundCopy ==
  ASSUME NEW r, Sound(r), NEW q \in Rows, q.status = r.status, q.st.launch = r.st.launch,
         q.st.humans = r.st.humans, q.st.side = r.st.side, q.st.scored = r.st.scored,
         q.st.timedOut = r.st.timedOut
  PROVE  Sound(q)
BY DEF Sound, Justified, RealCount

\* A row that awaits humans needs no justification.
LEMMA SoundAwaiting ==
  ASSUME NEW r, Sound(r), NEW q \in Rows, q.status = "awaiting_humans",
         q.st.humans = r.st.humans, q.st.side = r.st.side, q.st.scored = r.st.scored
  PROVE  Sound(q)
BY DEF Sound, Justified, RealCount
-----------------------------------------------------------------------------
(* The initial states and the steps.                                       *)

LEMMA InvInit == Init => Inv
<1> SUFFICES ASSUME Init PROVE Inv
  OBVIOUS
<1>1. row \in Rows /\ row.st.humans = 0 /\ (row.status = "settled" => row.st.launch = 0)
  <2>1. ASSUME NEW p \in {"none", "local", "paid"}, NEW l \in Nat
        PROVE  /\ FreshState(p, l) \in States /\ FreshState(p, l).humans = 0
               /\ FreshState(p, l).launch = l
    BY DEF FreshState, States, Sides
  <2>2. CASE row \in {[status |-> "awaiting_humans", st |-> FreshState(p, 1)] : p \in {"local", "paid"}}
    BY <2>1, <2>2 DEF Rows
  <2>3. CASE row = [status |-> "settled",
                    st |-> [FreshState("none", 0) EXCEPT !.notified = HasPhone]]
    <3> DEFINE s == FreshState("none", 0)
    <3>1. s \in States /\ s.humans = 0 /\ s.launch = 0
      BY <2>1
    <3> HIDE DEF s
    <3>2. LET q == [s EXCEPT !.notified = HasPhone]
          IN  q \in States /\ q.humans = 0 /\ q.launch = 0
      BY <3>1, FlagAssumption DEF States
    <3>3. row.st = [s EXCEPT !.notified = HasPhone] /\ row.status = "settled"
          /\ row = [status |-> row.status, st |-> row.st]
      BY <2>3 DEF s
    <3>4. QED
      BY <3>2, <3>3 DEF Rows
  <2>4. QED
    BY <2>2, <2>3 DEF Init
<1>2. TypeOK
  <2>1. pc \in [Threads -> PCs] /\ back \in [Threads -> {"idle", "check", "view", "again"}]
    BY DEF Init, PCs
  <2>2. launches \in Nat /\ texts \in Nat /\ overdue \subseteq 1..launches
    BY DEF Init
  <2>3. seen \in [Threads -> Nat \X Nat]
    BY DEF Init
  <2>4. snap \in [Threads -> Rows \cup {NoSnap}] /\ inner \in [Threads -> Rows \cup {NoSnap}]
    BY DEF Init
  <2>5. QED
    BY <1>1, <2>1, <2>2, <2>3, <2>4, CountAssumption DEF Init, TypeOK
<1>3. Sound(row)
  BY <1>1, CountAssumption DEF Sound, Justified, RealCount
<1>4. AllHeld
  BY DEF Init, AllHeld, HeldOK, Holding
<1>5. QED
  BY <1>2, <1>3, <1>4 DEF Inv

\* The steps of the threads, one by one.
LEMMA StepCases ==
  ASSUME [Next]_vars
  PROVE  \/ \E y, n \in 0..1 : Submit(y, n)
         \/ OnHumanAnswer \/ Settle
         \/ \E t \in Readers : Read(t)
         \/ \E t \in Threads :
              \/ CheckTimeout(t) \/ CountAnswers(t) \/ Expire(t) \/ View(t) \/ StoreRefresh(t)
              \/ NotifyRead(t) \/ Say(t) \/ Send(t) \/ Mark(t) \/ Recruit(t) \/ LaunchPut(t)
         \/ \E t \in Operators : LaunchRead(t)
         \/ \E k \in PatchKeys : Patch(k)
         \/ \E l \in 1..(MaxLaunches + 1) : Tick(l)
         \/ UNCHANGED vars
BY DEF Next, Continue

\* Answers are only ever added, and launches only become overdue.
Growing == yes' \in Nat /\ no' \in Nat /\ yes <= yes' /\ no <= no' /\ overdue \subseteq overdue'

\* No step takes an answer back or makes a launch less overdue.
LEMMA CountsGrow == Inv /\ [Next]_vars => Growing
<1> SUFFICES ASSUME Inv, [Next]_vars PROVE Growing
  OBVIOUS
<1> USE DEF Growing, Inv, TypeOK, inputVars, threadVars
<1>1. ASSUME NEW y \in 0..1, NEW n \in 0..1, Submit(y, n) PROVE Growing
  BY <1>1 DEF Submit, Goto
<1>2. ASSUME OnHumanAnswer PROVE Growing
  BY <1>2 DEF OnHumanAnswer, Hold, Goto
<1>3. ASSUME Settle PROVE Growing
  BY <1>3 DEF Settle, Drop, Goto, PutJob
<1>4. ASSUME NEW t \in Readers, Read(t) PROVE Growing
  BY <1>4 DEF Read, Goto
<1>5. ASSUME NEW t \in Threads, CheckTimeout(t) PROVE Growing
  BY <1>5 DEF CheckTimeout, TimedOut, Hold, Goto
<1>6. ASSUME NEW t \in Threads, CountAnswers(t) PROVE Growing
  BY <1>6 DEF CountAnswers, Goto
<1>7. ASSUME NEW t \in Threads, Expire(t) PROVE Growing
  BY <1>7 DEF Expire, Drop, Goto, PutJob
<1>8. ASSUME NEW t \in Threads, View(t) PROVE Growing
  BY <1>8 DEF View, Goto
<1>9. ASSUME NEW t \in Threads, StoreRefresh(t) PROVE Growing
  BY <1>9 DEF StoreRefresh, Goto, PutJob
<1>10. ASSUME NEW t \in Threads, NotifyRead(t) PROVE Growing
  BY <1>10 DEF NotifyRead, Return, Hold, Goto
<1>11. ASSUME NEW t \in Threads, Say(t) PROVE Growing
  BY <1>11 DEF Say, Goto
<1>12. ASSUME NEW t \in Threads, Send(t) PROVE Growing
  BY <1>12 DEF Send, Goto
<1>13. ASSUME NEW t \in Threads, Mark(t) PROVE Growing
  BY <1>13 DEF Mark, Return, Drop, Goto, PutJob
<1>14. ASSUME NEW t \in Operators, LaunchRead(t) PROVE Growing
  BY <1>14 DEF LaunchRead, Hold, Goto
<1>15. ASSUME NEW t \in Threads, Recruit(t) PROVE Growing
  BY <1>15 DEF Recruit, Drop, Goto
<1>16. ASSUME NEW t \in Threads, LaunchPut(t) PROVE Growing
  BY <1>16 DEF LaunchPut, Drop, Goto, PutJob
<1>17. ASSUME NEW k \in PatchKeys, Patch(k) PROVE Growing
  BY <1>17 DEF Patch
<1>18. ASSUME NEW l \in 1..(MaxLaunches + 1), Tick(l) PROVE Growing
  BY <1>18 DEF Tick
<1>19. CASE UNCHANGED vars
  BY <1>19 DEF vars
<1> HIDE DEF Growing, Inv, TypeOK, inputVars, threadVars
<1>20. QED
  BY <1>1, <1>2, <1>3, <1>4, <1>5, <1>6, <1>7, <1>8, <1>9, <1>10, <1>11, <1>12, <1>13, <1>14,
     <1>15, <1>16, <1>17, <1>18, <1>19, StepCases

\* A sound row that nobody writes stays sound.
LEMMA RowKept == ASSUME TypeOK, Sound(row), Growing, row' = row PROVE Sound(row)'
<1>1. row' \in Rows /\ Justified(row)'
  BY DEF Sound, Justified, Growing
<1>2. RealCount(row.st)'
  <2>1. \A y \in 0..yes : y \in 0..yes'
    BY DEF TypeOK, Growing
  <2>2. \A n \in 0..no : n \in 0..no'
    BY DEF TypeOK, Growing
  <2>3. QED
    BY <2>1, <2>2 DEF Sound, RealCount
<1>3. QED
  BY <1>1, <1>2 DEF Sound

\* A sound row that is put makes the stored row sound.
LEMMA RowPut ==
  ASSUME Sound(row'), yes' = yes, no' = no, overdue' = overdue
  PROVE  Sound(row)'
BY DEF Sound, Justified, RealCount

\* Every put writes a sound row.
LEMMA RowStep == Inv /\ [Next]_vars => Sound(row)'
<1> SUFFICES ASSUME Inv, [Next]_vars PROVE Sound(row)'
  OBVIOUS
<1>0. Growing
  BY CountsGrow
<1>1. ASSUME NEW y \in 0..1, NEW n \in 0..1, Submit(y, n) PROVE Sound(row)'
  BY <1>1, <1>0, RowKept DEF Submit, Inv, threadVars
<1>2. ASSUME OnHumanAnswer PROVE Sound(row)'
  BY <1>2, <1>0, RowKept DEF OnHumanAnswer, Inv, threadVars
<1>3. ASSUME Settle PROVE Sound(row)'
  <2>0. yes' = yes /\ no' = no /\ overdue' = overdue
    BY <1>3 DEF Settle, inputVars
  <2>1. Loop \in Threads /\ snap[Loop] \in Rows /\ snap[Loop].st \in States
    BY <1>3 DEF Settle, Inv, AllHeld, HeldOK, Holding, Sound, Rows, Threads
  <2>2. /\ seen[Loop][1] \in Nat /\ seen[Loop][2] \in Nat
        /\ seen[Loop][1] <= yes /\ seen[Loop][2] <= no
        /\ seen[Loop][1] + seen[Loop][2] >= MinN
    BY <1>3, <2>1 DEF Settle, Inv, AllHeld, HeldOK, TypeOK
  <2>3. Sound([status |-> "settled",
               st |-> SettledBy(snap[Loop].st, seen[Loop][1], seen[Loop][2])])
    BY <2>1, <2>2, SettledIsSound DEF Inv
  <2>4. row' = [status |-> "settled",
                st |-> SettledBy(snap[Loop].st, seen[Loop][1], seen[Loop][2])]
    BY <1>3 DEF Settle, PutJob
  <2>5. QED
    BY <2>3, <2>4, <2>0, RowPut
<1>4. ASSUME NEW t \in Readers, Read(t) PROVE Sound(row)'
  BY <1>4, <1>0, RowKept DEF Read, Inv, threadVars
<1>5. ASSUME NEW t \in Threads, CheckTimeout(t) PROVE Sound(row)'
  BY <1>5, <1>0, RowKept DEF CheckTimeout, Inv, threadVars
<1>6. ASSUME NEW t \in Threads, CountAnswers(t) PROVE Sound(row)'
  BY <1>6, <1>0, RowKept DEF CountAnswers, Inv, threadVars
<1>7. ASSUME NEW t \in Threads, Expire(t) PROVE Sound(row)'
  <2>0. yes' = yes /\ no' = no /\ overdue' = overdue
    BY <1>7 DEF Expire, inputVars
  <2> DEFINE y == seen[t][1]
             n == seen[t][2]
             st == snap[t].st
  <2>1. snap[t] \in Rows /\ st \in States /\ Sound(snap[t]) /\ st.launch \in overdue
    BY <1>7 DEF Expire, Inv, AllHeld, HeldOK, Holding, Sound, Rows
  <2>2. y \in Nat /\ n \in Nat /\ y <= yes /\ n <= no
    BY <1>7 DEF Expire, Inv, AllHeld, HeldOK, TypeOK
  <2>3. CASE y + n > 0
    <3>1. Sound([status |-> "settled", st |-> SettledBy(st, y, n)])
      BY <2>1, <2>2, <2>3, SettledIsSound DEF Inv
    <3>2. row' = [status |-> "settled", st |-> SettledBy(st, y, n)]
      BY <1>7, <2>3 DEF Expire, PutJob
    <3>3. QED
      BY <3>1, <3>2, <2>0, RowPut
  <2>4. CASE ~(y + n > 0)
    <3>1. row' = [status |-> "settled", st |-> [st EXCEPT !.timedOut = TRUE]]
      BY <1>7, <2>4 DEF Expire, PutJob
    <3> HIDE DEF st
    <3>2. row' \in Rows /\ row'.status = "settled" /\ row'.st = [st EXCEPT !.timedOut = TRUE]
      BY <2>1, <3>1 DEF Rows, States
    <3>3. /\ row'.st.launch = st.launch /\ row'.st.humans = st.humans /\ row'.st.side = st.side
          /\ row'.st.scored = st.scored /\ row'.st.timedOut = TRUE
      BY <2>1, <3>2 DEF States
    <3>4. Justified(row')
      BY <2>1, <3>3 DEF Justified
    <3>5. RealCount(row'.st)
      BY <2>1, <3>3 DEF Sound, RealCount, st
    <3>6. QED
      BY <3>2, <3>4, <3>5, <2>0, RowPut DEF Sound
  <2>5. QED
    BY <2>3, <2>4
<1>8. ASSUME NEW t \in Threads, View(t) PROVE Sound(row)'
  BY <1>8, <1>0, RowKept DEF View, Inv, threadVars
<1>9. ASSUME NEW t \in Threads, StoreRefresh(t) PROVE Sound(row)'
  <2>0. yes' = yes /\ no' = no /\ overdue' = overdue
    BY <1>9 DEF StoreRefresh, inputVars
  <2>1. Sound(inner[t]) /\ row' = [status |-> inner[t].status, st |-> inner[t].st]
    BY <1>9 DEF StoreRefresh, PutJob, Inv, AllHeld, HeldOK
  <2>2. row' = inner[t]
    BY <2>1 DEF Sound, Rows
  <2>3. QED
    BY <2>1, <2>2, <2>0, RowPut
<1>10. ASSUME NEW t \in Threads, NotifyRead(t) PROVE Sound(row)'
  BY <1>10, <1>0, RowKept DEF NotifyRead, Inv, threadVars
<1>11. ASSUME NEW t \in Threads, Say(t) PROVE Sound(row)'
  BY <1>11, <1>0, RowKept DEF Say, Inv, threadVars
<1>12. ASSUME NEW t \in Threads, Send(t) PROVE Sound(row)'
  BY <1>12, <1>0, RowKept DEF Send, Inv, threadVars
<1>13. ASSUME NEW t \in Threads, Mark(t) PROVE Sound(row)'
  <2>0. yes' = yes /\ no' = no /\ overdue' = overdue
    BY <1>13 DEF Mark, inputVars
  <2> DEFINE st == snap[t].st
  <2>1. Sound(snap[t]) /\ snap[t] \in Rows /\ st \in States
    BY <1>13 DEF Mark, Inv, AllHeld, HeldOK, Holding, Sound, Rows
  <2>2. row' = [status |-> snap[t].status, st |-> [st EXCEPT !.notified = TRUE]]
    BY <1>13 DEF Mark, PutJob
  <2> HIDE DEF st
  <2>3. /\ [st EXCEPT !.notified = TRUE] \in States
        /\ [st EXCEPT !.notified = TRUE].launch = st.launch
        /\ [st EXCEPT !.notified = TRUE].humans = st.humans
        /\ [st EXCEPT !.notified = TRUE].side = st.side
        /\ [st EXCEPT !.notified = TRUE].scored = st.scored
        /\ [st EXCEPT !.notified = TRUE].timedOut = st.timedOut
    BY <2>1 DEF States
  <2>4. row' \in Rows /\ row'.status = snap[t].status /\ row'.st = [st EXCEPT !.notified = TRUE]
    BY <2>1, <2>2, <2>3 DEF Rows
  <2>5. Sound(row')
    BY <2>1, <2>3, <2>4, SoundCopy DEF st
  <2>6. QED
    BY <2>5, <2>0, RowPut
<1>14. ASSUME NEW t \in Operators, LaunchRead(t) PROVE Sound(row)'
  BY <1>14, <1>0, RowKept DEF LaunchRead, Inv, threadVars
<1>15. ASSUME NEW t \in Threads, Recruit(t) PROVE Sound(row)'
  BY <1>15, <1>0, RowKept DEF Recruit, Inv, threadVars
<1>16. ASSUME NEW t \in Threads, LaunchPut(t) PROVE Sound(row)'
  <2>0. yes' = yes /\ no' = no /\ overdue' = overdue
    BY <1>16 DEF LaunchPut, inputVars
  <2> DEFINE st == snap[t].st
             s == [st EXCEPT !.panel = "paid", !.launch = launches + 1]
  <2>1. Sound(snap[t]) /\ st \in States /\ launches + 1 \in Nat
    BY <1>16 DEF LaunchPut, Inv, AllHeld, HeldOK, Holding, Sound, Rows, TypeOK
  <2>2. row' = [status |-> "awaiting_humans", st |-> s]
    BY <1>16 DEF LaunchPut, PutJob
  <2> HIDE DEF st
  <2>3. s \in States /\ s.humans = st.humans /\ s.side = st.side /\ s.scored = st.scored
    BY <2>1 DEF States
  <2>4. row' \in Rows /\ row'.status = "awaiting_humans" /\ row'.st = s
    BY <2>2, <2>3 DEF Rows
  <2>5. Sound(row')
    BY <2>1, <2>3, <2>4, SoundAwaiting DEF st
  <2>6. QED
    BY <2>5, <2>0, RowPut
<1>17. ASSUME NEW k \in PatchKeys, Patch(k) PROVE Sound(row)'
  <2>0. yes' = yes /\ no' = no /\ overdue' = overdue
    BY <1>17 DEF Patch, inputVars
  <2> DEFINE st == row.st
             s == [st EXCEPT !.keys = @ \cup {k}]
  <2>1. Sound(row) /\ row \in Rows /\ st \in States
    BY DEF Inv, Sound, Rows
  <2>2. row' = [row EXCEPT !.st = s]
    BY <1>17 DEF Patch
  <2> HIDE DEF st
  <2>3. /\ s \in States /\ s.launch = st.launch /\ s.humans = st.humans /\ s.side = st.side
        /\ s.scored = st.scored /\ s.timedOut = st.timedOut
    BY <2>1 DEF States
  <2>4. row' \in Rows /\ row'.status = row.status /\ row'.st = s
    BY <2>1, <2>2, <2>3 DEF Rows
  <2>5. Sound(row')
    BY <2>1, <2>3, <2>4, SoundCopy DEF st
  <2>6. QED
    BY <2>5, <2>0, RowPut
<1>18. ASSUME NEW l \in 1..(MaxLaunches + 1), Tick(l) PROVE Sound(row)'
  BY <1>18, <1>0, RowKept DEF Tick, Inv, threadVars
<1>19. CASE UNCHANGED vars
  BY <1>19, <1>0, RowKept DEF vars, Inv
<1>20. QED
  BY <1>1, <1>2, <1>3, <1>4, <1>5, <1>6, <1>7, <1>8, <1>9, <1>10, <1>11, <1>12, <1>13, <1>14,
     <1>15, <1>16, <1>17, <1>18, <1>19, StepCases

\* What a thread carries stays good while others move.
LEMMA HeldKept ==
  ASSUME Inv, Growing, NEW t \in Threads, HeldOK(t), pc'[t] = pc[t], snap'[t] = snap[t],
         inner'[t] = inner[t], seen'[t] = seen[t]
  PROVE  HeldOK(t)'
<1>1. \A r : Sound(r) =>
        /\ r \in Rows
        /\ r.status = "settled" =>
             r.st.launch = 0 \/ r.st.humans >= MinN \/ r.st.launch \in overdue'
  BY DEF Sound, Justified, Growing
<1>2. \A r : Sound(r) /\ r.st.humans > 0 =>
        \E y \in 0..yes', n \in 0..no' : y + n = r.st.humans /\ r.st.side = Majority(y, n)
  <2>1. (\A y \in 0..yes : y \in 0..yes') /\ (\A n \in 0..no : n \in 0..no')
    BY DEF Inv, TypeOK, Growing
  <2>2. QED
    BY <2>1 DEF Sound, RealCount
<1>3. Sound(snap[t]) => Sound(snap[t])'
  BY <1>1, <1>2 DEF Sound, Justified, RealCount
<1>4. Sound(inner[t]) => Sound(inner[t])'
  BY <1>1, <1>2 DEF Sound, Justified, RealCount
<1>5. seen[t][1] \in Nat /\ seen[t][2] \in Nat /\ yes \in Nat /\ no \in Nat
  BY DEF Inv, TypeOK
<1>6. QED
  BY <1>3, <1>4, <1>5 DEF HeldOK, Growing

\* A row that was sound when it was read is sound in the hands of the reader.
LEMMA HeldNow ==
  ASSUME yes' = yes, no' = no, overdue' = overdue, NEW t \in Threads
  PROVE  /\ Sound(row) /\ snap'[t] = row => Sound(snap[t])'
         /\ Sound(row) /\ inner'[t] = row => Sound(inner[t])'
         /\ Sound(snap[t]) /\ snap'[t] = snap[t] => Sound(snap[t])'
BY DEF Sound, Justified, RealCount

\* What threads carry to their puts stays sound, and so does the reason for a settlement.
LEMMA HeldStep == Inv /\ [Next]_vars => AllHeld'
<1> SUFFICES ASSUME Inv, [Next]_vars PROVE AllHeld'
  OBVIOUS
<1>0. Growing
  BY CountsGrow
<1>1. ASSUME NEW y \in 0..1, NEW n \in 0..1, Submit(y, n) PROVE AllHeld'
  <2>1. Loop \in Threads /\ pc \in [Threads -> PCs]
    BY DEF Threads, Inv, TypeOK
  <2>2. \A u \in Threads \ {Loop} : HeldOK(u)'
    BY <1>1, <1>0, <2>1, HeldKept DEF Submit, Goto, Inv, AllHeld
  <2>3. HeldOK(Loop)'
    BY <1>1, <2>1 DEF Submit, Goto, HeldOK, Holding
  <2>4. QED
    BY <2>2, <2>3 DEF AllHeld
<1>2. ASSUME OnHumanAnswer PROVE AllHeld'
  <2>1. Loop \in Threads /\ pc \in [Threads -> PCs] /\ snap \in [Threads -> Rows \cup {NoSnap}]
        /\ inner \in [Threads -> Rows \cup {NoSnap}] /\ seen \in [Threads -> Nat \X Nat]
        /\ back \in [Threads -> {"idle", "check", "view", "again"}]
    BY DEF Threads, Inv, TypeOK
  <2>2. yes' = yes /\ no' = no /\ overdue' = overdue /\ yes \in Nat /\ no \in Nat
    BY <1>2 DEF OnHumanAnswer, inputVars, Inv, TypeOK
  <2>3. \A u \in Threads \ {Loop} :
          pc'[u] = pc[u] /\ snap'[u] = snap[u] /\ inner'[u] = inner[u] /\ seen'[u] = seen[u]
    BY <1>2, <2>1 DEF OnHumanAnswer, Hold, Goto
  <2>4. \A u \in Threads \ {Loop} : HeldOK(u)'
    BY <1>0, <2>3, HeldKept DEF Inv, AllHeld
  <2>5. HeldOK(Loop)'
    BY <1>2, <2>1, <2>2, HeldNow DEF OnHumanAnswer, Hold, Goto, Inv, AllHeld, HeldOK, Holding
  <2>6. QED
    BY <2>4, <2>5 DEF AllHeld
<1>3. ASSUME Settle PROVE AllHeld'
  <2>1. Loop \in Threads /\ pc \in [Threads -> PCs] /\ snap \in [Threads -> Rows \cup {NoSnap}]
        /\ inner \in [Threads -> Rows \cup {NoSnap}] /\ seen \in [Threads -> Nat \X Nat]
        /\ back \in [Threads -> {"idle", "check", "view", "again"}]
    BY DEF Threads, Inv, TypeOK
  <2>2. yes' = yes /\ no' = no /\ overdue' = overdue /\ yes \in Nat /\ no \in Nat
    BY <1>3 DEF Settle, inputVars, Inv, TypeOK
  <2>3. \A u \in Threads \ {Loop} :
          pc'[u] = pc[u] /\ snap'[u] = snap[u] /\ inner'[u] = inner[u] /\ seen'[u] = seen[u]
    BY <1>3, <2>1 DEF Settle, Drop, Goto, PutJob
  <2>4. \A u \in Threads \ {Loop} : HeldOK(u)'
    BY <1>0, <2>3, HeldKept DEF Inv, AllHeld
  <2>5. HeldOK(Loop)'
    BY <1>3, <2>1, <2>2, HeldNow DEF Settle, Drop, Goto, PutJob, Inv, AllHeld, HeldOK, Holding
  <2>6. QED
    BY <2>4, <2>5 DEF AllHeld
<1>4. ASSUME NEW t \in Readers, Read(t) PROVE AllHeld'
  <2>1. t \in Threads /\ pc \in [Threads -> PCs] /\ snap \in [Threads -> Rows \cup {NoSnap}]
        /\ inner \in [Threads -> Rows \cup {NoSnap}] /\ seen \in [Threads -> Nat \X Nat]
        /\ back \in [Threads -> {"idle", "check", "view", "again"}]
    BY DEF Threads, Inv, TypeOK
  <2>2. yes' = yes /\ no' = no /\ overdue' = overdue /\ yes \in Nat /\ no \in Nat
    BY <1>4 DEF Read, inputVars, Inv, TypeOK
  <2>3. \A u \in Threads \ {t} :
          pc'[u] = pc[u] /\ snap'[u] = snap[u] /\ inner'[u] = inner[u] /\ seen'[u] = seen[u]
    BY <1>4, <2>1 DEF Read, Goto
  <2>4. \A u \in Threads \ {t} : HeldOK(u)'
    BY <1>0, <2>3, HeldKept DEF Inv, AllHeld
  <2>5. HeldOK(t)'
    BY <1>4, <2>1, <2>2, HeldNow DEF Read, Goto, Inv, AllHeld, HeldOK, Holding
  <2>6. QED
    BY <2>4, <2>5 DEF AllHeld
<1>5. ASSUME NEW t \in Threads, CheckTimeout(t) PROVE AllHeld'
  <2>1. t \in Threads /\ pc \in [Threads -> PCs] /\ snap \in [Threads -> Rows \cup {NoSnap}]
        /\ inner \in [Threads -> Rows \cup {NoSnap}] /\ seen \in [Threads -> Nat \X Nat]
        /\ back \in [Threads -> {"idle", "check", "view", "again"}]
    BY DEF Threads, Inv, TypeOK
  <2>2. yes' = yes /\ no' = no /\ overdue' = overdue /\ yes \in Nat /\ no \in Nat
    BY <1>5 DEF CheckTimeout, inputVars, Inv, TypeOK
  <2>3. \A u \in Threads \ {t} :
          pc'[u] = pc[u] /\ snap'[u] = snap[u] /\ inner'[u] = inner[u] /\ seen'[u] = seen[u]
    BY <1>5, <2>1 DEF CheckTimeout, TimedOut, Hold, Goto
  <2>4. \A u \in Threads \ {t} : HeldOK(u)'
    BY <1>0, <2>3, HeldKept DEF Inv, AllHeld
  <2>5. HeldOK(t)'
    BY <1>5, <2>1, <2>2, HeldNow DEF CheckTimeout, TimedOut, Hold, Goto, Inv, AllHeld, HeldOK,
       Holding
  <2>6. QED
    BY <2>4, <2>5 DEF AllHeld
<1>6. ASSUME NEW t \in Threads, CountAnswers(t) PROVE AllHeld'
  <2>1. t \in Threads /\ pc \in [Threads -> PCs] /\ snap \in [Threads -> Rows \cup {NoSnap}]
        /\ inner \in [Threads -> Rows \cup {NoSnap}] /\ seen \in [Threads -> Nat \X Nat]
        /\ back \in [Threads -> {"idle", "check", "view", "again"}]
    BY DEF Threads, Inv, TypeOK
  <2>2. yes' = yes /\ no' = no /\ overdue' = overdue /\ yes \in Nat /\ no \in Nat
    BY <1>6 DEF CountAnswers, inputVars, Inv, TypeOK
  <2>3. \A u \in Threads \ {t} :
          pc'[u] = pc[u] /\ snap'[u] = snap[u] /\ inner'[u] = inner[u] /\ seen'[u] = seen[u]
    BY <1>6, <2>1 DEF CountAnswers, Goto
  <2>4. \A u \in Threads \ {t} : HeldOK(u)'
    BY <1>0, <2>3, HeldKept DEF Inv, AllHeld
  <2>5. HeldOK(t)'
    BY <1>6, <2>1, <2>2, HeldNow DEF CountAnswers, Goto, Inv, AllHeld, HeldOK, Holding
  <2>6. QED
    BY <2>4, <2>5 DEF AllHeld
<1>7. ASSUME NEW t \in Threads, Expire(t) PROVE AllHeld'
  <2>1. t \in Threads /\ pc \in [Threads -> PCs] /\ snap \in [Threads -> Rows \cup {NoSnap}]
        /\ inner \in [Threads -> Rows \cup {NoSnap}] /\ seen \in [Threads -> Nat \X Nat]
        /\ back \in [Threads -> {"idle", "check", "view", "again"}]
    BY DEF Threads, Inv, TypeOK
  <2>2. yes' = yes /\ no' = no /\ overdue' = overdue /\ yes \in Nat /\ no \in Nat
    BY <1>7 DEF Expire, inputVars, Inv, TypeOK
  <2>3. \A u \in Threads \ {t} :
          pc'[u] = pc[u] /\ snap'[u] = snap[u] /\ inner'[u] = inner[u] /\ seen'[u] = seen[u]
    BY <1>7, <2>1 DEF Expire, Drop, Goto, PutJob
  <2>4. \A u \in Threads \ {t} : HeldOK(u)'
    BY <1>0, <2>3, HeldKept DEF Inv, AllHeld
  <2>5. HeldOK(t)'
    BY <1>7, <2>1, <2>2, HeldNow DEF Expire, Drop, Goto, PutJob, Inv, AllHeld, HeldOK, Holding
  <2>6. QED
    BY <2>4, <2>5 DEF AllHeld
<1>8. ASSUME NEW t \in Threads, View(t) PROVE AllHeld'
  <2>1. t \in Threads /\ pc \in [Threads -> PCs] /\ snap \in [Threads -> Rows \cup {NoSnap}]
        /\ inner \in [Threads -> Rows \cup {NoSnap}] /\ seen \in [Threads -> Nat \X Nat]
        /\ back \in [Threads -> {"idle", "check", "view", "again"}]
    BY DEF Threads, Inv, TypeOK
  <2>2. yes' = yes /\ no' = no /\ overdue' = overdue /\ yes \in Nat /\ no \in Nat
    BY <1>8 DEF View, inputVars, Inv, TypeOK
  <2>3. \A u \in Threads \ {t} :
          pc'[u] = pc[u] /\ snap'[u] = snap[u] /\ inner'[u] = inner[u] /\ seen'[u] = seen[u]
    BY <1>8, <2>1 DEF View, Goto
  <2>4. \A u \in Threads \ {t} : HeldOK(u)'
    BY <1>0, <2>3, HeldKept DEF Inv, AllHeld
  <2>5. HeldOK(t)'
    BY <1>8, <2>1, <2>2, HeldNow DEF View, Goto, Inv, AllHeld, HeldOK, Holding
  <2>6. QED
    BY <2>4, <2>5 DEF AllHeld
<1>9. ASSUME NEW t \in Threads, StoreRefresh(t) PROVE AllHeld'
  <2>1. t \in Threads /\ pc \in [Threads -> PCs] /\ snap \in [Threads -> Rows \cup {NoSnap}]
        /\ inner \in [Threads -> Rows \cup {NoSnap}] /\ seen \in [Threads -> Nat \X Nat]
        /\ back \in [Threads -> {"idle", "check", "view", "again"}]
    BY DEF Threads, Inv, TypeOK
  <2>2. yes' = yes /\ no' = no /\ overdue' = overdue /\ yes \in Nat /\ no \in Nat
    BY <1>9 DEF StoreRefresh, inputVars, Inv, TypeOK
  <2>3. \A u \in Threads \ {t} :
          pc'[u] = pc[u] /\ snap'[u] = snap[u] /\ inner'[u] = inner[u] /\ seen'[u] = seen[u]
    BY <1>9, <2>1 DEF StoreRefresh, Goto, PutJob
  <2>4. \A u \in Threads \ {t} : HeldOK(u)'
    BY <1>0, <2>3, HeldKept DEF Inv, AllHeld
  <2>5. HeldOK(t)'
    BY <1>9, <2>1, <2>2, HeldNow DEF StoreRefresh, Goto, PutJob, Inv, AllHeld, HeldOK, Holding
  <2>6. QED
    BY <2>4, <2>5 DEF AllHeld
<1>10. ASSUME NEW t \in Threads, NotifyRead(t) PROVE AllHeld'
  <2>1. t \in Threads /\ pc \in [Threads -> PCs] /\ snap \in [Threads -> Rows \cup {NoSnap}]
        /\ inner \in [Threads -> Rows \cup {NoSnap}] /\ seen \in [Threads -> Nat \X Nat]
        /\ back \in [Threads -> {"idle", "check", "view", "again"}]
    BY DEF Threads, Inv, TypeOK
  <2>2. yes' = yes /\ no' = no /\ overdue' = overdue /\ yes \in Nat /\ no \in Nat
    BY <1>10 DEF NotifyRead, inputVars, Inv, TypeOK
  <2>3. \A u \in Threads \ {t} :
          pc'[u] = pc[u] /\ snap'[u] = snap[u] /\ inner'[u] = inner[u] /\ seen'[u] = seen[u]
    BY <1>10, <2>1 DEF NotifyRead, Return, Hold, Goto
  <2>4. \A u \in Threads \ {t} : HeldOK(u)'
    BY <1>0, <2>3, HeldKept DEF Inv, AllHeld
  <2>5. HeldOK(t)'
    BY <1>10, <2>1, <2>2, HeldNow DEF NotifyRead, Return, Hold, Goto, Inv, AllHeld, HeldOK, Holding
  <2>6. QED
    BY <2>4, <2>5 DEF AllHeld
<1>11. ASSUME NEW t \in Threads, Say(t) PROVE AllHeld'
  <2>1. t \in Threads /\ pc \in [Threads -> PCs] /\ snap \in [Threads -> Rows \cup {NoSnap}]
        /\ inner \in [Threads -> Rows \cup {NoSnap}] /\ seen \in [Threads -> Nat \X Nat]
        /\ back \in [Threads -> {"idle", "check", "view", "again"}]
    BY DEF Threads, Inv, TypeOK
  <2>2. yes' = yes /\ no' = no /\ overdue' = overdue /\ yes \in Nat /\ no \in Nat
    BY <1>11 DEF Say, inputVars, Inv, TypeOK
  <2>3. \A u \in Threads \ {t} :
          pc'[u] = pc[u] /\ snap'[u] = snap[u] /\ inner'[u] = inner[u] /\ seen'[u] = seen[u]
    BY <1>11, <2>1 DEF Say, Goto
  <2>4. \A u \in Threads \ {t} : HeldOK(u)'
    BY <1>0, <2>3, HeldKept DEF Inv, AllHeld
  <2>5. HeldOK(t)'
    BY <1>11, <2>1, <2>2, HeldNow DEF Say, Goto, Inv, AllHeld, HeldOK, Holding
  <2>6. QED
    BY <2>4, <2>5 DEF AllHeld
<1>12. ASSUME NEW t \in Threads, Send(t) PROVE AllHeld'
  <2>1. t \in Threads /\ pc \in [Threads -> PCs] /\ snap \in [Threads -> Rows \cup {NoSnap}]
        /\ inner \in [Threads -> Rows \cup {NoSnap}] /\ seen \in [Threads -> Nat \X Nat]
        /\ back \in [Threads -> {"idle", "check", "view", "again"}]
    BY DEF Threads, Inv, TypeOK
  <2>2. yes' = yes /\ no' = no /\ overdue' = overdue /\ yes \in Nat /\ no \in Nat
    BY <1>12 DEF Send, inputVars, Inv, TypeOK
  <2>3. \A u \in Threads \ {t} :
          pc'[u] = pc[u] /\ snap'[u] = snap[u] /\ inner'[u] = inner[u] /\ seen'[u] = seen[u]
    BY <1>12, <2>1 DEF Send, Goto
  <2>4. \A u \in Threads \ {t} : HeldOK(u)'
    BY <1>0, <2>3, HeldKept DEF Inv, AllHeld
  <2>5. HeldOK(t)'
    BY <1>12, <2>1, <2>2, HeldNow DEF Send, Goto, Inv, AllHeld, HeldOK, Holding
  <2>6. QED
    BY <2>4, <2>5 DEF AllHeld
<1>13. ASSUME NEW t \in Threads, Mark(t) PROVE AllHeld'
  <2>1. t \in Threads /\ pc \in [Threads -> PCs] /\ snap \in [Threads -> Rows \cup {NoSnap}]
        /\ inner \in [Threads -> Rows \cup {NoSnap}] /\ seen \in [Threads -> Nat \X Nat]
        /\ back \in [Threads -> {"idle", "check", "view", "again"}]
    BY DEF Threads, Inv, TypeOK
  <2>2. yes' = yes /\ no' = no /\ overdue' = overdue /\ yes \in Nat /\ no \in Nat
    BY <1>13 DEF Mark, inputVars, Inv, TypeOK
  <2>3. \A u \in Threads \ {t} :
          pc'[u] = pc[u] /\ snap'[u] = snap[u] /\ inner'[u] = inner[u] /\ seen'[u] = seen[u]
    BY <1>13, <2>1 DEF Mark, Return, Drop, Goto, PutJob
  <2>4. \A u \in Threads \ {t} : HeldOK(u)'
    BY <1>0, <2>3, HeldKept DEF Inv, AllHeld
  <2>5. HeldOK(t)'
    BY <1>13, <2>1, <2>2, HeldNow DEF Mark, Return, Drop, Goto, PutJob, Inv, AllHeld, HeldOK,
       Holding
  <2>6. QED
    BY <2>4, <2>5 DEF AllHeld
<1>14. ASSUME NEW t \in Operators, LaunchRead(t) PROVE AllHeld'
  <2>1. t \in Threads /\ pc \in [Threads -> PCs] /\ snap \in [Threads -> Rows \cup {NoSnap}]
        /\ inner \in [Threads -> Rows \cup {NoSnap}] /\ seen \in [Threads -> Nat \X Nat]
        /\ back \in [Threads -> {"idle", "check", "view", "again"}]
    BY DEF Threads, Inv, TypeOK
  <2>2. yes' = yes /\ no' = no /\ overdue' = overdue /\ yes \in Nat /\ no \in Nat
    BY <1>14 DEF LaunchRead, inputVars, Inv, TypeOK
  <2>3. \A u \in Threads \ {t} :
          pc'[u] = pc[u] /\ snap'[u] = snap[u] /\ inner'[u] = inner[u] /\ seen'[u] = seen[u]
    BY <1>14, <2>1 DEF LaunchRead, Hold, Goto
  <2>4. \A u \in Threads \ {t} : HeldOK(u)'
    BY <1>0, <2>3, HeldKept DEF Inv, AllHeld
  <2>5. HeldOK(t)'
    BY <1>14, <2>1, <2>2, HeldNow DEF LaunchRead, Hold, Goto, Inv, AllHeld, HeldOK, Holding
  <2>6. QED
    BY <2>4, <2>5 DEF AllHeld
<1>15. ASSUME NEW t \in Threads, Recruit(t) PROVE AllHeld'
  <2>1. t \in Threads /\ pc \in [Threads -> PCs] /\ snap \in [Threads -> Rows \cup {NoSnap}]
        /\ inner \in [Threads -> Rows \cup {NoSnap}] /\ seen \in [Threads -> Nat \X Nat]
        /\ back \in [Threads -> {"idle", "check", "view", "again"}]
    BY DEF Threads, Inv, TypeOK
  <2>2. yes' = yes /\ no' = no /\ overdue' = overdue /\ yes \in Nat /\ no \in Nat
    BY <1>15 DEF Recruit, inputVars, Inv, TypeOK
  <2>3. \A u \in Threads \ {t} :
          pc'[u] = pc[u] /\ snap'[u] = snap[u] /\ inner'[u] = inner[u] /\ seen'[u] = seen[u]
    BY <1>15, <2>1 DEF Recruit, Drop, Goto
  <2>4. \A u \in Threads \ {t} : HeldOK(u)'
    BY <1>0, <2>3, HeldKept DEF Inv, AllHeld
  <2>5. HeldOK(t)'
    BY <1>15, <2>1, <2>2, HeldNow DEF Recruit, Drop, Goto, Inv, AllHeld, HeldOK, Holding
  <2>6. QED
    BY <2>4, <2>5 DEF AllHeld
<1>16. ASSUME NEW t \in Threads, LaunchPut(t) PROVE AllHeld'
  <2>1. t \in Threads /\ pc \in [Threads -> PCs] /\ snap \in [Threads -> Rows \cup {NoSnap}]
        /\ inner \in [Threads -> Rows \cup {NoSnap}] /\ seen \in [Threads -> Nat \X Nat]
        /\ back \in [Threads -> {"idle", "check", "view", "again"}]
    BY DEF Threads, Inv, TypeOK
  <2>2. yes' = yes /\ no' = no /\ overdue' = overdue /\ yes \in Nat /\ no \in Nat
    BY <1>16 DEF LaunchPut, inputVars, Inv, TypeOK
  <2>3. \A u \in Threads \ {t} :
          pc'[u] = pc[u] /\ snap'[u] = snap[u] /\ inner'[u] = inner[u] /\ seen'[u] = seen[u]
    BY <1>16, <2>1 DEF LaunchPut, Drop, Goto, PutJob
  <2>4. \A u \in Threads \ {t} : HeldOK(u)'
    BY <1>0, <2>3, HeldKept DEF Inv, AllHeld
  <2>5. HeldOK(t)'
    BY <1>16, <2>1, <2>2, HeldNow DEF LaunchPut, Drop, Goto, PutJob, Inv, AllHeld, HeldOK, Holding
  <2>6. QED
    BY <2>4, <2>5 DEF AllHeld
<1>17. ASSUME NEW k \in PatchKeys, Patch(k) PROVE AllHeld'
  BY <1>17, <1>0, HeldKept DEF Patch, Inv, AllHeld, threadVars
<1>18. ASSUME NEW l \in 1..(MaxLaunches + 1), Tick(l) PROVE AllHeld'
  BY <1>18, <1>0, HeldKept DEF Tick, Inv, AllHeld, threadVars
<1>19. CASE UNCHANGED vars
  BY <1>19, <1>0, HeldKept DEF vars, threadVars, Inv, AllHeld
<1>20. QED
  BY <1>1, <1>2, <1>3, <1>4, <1>5, <1>6, <1>7, <1>8, <1>9, <1>10, <1>11, <1>12, <1>13, <1>14,
     <1>15, <1>16, <1>17, <1>18, <1>19, StepCases

\* The threads and the counters stay well formed; that the row does is RowStep.
LEMMA TypeStep == Inv /\ [Next]_vars => TypeOK'
<1> SUFFICES ASSUME Inv, [Next]_vars PROVE TypeOK'
  OBVIOUS
<1> USE DEF TypeOK, PCs, inputVars, threadVars
<1>0. /\ row' \in Rows /\ row \in Rows /\ TypeOK
      /\ Loop \in Threads /\ Readers \subseteq Threads /\ Operators \subseteq Threads
  BY RowStep DEF Inv, Sound, Threads
<1>a. MaxAnswers \in Nat /\ MaxPolls \in Nat /\ MaxLaunches \in Nat
  BY CountAssumption
<1>1. ASSUME NEW y \in 0..1, NEW n \in 0..1, Submit(y, n) PROVE TypeOK'
  BY <1>1, <1>0, <1>a DEF Submit, Goto
<1>2. ASSUME OnHumanAnswer PROVE TypeOK'
  <2>1. snap' = snap \/ snap' = [snap EXCEPT ![Loop] = row]
    BY <1>2 DEF OnHumanAnswer, Hold
  <2>2. seen' = seen \/ seen' = [seen EXCEPT ![Loop] = <<yes, no>>]
    BY <1>2 DEF OnHumanAnswer
  <2>3. pc' = [pc EXCEPT ![Loop] = "settle"] \/ pc' = [pc EXCEPT ![Loop] = "check"]
    BY <1>2 DEF OnHumanAnswer, Goto
  <2>4. UNCHANGED <<row, inputVars, texts, inner, back>>
    BY <1>2 DEF OnHumanAnswer
  <2>5. QED
    BY <2>1, <2>2, <2>3, <2>4, <1>0
<1>3. ASSUME Settle PROVE TypeOK'
  BY <1>3, <1>0, <1>a DEF Settle, Drop, Goto, PutJob
<1>4. ASSUME NEW t \in Readers, Read(t) PROVE TypeOK'
  BY <1>4, <1>0, <1>a DEF Read, Goto
<1>5. ASSUME NEW t \in Threads, CheckTimeout(t) PROVE TypeOK'
  BY <1>5, <1>0, <1>a DEF CheckTimeout, TimedOut, Hold, Goto
<1>6. ASSUME NEW t \in Threads, CountAnswers(t) PROVE TypeOK'
  BY <1>6, <1>0, <1>a DEF CountAnswers, Goto
<1>7. ASSUME NEW t \in Threads, Expire(t) PROVE TypeOK'
  BY <1>7, <1>0, <1>a DEF Expire, Drop, Goto, PutJob
<1>8. ASSUME NEW t \in Threads, View(t) PROVE TypeOK'
  BY <1>8, <1>0, <1>a DEF View, Goto
<1>9. ASSUME NEW t \in Threads, StoreRefresh(t) PROVE TypeOK'
  BY <1>9, <1>0, <1>a DEF StoreRefresh, Goto, PutJob
<1>10. ASSUME NEW t \in Threads, NotifyRead(t) PROVE TypeOK'
  BY <1>10, <1>0, <1>a DEF NotifyRead, Return, Hold, Goto
<1>11. ASSUME NEW t \in Threads, Say(t) PROVE TypeOK'
  BY <1>11, <1>0, <1>a DEF Say, Goto
<1>12. ASSUME NEW t \in Threads, Send(t) PROVE TypeOK'
  BY <1>12, <1>0, <1>a DEF Send, Goto
<1>13. ASSUME NEW t \in Threads, Mark(t) PROVE TypeOK'
  BY <1>13, <1>0, <1>a DEF Mark, Return, Drop, Goto, PutJob
<1>14. ASSUME NEW t \in Operators, LaunchRead(t) PROVE TypeOK'
  BY <1>14, <1>0, <1>a DEF LaunchRead, Hold, Goto
<1>15. ASSUME NEW t \in Threads, Recruit(t) PROVE TypeOK'
  <2>1. snap' = snap \/ snap' = [snap EXCEPT ![t] = NoSnap]
    BY <1>15 DEF Recruit, Drop
  <2>2. seen' = seen \/ seen' = [seen EXCEPT ![t] = <<0, 0>>]
    BY <1>15 DEF Recruit, Drop
  <2>3. pc' = [pc EXCEPT ![t] = "launchPut"] \/ pc' = [pc EXCEPT ![t] = "idle"]
    BY <1>15 DEF Recruit, Goto
  <2>4. UNCHANGED <<row, inputVars, texts, inner, back>>
    BY <1>15 DEF Recruit
  <2>5. QED
    BY <2>1, <2>2, <2>3, <2>4, <1>0
<1>16. ASSUME NEW t \in Threads, LaunchPut(t) PROVE TypeOK'
  BY <1>16, <1>0, <1>a DEF LaunchPut, Drop, Goto, PutJob
<1>17. ASSUME NEW k \in PatchKeys, Patch(k) PROVE TypeOK'
  BY <1>17, <1>0, <1>a DEF Patch
<1>18. ASSUME NEW l \in 1..(MaxLaunches + 1), Tick(l) PROVE TypeOK'
  BY <1>18, <1>0, <1>a DEF Tick
<1>19. CASE UNCHANGED vars
  BY <1>19, <1>0 DEF vars
<1> HIDE DEF TypeOK, PCs, inputVars, threadVars
<1>20. QED
  BY <1>1, <1>2, <1>3, <1>4, <1>5, <1>6, <1>7, <1>8, <1>9, <1>10, <1>11, <1>12, <1>13, <1>14,
     <1>15, <1>16, <1>17, <1>18, <1>19, StepCases

LEMMA InvStep == Inv /\ [Next]_vars => Inv'
BY RowStep, HeldStep, TypeStep DEF Inv

LEMMA InvAlways == Spec => []Inv
<1>1. Init => Inv
  BY InvInit
<1>2. Inv /\ [Next]_vars => Inv'
  BY InvStep
<1>3. QED
  BY <1>1, <1>2, PTL DEF Spec
-----------------------------------------------------------------------------
(* The theorems.                                                           *)

\* Every row any thread ever stores has the shape judge.start gave it.
THEOREM JobsTyped == Spec => []TypeOK
<1>1. Inv => TypeOK
  BY DEF Inv
<1>2. QED
  BY <1>1, InvAlways, PTL

\* No interleaving of answers, reads, refreshes, notifications and launches settles a job that
\* waits for humans before enough of them answered or its launch is overdue, although every
\* writer but one puts back a row it read before.
THEOREM JobsSettleForAReason == Spec => []SettleJustified
<1>1. Inv => SettleJustified
  BY DEF Inv, Sound, SettleJustified
<1>2. QED
  BY <1>1, InvAlways, PTL

\* The count and the side a row shows were the true ones when they were counted.
THEOREM CountsAreReal == Spec => []CountIsReal
<1>1. Inv => CountIsReal
  BY DEF Inv, Sound, CountIsReal
<1>2. QED
  BY <1>1, InvAlways, PTL

-----------------------------------------------------------------------------
(* The loop alone.  Without pool threads that read jobs and operators who  *)
(* launch panels every copy the loop carries speaks of the row of now      *)
(* (CopiesOK), only a background thread may have added its key since.      *)

Alone == Readers = {} /\ Operators = {}
At == pc[Loop]

Like(a, b) ==
  /\ a.status = b.status /\ a.st.humans = b.st.humans
  /\ a.st.side = b.st.side

CopiesOK ==
  /\ At \in {"settle", "count", "expire", "say", "sayStore", "send", "mark"} => Like(snap[Loop], row)
  /\ At \in {"store", "sayStore"} => Like(inner[Loop], row)
  /\ At \in {"settle", "expire"} => seen[Loop] = <<yes, no>>

\* An answer that has not been handled may be ahead of the row, but never past the freeze.
TrackOK ==
  row.status = "settled" /\ yes + no >= MinN /\ At # "settle" =>
    /\ yes + no > TargetN => row.st.humans >= TargetN
    /\ yes + no <= TargetN /\ At # "answered" =>
         row.st.humans = yes + no /\ row.st.side = Majority(yes, no)

LoneOK == At \notin {"recruit", "launchPut"} /\ CopiesOK /\ TrackOK

LEMMA LoneFacts ==
  ASSUME Alone, TypeOK
  PROVE  /\ Threads = {Loop} /\ Loop \in Threads /\ At \in PCs
         /\ row \in Rows /\ row.st \in States
         /\ yes \in Nat /\ no \in Nat /\ yes + no \in Nat
         /\ back[Loop] \in {"idle", "check", "view", "again"}
         /\ \A p : pc' = [pc EXCEPT ![Loop] = p] => At' = p
         /\ \A x : snap' = [snap EXCEPT ![Loop] = x] => snap'[Loop] = x
         /\ \A x : inner' = [inner EXCEPT ![Loop] = x] => inner'[Loop] = x
         /\ \A x : seen' = [seen EXCEPT ![Loop] = x] => seen'[Loop] = x
  BY DEF Alone, TypeOK, Threads, At, Rows

LEMMA LoneInit == ASSUME Alone, Init PROVE LoneOK
<1>1. At = "idle"
  BY DEF Init, Threads, At
<1>2. yes + no = 0 /\ MinN > 0
  BY CountAssumption DEF Init
<1>3. QED
  BY <1>1, <1>2, CountAssumption DEF LoneOK, CopiesOK, TrackOK

LEMMA LoneSubmit ==
  ASSUME Alone, Inv, LoneOK, NEW y \in 0..1, NEW n \in 0..1, Submit(y, n)
  PROVE  LoneOK'
<1>1. /\ At = "idle" /\ At' = "answered" /\ row' = row
      /\ yes' = yes + y /\ no' = no + n /\ y + n <= 1
      /\ yes \in Nat /\ no \in Nat /\ TargetN \in Nat /\ MinN \in Nat /\ MinN <= TargetN
  BY LoneFacts, CountAssumption DEF Inv, Submit, Goto, At
<1>2. TrackOK'
  <2>1. SUFFICES ASSUME row.status = "settled", yes' + no' > TargetN
                 PROVE  row.st.humans >= TargetN
    BY <1>1 DEF TrackOK
  <2>2. CASE yes + no > TargetN
    BY <1>1, <2>1, <2>2 DEF LoneOK, TrackOK
  <2>3. CASE yes + no <= TargetN
    <3>1. yes + no = TargetN
      BY <1>1, <2>1, <2>3
    <3>2. yes + no >= MinN
      BY <1>1, <3>1
    <3>3. row.st.humans = yes + no
      BY <1>1, <2>1, <2>3, <3>2 DEF LoneOK, TrackOK
    <3>4. QED
      BY <1>1, <3>1, <3>3
  <2>4. QED
    BY <1>1, <2>2, <2>3
<1>3. QED
  BY <1>1, <1>2 DEF LoneOK, CopiesOK

LEMMA LoneAnswer == ASSUME Alone, Inv, LoneOK, OnHumanAnswer PROVE LoneOK'
<1>1. /\ At = "answered" /\ row' = row /\ yes' = yes /\ no' = no
      /\ yes \in Nat /\ no \in Nat /\ TargetN \in Nat /\ MinN \in Nat \ {0} /\ MinN <= TargetN
      /\ row \in Rows /\ row.st \in States
  BY LoneFacts, CountAssumption DEF Inv, OnHumanAnswer, At, inputVars
<1> DEFINE frozen == row.status = "settled" /\ (yes + no > TargetN \/ row.st.humans >= TargetN)
<1>2. CASE ~frozen /\ yes + no >= MinN
  <2>1. At' = "settle" /\ snap'[Loop] = row /\ seen'[Loop] = <<yes, no>>
    BY <1>2, LoneFacts DEF Inv, OnHumanAnswer, Hold, Goto
  <2>2. QED
    BY <1>1, <2>1 DEF LoneOK, CopiesOK, TrackOK, Like
<1>3. CASE ~(~frozen /\ yes + no >= MinN)
  <2>1. At' = "check"
    BY <1>3, LoneFacts DEF Inv, OnHumanAnswer, Goto
  <2>2. TrackOK'
    <3>1. SUFFICES ASSUME row.status = "settled", yes + no >= MinN
                   PROVE  /\ yes + no > TargetN => row.st.humans >= TargetN
                          /\ yes + no <= TargetN =>
                               row.st.humans = yes + no /\ row.st.side = Majority(yes, no)
      BY <1>1, <2>1 DEF TrackOK
    <3>2. yes + no > TargetN => row.st.humans >= TargetN
      BY <1>1, <3>1 DEF LoneOK, TrackOK
    <3>3. ASSUME yes + no <= TargetN
          PROVE  row.st.humans = yes + no /\ row.st.side = Majority(yes, no)
      <4>1. row.st.humans \in Nat /\ row.st.humans >= TargetN
        BY <1>1, <1>3, <3>1, <3>3 DEF States
      <4>2. row.st.humans > 0
        BY <1>1, <4>1
      <4>3. PICK y \in 0..yes, n \in 0..no : y + n = row.st.humans /\ row.st.side = Majority(y, n)
        BY <4>2 DEF Inv, Sound, RealCount
      <4>4. y = yes /\ n = no
        BY <1>1, <3>3, <4>1, <4>3
      <4>5. QED
        BY <4>3, <4>4
    <3>4. QED
      BY <3>2, <3>3
  <2>3. QED
    BY <1>1, <2>1, <2>2 DEF LoneOK, CopiesOK
<1>4. QED
  BY <1>2, <1>3

\* What the loop is about to settle with: the answers of now, and a copy like the row.
LEMMA LoneCounts ==
  ASSUME Alone, Inv, LoneOK, At \in {"settle", "expire"}
  PROVE  /\ snap[Loop].st \in States /\ Like(snap[Loop], row) /\ seen[Loop] = <<yes, no>>
         /\ SettledBy(snap[Loop].st, yes, no).humans = yes + no
         /\ SettledBy(snap[Loop].st, yes, no).side = Majority(yes, no)
<1> DEFINE st == snap[Loop].st
<1>1. snap[Loop] \in Rows
  BY LoneFacts DEF Inv, AllHeld, HeldOK, Holding, Sound, At
<1>2. st \in States /\ Like(snap[Loop], row) /\ seen[Loop] = <<yes, no>>
  BY <1>1 DEF Rows, LoneOK, CopiesOK
<1>3. yes \in Nat /\ no \in Nat
  BY LoneFacts DEF Inv
<1> HIDE DEF st
<1>4. SettledBy(st, yes, no).humans = yes + no /\ SettledBy(st, yes, no).side = Majority(yes, no)
  BY <1>2, <1>3, SettledByState
<1>5. QED
  BY <1>2, <1>4 DEF st

LEMMA LoneSettle == ASSUME Alone, Inv, LoneOK, Settle PROVE LoneOK'
<1>1. /\ At = "settle" /\ At' = "notify" /\ yes' = yes /\ no' = no
      /\ row' = [status |-> "settled", st |-> SettledBy(snap[Loop].st, seen[Loop][1], seen[Loop][2])]
  BY LoneFacts DEF Inv, Settle, PutJob, Drop, Goto, At, inputVars
<1>2. yes \in Nat /\ no \in Nat /\ TargetN \in Nat
  BY LoneFacts, CountAssumption DEF Inv
<1>3. row'.st = SettledBy(snap[Loop].st, yes, no)
  BY <1>1, LoneCounts
<1>4. row'.st.humans = yes + no /\ row'.st.side = Majority(yes, no)
  BY <1>1, <1>3, LoneCounts
<1>5. TrackOK'
  BY <1>1, <1>2, <1>4 DEF TrackOK
<1>6. QED
  BY <1>1, <1>4, <1>5 DEF LoneOK, CopiesOK

LEMMA LoneCheck == ASSUME Alone, Inv, LoneOK, CheckTimeout(Loop) PROVE LoneOK'
<1>1. At = "check" /\ row' = row /\ yes' = yes /\ no' = no
  BY DEF CheckTimeout, At, inputVars
<1>2. \/ At' = "count" /\ snap'[Loop] = row
      \/ At' = "view"
  BY LoneFacts DEF Inv, CheckTimeout, Hold, Goto
<1>3. QED
  BY <1>1, <1>2 DEF LoneOK, CopiesOK, TrackOK, Like

LEMMA LoneCount == ASSUME Alone, Inv, LoneOK, CountAnswers(Loop) PROVE LoneOK'
<1>1. /\ At = "count" /\ At' = "expire" /\ row' = row /\ yes' = yes /\ no' = no
      /\ snap' = snap /\ seen'[Loop] = <<yes, no>>
  BY LoneFacts DEF Inv, CountAnswers, Goto, At, inputVars
<1>2. QED
  BY <1>1 DEF LoneOK, CopiesOK, TrackOK

LEMMA LoneExpire == ASSUME Alone, Inv, LoneOK, Expire(Loop) PROVE LoneOK'
<1>1. /\ At = "expire" /\ At' = "notify" /\ yes' = yes /\ no' = no
      /\ yes \in Nat /\ no \in Nat /\ TargetN \in Nat /\ MinN \in Nat \ {0}
  BY LoneFacts, CountAssumption DEF Inv, Expire, Drop, Goto, At, inputVars
<1>2. snap[Loop].st \in States /\ Like(snap[Loop], row) /\ seen[Loop] = <<yes, no>>
  BY <1>1, LoneCounts
<1>3. CASE yes + no > 0
  <2>1. row' = [status |-> "settled", st |-> SettledBy(snap[Loop].st, yes, no)]
    BY <1>2, <1>3 DEF Expire, PutJob
  <2>2. row'.st.humans = yes + no /\ row'.st.side = Majority(yes, no)
    BY <1>1, <2>1, LoneCounts
  <2>3. TrackOK'
    BY <1>1, <2>2 DEF TrackOK
  <2>4. QED
    BY <1>1, <2>2, <2>3 DEF LoneOK, CopiesOK
<1>4. CASE ~(yes + no > 0)
  <2>1. row' = [status |-> "settled", st |-> [snap[Loop].st EXCEPT !.timedOut = TRUE]]
    BY <1>2, <1>4 DEF Expire, PutJob
  <2>2. TrackOK'
    BY <1>1, <1>4 DEF TrackOK
  <2>3. QED
    BY <1>1, <2>2 DEF LoneOK, CopiesOK
<1>5. QED
  BY <1>3, <1>4

LEMMA LoneView == ASSUME Alone, Inv, LoneOK, View(Loop) PROVE LoneOK'
<1>1. At = "view" /\ row' = row /\ yes' = yes /\ no' = no
  BY DEF View, At
<1>2. \/ At' = "idle"
      \/ At' = "store" /\ inner'[Loop] = row
  BY LoneFacts DEF Inv, View, Goto
<1>3. QED
  BY <1>1, <1>2 DEF LoneOK, CopiesOK, TrackOK, Like

\* The row that a refresh puts back is like the one it replaces.
LEMMA LoneStore == ASSUME Alone, Inv, LoneOK, StoreRefresh(Loop) PROVE LoneOK'
<1>1. /\ At \in {"store", "sayStore"} /\ yes' = yes /\ no' = no /\ snap' = snap
      /\ row' = [status |-> inner[Loop].status, st |-> inner[Loop].st]
      /\ At' = IF At = "store" THEN "idle" ELSE "send"
  BY LoneFacts DEF Inv, StoreRefresh, PutJob, Goto, At, inputVars
<1>2. Like(row', row)
  BY <1>1 DEF LoneOK, CopiesOK, Like
<1>3. At = "sayStore" => Like(snap[Loop], row')
  BY <1>1, <1>2 DEF LoneOK, CopiesOK, Like
<1>4. QED
  BY <1>1, <1>2, <1>3 DEF LoneOK, CopiesOK, TrackOK, Like

LEMMA LoneNotify == ASSUME Alone, Inv, LoneOK, NotifyRead(Loop) PROVE LoneOK'
<1>1. At = "notify" /\ row' = row /\ yes' = yes /\ no' = no
  BY DEF NotifyRead, At, inputVars
<1>2. \/ At' = "say" /\ snap'[Loop] = row
      \/ At' \in {"notify", "idle", "check", "view"}
  BY LoneFacts DEF Inv, NotifyRead, Hold, Return, Goto
<1>3. QED
  BY <1>1, <1>2 DEF LoneOK, CopiesOK, TrackOK, Like

LEMMA LoneSay == ASSUME Alone, Inv, LoneOK, Say(Loop) PROVE LoneOK'
<1>1. /\ At = "say" /\ row' = row /\ yes' = yes /\ no' = no /\ snap' = snap
  BY DEF Say, At
<1>2. \/ At' = "send"
      \/ At' = "sayStore" /\ inner'[Loop] = row
  BY LoneFacts DEF Inv, Say, Goto
<1>3. QED
  BY <1>1, <1>2 DEF LoneOK, CopiesOK, TrackOK, Like

LEMMA LoneSend == ASSUME Alone, Inv, LoneOK, Send(Loop) PROVE LoneOK'
<1>1. /\ At = "send" /\ At' = "mark" /\ row' = row /\ yes' = yes /\ no' = no /\ snap' = snap
  BY LoneFacts DEF Inv, Send, Goto, At, inputVars
<1>2. QED
  BY <1>1 DEF LoneOK, CopiesOK, TrackOK

LEMMA LoneMark == ASSUME Alone, Inv, LoneOK, Mark(Loop) PROVE LoneOK'
<1>1. /\ At = "mark" /\ yes' = yes /\ no' = no
      /\ row' = [status |-> snap[Loop].status, st |-> [snap[Loop].st EXCEPT !.notified = TRUE]]
      /\ At' \in {"notify", "idle", "check", "view"}
  BY LoneFacts DEF Inv, Mark, PutJob, Return, Drop, Goto, At, inputVars
<1>2. snap[Loop].st \in States /\ Like(snap[Loop], row)
  <2>1. snap[Loop] \in Rows
    BY <1>1, LoneFacts DEF Inv, AllHeld, HeldOK, Holding, Sound, At
  <2>2. QED
    BY <1>1, <2>1 DEF Rows, LoneOK, CopiesOK
<1>3. /\ row'.status = row.status /\ row'.st.humans = row.st.humans
      /\ row'.st.side = row.st.side
  BY <1>1, <1>2 DEF Like, States
<1>4. QED
  BY <1>1, <1>3 DEF LoneOK, CopiesOK, TrackOK

LEMMA LonePatch == ASSUME Alone, Inv, LoneOK, NEW k \in PatchKeys, Patch(k) PROVE LoneOK'
<1>1. At' = At /\ UNCHANGED <<yes, no, snap, inner, seen>>
  BY DEF Patch, At, threadVars
<1>2. Like(row', row)
  BY LoneFacts DEF Inv, Patch, Like, Rows, States
<1>3. QED
  BY <1>1, <1>2 DEF LoneOK, CopiesOK, TrackOK, Like

LEMMA LoneStep == ASSUME Alone, Inv, LoneOK, [Next]_vars PROVE LoneOK'
<1>1. /\ \A t \in Threads : t = Loop
      /\ At \notin {"recruit", "launchPut"}
  BY LoneFacts DEF Inv, LoneOK
<1>2. /\ \A t \in Threads : ~Recruit(t) /\ ~LaunchPut(t)
      /\ \A t \in Readers : FALSE
      /\ \A t \in Operators : FALSE
  BY <1>1 DEF Recruit, LaunchPut, Alone, At
<1>3. CASE UNCHANGED <<row, yes, no, threadVars>>
  BY <1>3 DEF threadVars, LoneOK, CopiesOK, TrackOK, At
<1>4. ASSUME NEW l \in 1..(MaxLaunches + 1), Tick(l) PROVE LoneOK'
  BY <1>3, <1>4 DEF Tick
<1>5. CASE UNCHANGED vars
  BY <1>3, <1>5 DEF vars, inputVars
<1>6. ASSUME NEW t \in Threads,
             \/ CheckTimeout(t) \/ CountAnswers(t) \/ Expire(t) \/ View(t) \/ StoreRefresh(t)
             \/ NotifyRead(t) \/ Say(t) \/ Send(t) \/ Mark(t)
      PROVE  LoneOK'
  BY <1>1, <1>6, LoneCheck, LoneCount, LoneExpire, LoneView, LoneStore, LoneNotify, LoneSay,
     LoneSend, LoneMark
<1>7. QED
  BY <1>2, <1>4, <1>5, <1>6, LoneSubmit, LoneAnswer, LoneSettle, LonePatch, StepCases

LEMMA LoneAlways == ASSUME Alone PROVE Spec => []LoneOK
<1>1. Init => LoneOK
  BY LoneInit
<1>2. Inv /\ LoneOK /\ [Next]_vars => LoneOK'
  BY LoneStep
<1>3. QED
  BY <1>1, <1>2, InvAlways, PTL DEF Spec

\* TracksMajority: with no pool thread and no operator at work, whatever the order of answers,
\* timeouts, refreshes, texts and background keys, a settled verdict is the majority of all the
\* answers up to TARGET_N, and stays frozen after it (on_human_answer, _settle_against_humans).
THEOREM VerdictTracksMajority == ASSUME Alone PROVE Spec => []TracksMajority
<1>1. Inv /\ LoneOK => TracksMajority
  BY DEF LoneOK, TrackOK, TracksMajority, At
<1>2. QED
  BY <1>1, LoneAlways, InvAlways, PTL
=============================================================================
