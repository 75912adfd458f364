-------------------------- MODULE TextReportProofs --------------------------
(***************************************************************************)
(* Safety of TextReport for any number of reading threads, answers,        *)
(* regradings and restarts.  A state is honest when it claims no text that *)
(* was not sent and no rubric that never landed.  Threads put back states  *)
(* they read long ago, so what a thread holds must be honest as well, and  *)
(* a thread about to send or to mark must carry the reason for it.         *)
(***************************************************************************)
EXTENDS TextReport, TLAPS

Honest(st) == /\ \A k \in st.flags : sent[k] > 0
              /\ st.stage = "delivered" => sent["final"] > 0
              /\ st.rubric => landed

\* The calls that end with a use of the row the thread holds.
Holding == {"settle", "expire", "weigh"}
Marking == {"mark", "markGraded", "markWait"}

HeldOK(t) ==
  /\ pc[t] \in Holding =>
       snap[t] \in Rows /\ Honest(snap[t].st) /\ snap[t].st.thread = row.st.thread
  /\ pc[t] = "send" => landed /\ answers > 0
  /\ pc[t] \in Marking => sent[MarkAt(pc[t])] > 0
  /\ pc[t] = "stage" => sent["final"] > 0

AllHeld == \A t \in Threads : HeldOK(t)

Inv == TypeOK /\ Honest(row.st) /\ AllHeld /\ SentIsMarked
-----------------------------------------------------------------------------
(* Lemmas.                                                                 *)

\* What put_job makes of an honest state over an honest row is well formed and honest, and in a
\* text thread it keeps every flag.
LEMMA MergedState ==
  ASSUME TypeOK, NEW prior \in States, NEW st \in States, Honest(prior), Honest(st),
         st.thread = prior.thread
  PROVE  /\ Merged(prior, st) \in States
         /\ Honest(Merged(prior, st))
         /\ Merged(prior, st).thread = prior.thread
         /\ prior.thread => prior.flags \subseteq Merged(prior, st).flags
<1>1. CASE ~prior.thread
  BY <1>1 DEF Merged
<1>2. CASE prior.thread
  <2> DEFINE f == st.flags \cup prior.flags
             g == IF prior.stage = "delivered" THEN st.stage ELSE "paid"
  <2>1. f \in SUBSET Kinds /\ g \in {"none", "paid", "delivered"} /\ (g = "delivered" => st.stage = g)
    BY DEF States
  <2>2. Merged(prior, st) = [st EXCEPT !.flags = f, !.stage = g]
    BY <1>2 DEF Merged
  <2>3. (\A k \in f : sent[k] > 0) /\ prior.flags \subseteq f
    BY DEF Honest
  <2> HIDE DEF f, g
  <2>4. LET m == [st EXCEPT !.flags = f, !.stage = g]
        IN  /\ m \in States /\ m.flags = f /\ m.stage = g
            /\ m.rubric = st.rubric /\ m.thread = st.thread
    BY <2>1 DEF States
  <2>5. QED
    BY <1>2, <2>1, <2>2, <2>3, <2>4 DEF Honest
<1>3. QED
  BY <1>1, <1>2 DEF States

\* A return goes to one of four calls, none of which holds or owes anything.
LEMMA ReturnsHome ==
  ASSUME TypeOK, NEW t \in Threads, Return(t)
  PROVE  \E p \in {"notify", "check", "ready", "idle"}, b \in {"idle", "end"} :
            pc' = [pc EXCEPT ![t] = p] /\ back' = [back EXCEPT ![t] = b]
<1>1. back[t] \in {"idle", "check", "again", "end"}
  BY DEF TypeOK
<1>2. CASE back[t] = "again"
  BY <1>2 DEF Return, Goto
<1>3. CASE back[t] = "check"
  BY <1>3 DEF Return, Goto
<1>4. CASE back[t] = "end"
  BY <1>4 DEF Return, Goto
<1>5. CASE back[t] = "idle"
  <2>1. back' = [back EXCEPT ![t] = "idle"] /\ pc' = [pc EXCEPT ![t] = "idle"]
    BY <1>5 DEF Return, Goto, TypeOK
  <2>2. QED
    BY <2>1
<1>6. QED
  BY <1>1, <1>2, <1>3, <1>4, <1>5

\* Texts are not unsent, the rubric has landed for good, answers stay, and no put makes a web
\* order of a text thread.
Growing == /\ \A k \in Kinds : sent[k] <= sent'[k]
           /\ landed => landed'
           /\ answers <= answers'
           /\ row'.st.thread = row.st.thread

\* What was honest stays honest.
LEMMA HonestStays ==
  ASSUME TypeOK, TypeOK', Growing, NEW st \in States, Honest(st)
  PROVE  Honest(st)'
<1>1. \A k \in st.flags : sent'[k] > 0
  <2> SUFFICES ASSUME NEW k \in st.flags PROVE sent'[k] > 0
    OBVIOUS
  <2>1. k \in Kinds /\ sent[k] > 0
    BY DEF States, Honest
  <2>2. sent[k] \in Nat /\ sent'[k] \in Nat /\ sent[k] <= sent'[k]
    BY <2>1 DEF TypeOK, Growing
  <2>3. QED
    BY <2>1, <2>2
<1>2. sent["final"] > 0 => sent'["final"] > 0
  <2>1. sent["final"] \in Nat /\ sent'["final"] \in Nat /\ sent["final"] <= sent'["final"]
    BY DEF TypeOK, Growing, Kinds
  <2>2. QED
    BY <2>1
<1>3. QED
  BY <1>1, <1>2 DEF Honest, Growing

\* A thread that does not move still carries what it carried.
LEMMA HeldStays ==
  ASSUME Inv, TypeOK', Growing, NEW t \in Threads, pc'[t] = pc[t], snap'[t] = snap[t]
  PROVE  HeldOK(t)'
<1>1. HeldOK(t)
  BY DEF Inv, AllHeld
<1>2. pc[t] \in Holding => snap[t] \in Rows /\ snap[t].st \in States /\ Honest(snap[t].st)
  BY <1>1 DEF HeldOK, Rows
<1>a. ASSUME NEW s \in States, Honest(s) PROVE Honest(s)'
  BY <1>a, HonestStays DEF Inv
<1>3. pc[t] \in Holding => Honest(snap[t].st)'
  BY <1>2, <1>a DEF Honest
<1>4. \A k \in Kinds : sent[k] > 0 => sent'[k] > 0
  <2> SUFFICES ASSUME NEW k \in Kinds, sent[k] > 0 PROVE sent'[k] > 0
    OBVIOUS
  <2>1. sent[k] \in Nat /\ sent'[k] \in Nat /\ sent[k] <= sent'[k]
    BY DEF Inv, TypeOK, Growing
  <2>2. QED
    BY <2>1
<1>5. pc[t] \in Marking => MarkAt(pc[t]) \in Kinds
  BY DEF Marking, MarkAt, Kinds
<1>6. answers > 0 => answers' > 0
  <2>1. answers \in Nat /\ answers' \in Nat /\ answers <= answers'
    BY DEF Inv, TypeOK, Growing
  <2>2. QED
    BY <2>1
<1>7. "final" \in Kinds
  BY DEF Kinds
<1>8. QED
  BY <1>1, <1>2, <1>3, <1>4, <1>5, <1>6, <1>7 DEF HeldOK, Growing

\* A step of one thread that sends and marks nothing keeps the invariant, if it keeps the types,
\* leaves the row honest with its flags, and the thread carries what it should.
LEMMA QuietStep ==
  ASSUME Inv, TypeOK', NEW t \in Threads, pc[t] \notin Marking,
         \A u \in Threads \ {t} : pc'[u] = pc[u] /\ snap'[u] = snap[u],
         sent' = sent, restarts' = restarts, Growing,
         Honest(row.st)', HeldOK(t)', row.st.thread => row.st.flags \subseteq row'.st.flags
  PROVE  Inv'
<1>1. AllHeld'
  <2> SUFFICES ASSUME NEW u \in Threads PROVE HeldOK(u)'
    BY DEF AllHeld
  <2>1. CASE u = t
    BY <2>1
  <2>2. CASE u # t
    BY <2>2, HeldStays
  <2>3. QED
    BY <2>1, <2>2
<1>2. ASSUME NEW k \in Kinds, NEW u \in Threads, MarkDue(u, k) PROVE MarkDue(u, k)'
  BY <1>2 DEF MarkDue, Marking
<1>3. SentIsMarked'
  <2> SUFFICES ASSUME row'.st.thread, restarts' = 0, NEW k \in Kinds, sent'[k] > 0
               PROVE  k \in row'.st.flags \/ \E u \in Threads : MarkDue(u, k)'
    BY DEF SentIsMarked
  <2>1. row.st.thread /\ restarts = 0 /\ sent[k] > 0
    BY DEF Growing
  <2>2. k \in row.st.flags \/ \E u \in Threads : MarkDue(u, k)
    BY <2>1 DEF Inv, SentIsMarked
  <2>3. QED
    BY <1>2, <2>1, <2>2
<1>4. QED
  BY <1>1, <1>3 DEF Inv
-----------------------------------------------------------------------------
(* The initial states and the steps.                                       *)

LEMMA InvInit == Init => Inv
<1> SUFFICES ASSUME Init PROVE Inv
  OBVIOUS
<1>1. PICK th \in BOOLEAN :
        row = [status |-> "awaiting_humans",
               st |-> [rubric |-> FALSE, thread |-> th, flags |-> {},
                       stage |-> IF th THEN "paid" ELSE "none"]]
  BY DEF Init
<1>2. row \in Rows /\ row.st.flags = {} /\ ~row.st.rubric /\ row.st.stage # "delivered"
  BY <1>1 DEF Rows, States
<1>3. TypeOK
  <2>1. pc \in [Threads -> PCs] /\ back \in [Threads -> {"idle", "check", "again", "end"}]
    BY DEF Init, PCs
  <2>2. snap \in [Threads -> Rows \cup {NoSnap}] /\ sent \in [Kinds -> Nat]
    BY DEF Init
  <2>a. answers = 0 /\ regrades = 0 /\ restarts = 0 /\ overdue = FALSE /\ landed = FALSE
    BY Zenon DEF Init
  <2>3. {answers, regrades, restarts} \subseteq Nat
    BY <2>a
  <2>4. overdue \in BOOLEAN /\ landed \in BOOLEAN
    BY <2>a, Zenon
  <2>5. QED
    BY <1>2, <2>1, <2>2, <2>3, <2>4 DEF TypeOK
<1>4. Honest(row.st)
  BY <1>2 DEF Honest
<1>5. AllHeld
  BY DEF Init, AllHeld, HeldOK, Holding, Marking
<1>6. SentIsMarked
  BY DEF Init, SentIsMarked
<1>7. QED
  BY <1>3, <1>4, <1>5, <1>6 DEF Inv

\* A step that only moves thread t, to a call that needs nothing.
LEMMA MoveStep ==
  ASSUME Inv, NEW t \in Threads, NEW p \in PCs, NEW b \in {"idle", "check", "again", "end"},
         pc[t] \notin Marking, p \notin Holding \cup Marking \cup {"send", "stage"},
         pc' = [pc EXCEPT ![t] = p], back' = [back EXCEPT ![t] = b],
         snap' = snap \/ snap' = [snap EXCEPT ![t] = NoSnap],
         UNCHANGED <<row, landed, restarts, sent>>,
         answers' \in Nat, answers <= answers', overdue' \in BOOLEAN, regrades' \in Nat
  PROVE  Inv'
<1>1. TypeOK'
  <2>1. snap' \in [Threads -> Rows \cup {NoSnap}]
    BY DEF Inv, TypeOK
  <2>2. pc' \in [Threads -> PCs] /\ back' \in [Threads -> {"idle", "check", "again", "end"}]
    BY DEF Inv, TypeOK
  <2>3. {answers', regrades', restarts'} \subseteq Nat
    BY DEF Inv, TypeOK
  <2>4. QED
    BY <2>1, <2>2, <2>3 DEF Inv, TypeOK
<1>2. Growing
  BY DEF Growing, Inv, TypeOK
<1>3. Honest(row.st)'
  BY DEF Inv, Honest
<1>4. \A u \in Threads \ {t} : pc'[u] = pc[u] /\ snap'[u] = snap[u]
  BY DEF Inv, TypeOK
<1>5. HeldOK(t)'
  <2>1. pc'[t] = p
    BY DEF Inv, TypeOK
  <2>2. QED
    BY <2>1 DEF HeldOK
<1>6. QED
  BY <1>1, <1>2, <1>3, <1>4, <1>5, QuietStep

\* A step that takes the row in hand, on the way to a call that will use it.
LEMMA HoldStep ==
  ASSUME Inv, NEW t \in Threads, NEW p \in Holding, pc[t] \notin Marking,
         pc' = [pc EXCEPT ![t] = p], snap' = [snap EXCEPT ![t] = row],
         UNCHANGED <<row, inputVars, sent, back>>
  PROVE  Inv'
<1>1. p \in PCs /\ p \notin Marking \cup {"send", "stage"}
  BY DEF Holding, Marking, PCs
<1>2. TypeOK'
  BY <1>1 DEF Inv, TypeOK, inputVars
<1>3. Growing
  BY DEF Growing, Inv, TypeOK, inputVars
<1>4. Honest(row.st)'
  BY DEF Inv, Honest, inputVars
<1>5. \A u \in Threads \ {t} : pc'[u] = pc[u] /\ snap'[u] = snap[u]
  BY DEF Inv, TypeOK
<1>6. HeldOK(t)'
  <2>1. pc'[t] = p /\ snap'[t] = row'
    BY DEF Inv, TypeOK
  <2>2. Honest(snap[t].st)'
    BY <1>4, <2>1 DEF Honest
  <2>3. row' \in Rows
    BY <1>2 DEF TypeOK
  <2>4. QED
    BY <1>1, <2>1, <2>2, <2>3 DEF HeldOK
<1>7. QED
  BY <1>2, <1>3, <1>4, <1>5, <1>6, QuietStep DEF inputVars

\* A settling put of the row in hand.
LEMMA SettleStep ==
  ASSUME Inv, NEW t \in Threads, NEW b \in {"check", "again", "end"},
         pc[t] \in {"settle", "expire"}, PutJob("settled", snap[t].st), Drop(t),
         pc' = [pc EXCEPT ![t] = "notify"], back' = [back EXCEPT ![t] = b],
         UNCHANGED <<inputVars, sent>>
  PROVE  Inv'
<1> DEFINE m == Merged(row.st, snap[t].st)
<1>1. snap[t].st \in States /\ Honest(snap[t].st) /\ snap[t].st.thread = row.st.thread
  BY DEF Inv, AllHeld, HeldOK, Holding, Rows
<1>2. row.st \in States /\ Honest(row.st)
  BY DEF Inv, TypeOK, Rows
<1>3. /\ m \in States /\ Honest(m) /\ m.thread = row.st.thread
      /\ row.st.thread => row.st.flags \subseteq m.flags
  BY <1>1, <1>2, MergedState DEF Inv
<1>4. row' = [status |-> "settled", st |-> m]
  BY DEF PutJob
<1> HIDE DEF m
<1>5. row' \in Rows /\ row'.st = m
  BY <1>3, <1>4 DEF Rows
<1>6. TypeOK'
  BY <1>5 DEF Inv, TypeOK, inputVars, Drop, PCs
<1>7. Growing
  BY <1>3, <1>5 DEF Growing, Inv, TypeOK, inputVars
<1>8. Honest(row.st)'
  BY <1>3, <1>5 DEF Honest, inputVars
<1>9. \A u \in Threads \ {t} : pc'[u] = pc[u] /\ snap'[u] = snap[u]
  BY DEF Inv, TypeOK, Drop
<1>10. HeldOK(t)'
  <2>1. pc'[t] = "notify"
    BY DEF Inv, TypeOK
  <2>2. QED
    BY <2>1 DEF HeldOK, Holding, Marking
<1>11. QED
  BY <1>3, <1>5, <1>6, <1>7, <1>8, <1>9, <1>10, QuietStep DEF Marking, inputVars

\* A step that changes the row's mark or rubric by patching, and moves on.
LEMMA PatchStep ==
  ASSUME Inv, NEW st \in States, Honest(st)', st.thread = row.st.thread,
         row.st.flags \subseteq st.flags, row' = [row EXCEPT !.st = st],
         NEW t \in Threads, NEW p \in PCs, NEW b \in {"idle", "check", "again", "end"},
         p \notin Holding \cup Marking \cup {"send"}, p = "stage" => sent["final"] > 0,
         pc[t] \in Marking => MarkAt(pc[t]) \in st.flags,
         pc' = [pc EXCEPT ![t] = p], back' = [back EXCEPT ![t] = b],
         landed' \in {landed, TRUE},
         UNCHANGED <<answers, overdue, regrades, restarts, sent, snap>>
  PROVE  Inv'
<1>1. row' \in Rows /\ row'.st = st
  BY DEF Inv, TypeOK, Rows
<1>a. landed' \in BOOLEAN /\ (landed => landed')
  BY Zenon DEF Inv, TypeOK
<1>b. {answers', regrades', restarts'} \subseteq Nat /\ overdue' \in BOOLEAN
  BY DEF Inv, TypeOK
<1>c. pc' \in [Threads -> PCs] /\ back' \in [Threads -> {"idle", "check", "again", "end"}]
  BY DEF Inv, TypeOK
<1>2. TypeOK'
  BY <1>1, <1>a, <1>b, <1>c DEF Inv, TypeOK
<1>3. Growing
  BY <1>1, <1>a DEF Growing, Inv, TypeOK
<1>4. Honest(row.st)'
  BY <1>1 DEF Honest
<1>5. AllHeld'
  <2> SUFFICES ASSUME NEW u \in Threads PROVE HeldOK(u)'
    BY DEF AllHeld
  <2>1. CASE u = t
    <3>1. pc'[u] = p
      BY <2>1 DEF Inv, TypeOK
    <3>2. QED
      BY <3>1 DEF HeldOK
  <2>2. CASE u # t
    <3>1. pc'[u] = pc[u] /\ snap'[u] = snap[u]
      BY <2>2 DEF Inv, TypeOK
    <3>2. QED
      BY <1>2, <1>3, <3>1, HeldStays
  <2>3. QED
    BY <2>1, <2>2
<1>6. SentIsMarked'
  <2> SUFFICES ASSUME row'.st.thread, restarts' = 0, NEW k \in Kinds, sent'[k] > 0
               PROVE  k \in row'.st.flags \/ \E u \in Threads : MarkDue(u, k)'
    BY DEF SentIsMarked
  <2>1. k \in row.st.flags \/ \E u \in Threads : MarkDue(u, k)
    BY <1>1 DEF Inv, SentIsMarked
  <2>2. ASSUME NEW u \in Threads, MarkDue(u, k)
        PROVE  k \in st.flags \/ MarkDue(u, k)'
    <3>1. CASE u = t
      BY <2>2, <3>1 DEF MarkDue, Marking
    <3>2. CASE u # t
      BY <2>2, <3>2 DEF MarkDue, Inv, TypeOK
    <3>3. QED
      BY <3>1, <3>2
  <2>3. QED
    BY <1>1, <2>1, <2>2
<1>7. QED
  BY <1>2, <1>4, <1>5, <1>6 DEF Inv

\* Sending a text keeps the invariant: its mark is due.
LEMMA SayStep ==
  ASSUME Inv, NEW t \in Threads, Say(t)
  PROVE  Inv'
<1> DEFINE k == TextAt(pc[t])
           p == MarkAfter(pc[t])
<1>1. /\ k \in Kinds /\ p \in PCs /\ p \in Marking /\ MarkAt(p) = k /\ pc[t] \notin Marking
  BY DEF Say, TextAt, MarkAfter, MarkAt, Marking, Kinds, PCs
<1>2. sent' = [sent EXCEPT ![k] = @ + 1] /\ pc' = [pc EXCEPT ![t] = p]
  BY DEF Say, Goto
<1>3. UNCHANGED <<row, inputVars, snap, back>>
  BY DEF Say
<1> HIDE DEF k, p
<1>4. sent' \in [Kinds -> Nat] /\ sent'[k] > 0 /\ (\A j \in Kinds : sent[j] <= sent'[j])
      /\ (\A j \in Kinds \ {k} : sent'[j] = sent[j])
  BY <1>1, <1>2 DEF Inv, TypeOK
<1>5. TypeOK'
  BY <1>1, <1>2, <1>3, <1>4 DEF Inv, TypeOK, inputVars
<1>6. Growing
  BY <1>3, <1>4 DEF Growing, Inv, TypeOK, inputVars
<1>7. Honest(row.st)'
  <2>1. \A s \in States : Honest(s) => Honest(s)'
    BY <1>5, <1>6, HonestStays DEF Inv
  <2>2. row.st \in States /\ Honest(row.st) /\ row' = row
    BY <1>3 DEF Inv, TypeOK, Rows
  <2>3. QED
    BY <2>1, <2>2 DEF Honest
<1>8. pc'[t] = p /\ \A u \in Threads \ {t} : pc'[u] = pc[u] /\ snap'[u] = snap[u]
  BY <1>2, <1>3 DEF Inv, TypeOK
<1>9. AllHeld'
  <2> SUFFICES ASSUME NEW u \in Threads PROVE HeldOK(u)'
    BY DEF AllHeld
  <2>1. CASE u = t
    <3>1. p \notin Holding \cup {"send", "stage"}
      BY <1>1 DEF Marking, Holding
    <3>2. QED
      BY <1>1, <1>4, <1>8, <2>1, <3>1 DEF HeldOK
  <2>2. CASE u # t
    BY <1>5, <1>6, <1>8, <2>2, HeldStays
  <2>3. QED
    BY <2>1, <2>2
<1>10. SentIsMarked'
  <2> SUFFICES ASSUME row'.st.thread, restarts' = 0, NEW j \in Kinds, sent'[j] > 0
               PROVE  j \in row'.st.flags \/ \E u \in Threads : MarkDue(u, j)'
    BY DEF SentIsMarked
  <2>1. CASE j = k
    BY <1>1, <1>8, <2>1 DEF MarkDue, Marking
  <2>2. CASE j # k
    <3>1. j \in row.st.flags \/ \E u \in Threads : MarkDue(u, j)
      BY <1>3, <1>4, <2>2 DEF Inv, SentIsMarked, inputVars
    <3>2. ASSUME NEW u \in Threads, MarkDue(u, j) PROVE MarkDue(u, j)'
      BY <1>1, <1>8, <3>2 DEF MarkDue, Marking
    <3>3. QED
      BY <1>3, <3>1, <3>2
  <2>3. QED
    BY <2>1, <2>2
<1>11. QED
  BY <1>5, <1>7, <1>9, <1>10 DEF Inv

LEMMA InvNext == Inv /\ [Next]_vars => Inv'
<1> SUFFICES ASSUME Inv, [Next]_vars PROVE Inv'
  OBVIOUS
<1> USE DEF Goto, Hold, Drop, inputVars
<1>a. /\ Loop \in Threads /\ Rubric \in Threads /\ Readers \subseteq Threads
      /\ TypeOK /\ (\A t \in Threads : back' = back => back' = [back EXCEPT ![t] = back[t]])
      /\ (\A t \in Threads : back[t] \in {"idle", "check", "again", "end"})
  BY DEF Threads, Inv, TypeOK
<1>1. CASE Submit
  <2>1. pc[Loop] \notin Marking /\ "answered" \in PCs
        /\ "answered" \notin Holding \cup Marking \cup {"send", "stage"}
    BY <1>1 DEF Submit, Marking, PCs, Holding
  <2>2. answers' \in Nat /\ answers <= answers'
    BY <1>1, <1>a DEF Submit, TypeOK
  <2>3. QED
    BY <1>1, <1>a, <2>1, <2>2, MoveStep DEF Submit, TypeOK
<1> DEFINE Rest == {"idle", "notify", "check", "ready", "timeout", "recount", "sayWait", "sayGraded",
                    "grading", "answered"}
<1>b. Rest \subseteq PCs /\ \A p \in Rest : p \notin Holding \cup Marking \cup {"send", "stage"}
  BY DEF PCs, Holding, Marking
<1>c. answers \in Nat /\ answers <= answers /\ overdue \in BOOLEAN /\ regrades \in Nat
  BY <1>a DEF TypeOK
\* A step that only moves a thread to a call that needs nothing.
<1>d. ASSUME NEW t \in Threads, NEW p \in Rest, NEW b \in {"idle", "check", "again", "end"},
             pc[t] \notin Marking, pc' = [pc EXCEPT ![t] = p], back' = [back EXCEPT ![t] = b],
             snap' = snap \/ snap' = [snap EXCEPT ![t] = NoSnap],
             UNCHANGED <<row, inputVars, sent>>
      PROVE  Inv'
  BY <1>b, <1>c, <1>d, MoveStep
\* The same without a change of the return address.
<1>e. ASSUME NEW t \in Threads, NEW p \in Rest, pc[t] \notin Marking,
             pc' = [pc EXCEPT ![t] = p], back' = back,
             snap' = snap \/ snap' = [snap EXCEPT ![t] = NoSnap],
             UNCHANGED <<row, inputVars, sent>>
      PROVE  Inv'
  BY <1>a, <1>d, <1>e
\* A return.
<1>f. ASSUME NEW t \in Threads, Return(t), pc[t] \notin Marking,
             UNCHANGED <<row, inputVars, sent, snap>>
      PROVE  Inv'
  <2>1. PICK p \in {"notify", "check", "ready", "idle"}, b \in {"idle", "end"} :
           pc' = [pc EXCEPT ![t] = p] /\ back' = [back EXCEPT ![t] = b]
    BY <1>f, <1>a, ReturnsHome
  <2>2. QED
    BY <1>f, <2>1, <1>d
\* A step to a text or a stage that has its reason.
<1>g. ASSUME NEW t \in Threads, pc[t] \notin Marking, pc' = [pc EXCEPT ![t] = "send"], back' = back,
             landed /\ answers > 0,
             snap' = snap \/ snap' = [snap EXCEPT ![t] = NoSnap],
             UNCHANGED <<row, inputVars, sent>>
      PROVE  Inv'
  <2>1. TypeOK'
    <3>1. snap' \in [Threads -> Rows \cup {NoSnap}] /\ pc' \in [Threads -> PCs]
      BY <1>a, <1>g DEF TypeOK, PCs
    <3>2. QED
      BY <1>a, <1>g, <3>1 DEF TypeOK
  <2>2. Growing /\ Honest(row.st)'
    BY <1>a, <1>g DEF Growing, TypeOK, Inv, Honest
  <2>3. (\A u \in Threads \ {t} : pc'[u] = pc[u] /\ snap'[u] = snap[u]) /\ pc'[t] = "send"
    BY <1>a, <1>g DEF TypeOK
  <2>4. HeldOK(t)'
    BY <1>g, <2>3 DEF HeldOK, Holding, Marking
  <2>5. QED
    BY <1>g, <2>1, <2>2, <2>3, <2>4, QuietStep
<1> HIDE DEF Rest
<1>r. /\ "idle" \in Rest /\ "notify" \in Rest /\ "check" \in Rest /\ "ready" \in Rest
      /\ "timeout" \in Rest /\ "recount" \in Rest /\ "sayWait" \in Rest /\ "sayGraded" \in Rest
      /\ "grading" \in Rest
  BY DEF Rest
<1>2. CASE HumansText
  <2>1. pc[Loop] \notin Marking
    BY <1>2 DEF HumansText, Marking
  <2>2. QED
    BY <1>2, <1>a, <1>e, <1>r, <2>1 DEF HumansText
<1>3. ASSUME NEW t \in Readers, Read(t) PROVE Inv'
  <2>1. pc[t] \notin Marking
    BY <1>3 DEF Read, Marking
  <2>2. QED
    BY <1>3, <1>a, <1>e, <1>r, <2>1 DEF Read
<1>4. ASSUME NEW t \in Threads, CheckTimeout(t) PROVE Inv'
  <2>1. pc[t] \notin Marking /\ "expire" \in Holding
    BY <1>4 DEF CheckTimeout, Marking, Holding
  <2>2. CASE row.status = "awaiting_humans" /\ overdue
    BY <1>4, <2>1, <2>2, HoldStep DEF CheckTimeout
  <2>3. CASE ~(row.status = "awaiting_humans" /\ overdue)
    <3> DEFINE p == IF t = Loop THEN "ready" ELSE "idle"
    <3>1. p \in Rest
      BY <1>r
    <3>2. pc' = [pc EXCEPT ![t] = p] /\ snap' = snap /\ UNCHANGED <<row, inputVars, sent, back>>
      BY <1>4, <2>3 DEF CheckTimeout
    <3> HIDE DEF p
    <3>3. QED
      BY <2>1, <3>1, <3>2, <1>e
  <2>4. QED
    BY <2>2, <2>3
<1>5. ASSUME NEW t \in Threads, Expire(t) PROVE Inv'
  <2>1. PICK b \in {"again", "end"} : back' = [back EXCEPT ![t] = b]
    BY <1>5 DEF Expire
  <2>2. QED
    BY <1>5, <2>1, SettleStep DEF Expire
<1>6. ASSUME NEW t \in Threads, Notify(t) PROVE Inv'
  <2> DEFINE p == IF answers > 0 THEN "ready" ELSE "timeout"
  <2>1. p \in Rest /\ pc[t] \notin Marking
    BY <1>6, <1>r DEF Notify, Marking
  <2>2. pc' = [pc EXCEPT ![t] = p] /\ UNCHANGED <<row, inputVars, sent, snap, back>>
    BY <1>6 DEF Notify
  <2> HIDE DEF p
  <2>3. QED
    BY <2>1, <2>2, <1>e
<1>7. ASSUME NEW t \in Threads, OnHumansReady(t) PROVE Inv'
  <2>1. pc[t] \notin Marking
    BY <1>7 DEF OnHumansReady, Marking
  <2>2. CASE FinalReady(row.st, answers) /\ "final" \notin row.st.flags
    <3>1. landed /\ answers > 0
      BY <2>2 DEF FinalReady, Inv, Honest
    <3>2. QED
      BY <1>7, <1>g, <2>1, <2>2, <3>1 DEF OnHumansReady
  <2>3. CASE ~(FinalReady(row.st, answers) /\ "final" \notin row.st.flags)
    BY <1>7, <1>f, <2>1, <2>3 DEF OnHumansReady
  <2>4. QED
    BY <2>2, <2>3
<1>8. ASSUME NEW t \in Threads, OnHumansTimeout(t) PROVE Inv'
  <2>1. pc[t] \notin Marking
    BY <1>8 DEF OnHumansTimeout, Marking
  <2>2. CASE row.st.flags \cap {"final", "wait"} # {}
    BY <1>8, <1>f, <2>1, <2>2 DEF OnHumansTimeout
  <2>3. CASE ~(row.st.flags \cap {"final", "wait"} # {})
    BY <1>8, <1>e, <1>r, <2>1, <2>3 DEF OnHumansTimeout
  <2>4. QED
    BY <2>2, <2>3
<1>9. ASSUME NEW t \in Threads, Recount(t) PROVE Inv'
  <2> DEFINE p == IF answers > 0 THEN "ready" ELSE "sayWait"
  <2>1. p \in Rest /\ pc[t] \notin Marking
    BY <1>9, <1>r DEF Recount, Marking
  <2>2. pc' = [pc EXCEPT ![t] = p] /\ UNCHANGED <<row, inputVars, sent, snap, back>>
    BY <1>9 DEF Recount
  <2> HIDE DEF p
  <2>3. QED
    BY <2>1, <2>2, <1>e
<1>10. ASSUME NEW t \in Threads, Say(t) PROVE Inv'
  BY <1>10, SayStep
<1>11. ASSUME NEW t \in Threads, Mark(t) PROVE Inv'
  <2> DEFINE k == MarkAt(pc[t])
             f == row.st.flags \cup {k}
             st == [row.st EXCEPT !.flags = f]
  <2>1. k \in Kinds /\ pc[t] \in Marking
    BY <1>11 DEF Mark, Marking, MarkAt, Kinds
  <2>2. sent[k] > 0
    BY <2>1 DEF Inv, AllHeld, HeldOK
  <2> HIDE DEF k
  <2>3. f \in SUBSET Kinds /\ row.st.flags \subseteq f /\ k \in f /\ \A j \in f : sent[j] > 0
    BY <1>a, <2>1, <2>2 DEF TypeOK, Rows, States, Inv, Honest
  <2>4. row' = [row EXCEPT !.st.flags = f]
    BY <1>11 DEF Mark, k
  <2> HIDE DEF f
  <2>5. /\ st \in States /\ st.flags = f /\ st.thread = row.st.thread
        /\ st.rubric = row.st.rubric /\ st.stage = row.st.stage
    BY <1>a, <2>3 DEF TypeOK, Rows, States
  <2>6. row' = [row EXCEPT !.st = st]
    BY <1>a, <2>4 DEF TypeOK, Rows, States
  <2> HIDE DEF st
  <2>7. UNCHANGED <<answers, overdue, regrades, restarts, sent, snap, landed>>
    BY <1>11 DEF Mark
  <2>8. /\ \A j \in st.flags : sent'[j] > 0
        /\ st.stage = "delivered" => sent'["final"] > 0
        /\ st.rubric => landed'
    BY <2>3, <2>5, <2>7 DEF Inv, Honest
  <2>9. PICK s \in States : s = st
    BY <2>5
  <2>10. Honest(s)'
    BY <2>8, <2>9 DEF Honest
  <2>11. CASE pc[t] = "mark"
    <3>1. pc' = [pc EXCEPT ![t] = "stage"] /\ back' = [back EXCEPT ![t] = back[t]]
      BY <1>11, <1>a, <2>11 DEF Mark
    <3>2. sent["final"] > 0 /\ "stage" \in PCs /\ "stage" \notin Holding \cup Marking \cup {"send"}
      BY <2>2, <2>11 DEF k, MarkAt, PCs, Holding, Marking
    <3>3. landed' \in {landed, TRUE}
      BY <2>7
    <3>4. QED
      BY <1>a, <2>3, <2>5, <2>6, <2>7, <2>9, <2>10, <3>1, <3>2, <3>3, PatchStep DEF k
  <2>12. CASE pc[t] # "mark"
    <3>1. PICK p \in {"notify", "check", "ready", "idle"}, b \in {"idle", "end"} :
             pc' = [pc EXCEPT ![t] = p] /\ back' = [back EXCEPT ![t] = b]
      BY <1>11, <1>a, <2>12, ReturnsHome DEF Mark
    <3>2. p \in PCs /\ p \notin Holding \cup Marking \cup {"send", "stage"}
      BY DEF PCs, Holding, Marking
    <3>3. landed' \in {landed, TRUE}
      BY <2>7
    <3>4. QED
      BY <2>3, <2>5, <2>6, <2>7, <2>9, <2>10, <3>1, <3>2, <3>3, PatchStep DEF k
  <2>13. QED
    BY <2>11, <2>12
<1>12. ASSUME NEW t \in Threads, Deliver(t) PROVE Inv'
  <2> DEFINE st == [row.st EXCEPT !.stage = "delivered"]
  <2>1. pc[t] = "stage" /\ pc[t] \notin Marking /\ sent["final"] > 0
    BY <1>12 DEF Deliver, Marking, Inv, AllHeld, HeldOK
  <2>2. /\ st \in States /\ st.flags = row.st.flags /\ st.thread = row.st.thread
        /\ st.rubric = row.st.rubric
    BY <1>a DEF TypeOK, Rows, States
  <2>3. row' = [row EXCEPT !.st = st]
    BY <1>12, <1>a DEF Deliver, TypeOK, Rows, States
  <2> HIDE DEF st
  <2>4. UNCHANGED <<answers, overdue, regrades, restarts, sent, snap, landed>>
    BY <1>12 DEF Deliver
  <2>5. PICK s \in States : s = st
    BY <2>2
  <2>6. Honest(s)'
    BY <2>1, <2>2, <2>4, <2>5 DEF Inv, Honest
  <2>7. PICK p \in {"notify", "check", "ready", "idle"}, b \in {"idle", "end"} :
           pc' = [pc EXCEPT ![t] = p] /\ back' = [back EXCEPT ![t] = b]
    BY <1>12, <1>a, ReturnsHome DEF Deliver
  <2>8. p \in PCs /\ p \notin Holding \cup Marking \cup {"send", "stage"}
    BY DEF PCs, Holding, Marking
  <2>9. landed' \in {landed, TRUE}
    BY <2>4
  <2>10. QED
    BY <2>1, <2>2, <2>3, <2>4, <2>5, <2>6, <2>7, <2>8, <2>9, PatchStep
<1>13. CASE OnHumanAnswer
  <2>1. pc[Loop] \notin Marking /\ "settle" \in Holding
    BY <1>13 DEF OnHumanAnswer, Marking, Holding
  <2>2. CASE Hold(Loop) /\ Goto(Loop, "settle")
    BY <1>13, <1>a, <2>1, <2>2, HoldStep DEF OnHumanAnswer
  <2>3. CASE Goto(Loop, "check") /\ UNCHANGED snap
    BY <1>13, <1>a, <1>e, <1>r, <2>1, <2>3 DEF OnHumanAnswer
  <2>4. QED
    BY <1>13, <2>2, <2>3 DEF OnHumanAnswer
<1>14. CASE Settle
  BY <1>14, <1>a, SettleStep DEF Settle
<1>15. CASE Land
  <2> DEFINE st == [row.st EXCEPT !.rubric = TRUE]
  <2>1. pc[Rubric] \notin Marking /\ landed' = TRUE /\ landed' \in {landed, TRUE}
    BY <1>15 DEF Land, Marking
  <2>2. /\ st \in States /\ st.flags = row.st.flags /\ st.thread = row.st.thread
        /\ st.stage = row.st.stage
    BY <1>a DEF TypeOK, Rows, States
  <2>3. row' = [row EXCEPT !.st = st]
    BY <1>15, <1>a DEF Land, TypeOK, Rows, States
  <2> HIDE DEF st
  <2>4. UNCHANGED <<answers, overdue, regrades, restarts, sent, snap>>
    BY <1>15 DEF Land
  <2>5. PICK s \in States : s = st
    BY <2>2
  <2>6. Honest(s)'
    BY <2>1, <2>2, <2>4, <2>5 DEF Inv, Honest
  <2>7. pc' = [pc EXCEPT ![Rubric] = "report"] /\ back' = [back EXCEPT ![Rubric] = back[Rubric]]
    BY <1>15, <1>a DEF Land
  <2>8. "report" \in PCs /\ "report" \notin Holding \cup Marking \cup {"send", "stage"}
    BY DEF PCs, Holding, Marking
  <2>9. QED
    BY <1>a, <2>1, <2>2, <2>3, <2>4, <2>5, <2>6, <2>7, <2>8, PatchStep
<1>16. CASE OnReportReady
  <2>1. pc[Rubric] \notin Marking /\ "weigh" \in Holding
    BY <1>16 DEF OnReportReady, Marking, Holding
  <2>2. CASE row.st.rubric
    BY <1>16, <1>a, <2>1, <2>2, HoldStep DEF OnReportReady
  <2>3. CASE ~row.st.rubric
    BY <1>16, <1>a, <1>e, <1>r, <2>1, <2>3 DEF OnReportReady
  <2>4. QED
    BY <2>2, <2>3
<1>17. CASE Weigh
  <2> DEFINE st == snap[Rubric].st
             text == IF FinalReady(st, answers) THEN "final" ELSE "graded"
             p == IF text \in st.flags THEN "idle" ELSE IF text = "final" THEN "send" ELSE "sayGraded"
  <2>1. pc[Rubric] \notin Marking /\ pc[Rubric] \in Holding
    BY <1>17 DEF Weigh, Marking, Holding
  <2>2. /\ pc' = [pc EXCEPT ![Rubric] = p] /\ snap' = [snap EXCEPT ![Rubric] = NoSnap]
        /\ UNCHANGED <<row, inputVars, sent, back>>
    BY <1>17 DEF Weigh
  <2>3. CASE p = "send"
    <3>1. FinalReady(st, answers) /\ Honest(st)
      BY <1>a, <2>1, <2>3 DEF Inv, AllHeld, HeldOK
    <3>2. landed /\ answers > 0
      BY <3>1 DEF FinalReady, Honest
    <3>3. QED
      BY <1>a, <1>g, <2>1, <2>2, <2>3, <3>2
  <2>4. CASE p # "send"
    <3>1. p \in Rest
      BY <2>4, <1>r
    <3> HIDE DEF p
    <3>2. QED
      BY <1>a, <1>e, <2>1, <2>2, <3>1
  <2>5. QED
    BY <2>3, <2>4
<1>18. CASE Regrade
  <2>1. pc[Rubric] \notin Marking /\ regrades' \in Nat
    BY <1>18, <1>a DEF Regrade, Marking, TypeOK
  <2>2. "grading" \in PCs /\ "grading" \notin Holding \cup Marking \cup {"send", "stage"}
    BY DEF PCs, Holding, Marking
  <2>3. QED
    BY <1>18, <1>a, <1>c, <2>1, <2>2, MoveStep DEF Regrade
<1>19. CASE Tick
  <2>1. TypeOK' /\ AllHeld'
    BY <1>19, <1>a DEF Tick, threadVars, TypeOK, Inv, AllHeld, HeldOK, Honest
  <2>2. QED
    BY <1>19, <2>1 DEF Tick, threadVars, Inv, Honest, SentIsMarked, MarkDue
<1>20. CASE Restart
  <2>1. TypeOK'
    <3>1. /\ pc' \in [Threads -> PCs] /\ snap' \in [Threads -> Rows \cup {NoSnap}]
          /\ back' \in [Threads -> {"idle", "check", "again", "end"}] /\ restarts' \in Nat
      BY <1>20, <1>a DEF Restart, TypeOK, PCs
    <3>2. QED
      BY <1>20, <1>a, <3>1 DEF Restart, TypeOK
  <2>2. AllHeld'
    BY <1>20 DEF Restart, AllHeld, HeldOK, Holding, Marking
  <2>3. Honest(row.st)' /\ SentIsMarked'
    <3>1. restarts' # 0
      BY <1>20, <1>a DEF Restart, TypeOK
    <3>2. QED
      BY <1>20, <3>1 DEF Restart, Inv, Honest, SentIsMarked
  <2>4. QED
    BY <2>1, <2>2, <2>3 DEF Inv
<1>21. CASE UNCHANGED vars
  BY <1>21 DEF vars, threadVars, Inv, TypeOK, Honest, AllHeld, HeldOK, SentIsMarked, MarkDue
<1>22. QED
  BY <1>1, <1>2, <1>3, <1>4, <1>5, <1>6, <1>7, <1>8, <1>9, <1>10, <1>11, <1>12, <1>13, <1>14, <1>15,
     <1>16, <1>17, <1>18, <1>19, <1>20, <1>21 DEF Next, Continue
-----------------------------------------------------------------------------
(* The theorems.                                                           *)

LEMMA InvAlways == Spec => []Inv
BY InvInit, InvNext, PTL DEF Spec

\* Every variable keeps its type.
THEOREM ReportsTyped == Spec => []TypeOK
<1>1. Inv => TypeOK
  BY DEF Inv
<1>2. QED
  BY <1>1, InvAlways, PTL

\* No flag and no stage of the row claims a text that was not sent, whatever stale states the
\* threads put back and wherever the instance restarts.
THEOREM FlagsSpeakTruth == Spec => []FlagsAreTrue
<1>1. Inv => FlagsAreTrue
  BY DEF Inv, Honest, FlagsAreTrue
<1>2. QED
  BY <1>1, InvAlways, PTL

\* In a text thread what was sent stays marked, or its mark is the next call of a thread.
THEOREM TextsStayMarked == Spec => []SentIsMarked
<1>1. Inv => SentIsMarked
  BY DEF Inv
<1>2. QED
  BY <1>1, InvAlways, PTL

\* The final report is sent only after the rubric has landed and somebody has answered.
THEOREM NoReportWithoutHumans == Spec => FinalHasHumans
<1>1. Inv /\ [Next]_vars => [sent'["final"] > sent["final"] => landed /\ answers > 0]_vars
  <2> SUFFICES ASSUME Inv, [Next]_vars, sent'["final"] > sent["final"] PROVE landed /\ answers > 0
    OBVIOUS
  <2>1. sent["final"] \in Nat /\ sent' # sent
    BY DEF Inv, TypeOK, Kinds
  <2>2. PICK t \in Threads : Say(t)
    BY <2>1 DEF Next, Continue, vars, Submit, HumansText, Read, CheckTimeout, Expire, Notify, OnHumansReady,
       OnHumansTimeout, Recount, Mark, Deliver, OnHumanAnswer, Settle, Land, OnReportReady, Weigh, Regrade,
       Tick, Restart
  <2>3. CASE pc[t] = "send"
    BY <2>3 DEF Inv, AllHeld, HeldOK
  <2>4. CASE pc[t] # "send"
    <3>1. TextAt(pc[t]) # "final"
      BY <2>2, <2>4 DEF Say, TextAt
    <3>2. sent'["final"] = sent["final"]
      BY <2>2, <3>1 DEF Say, Inv, TypeOK, Kinds
    <3>3. QED
      BY <2>1, <3>2
  <2>5. QED
    BY <2>3, <2>4
<1>2. QED
  BY <1>1, InvAlways, PTL DEF Spec, FinalHasHumans
=============================================================================
