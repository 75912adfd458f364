---------------------------- MODULE JudgingProofs ----------------------------
(***************************************************************************)
(* Safety of EvaluatorBatch and Judging for every rubric, panel, chain of  *)
(* providers, window size, price list and request.  First the evaluation:  *)
(* whatever is in a window, in the votes of a seat or cast is at home      *)
(* (BatchOK).  Then the arithmetic of a claim's row, which decides what    *)
(* the most disputed row says of the others, and the purchase (BuyOK).     *)
(* At last what was heard: every vote is what its seat was told (KeptOK),  *)
(* so that claims nobody disagreed on cost nothing (AgreedOK).             *)
(***************************************************************************)
EXTENDS Judging, FiniteSetTheorems, SequenceTheorems, WellFoundedInduction, TLAPS

LEMMA BatchFacts ==
  ASSUME NEW b \in DOMAIN Batches
  PROVE  /\ Batches[b] \in Seq(1..NClaims) /\ Len(Batches[b]) \in Nat \ {0}
         /\ Places(b) = 1..Len(Batches[b])
         /\ \A i \in Places(b) : Batches[b][i] \in 1..NClaims
         /\ Seats[b] \in Nat \ {0}
<1>1. Batches[b] \in Seq(1..NClaims)
  BY ClaimsAssumption
<1>2. Len(Batches[b]) \in Nat /\ Batches[b] \in [1..Len(Batches[b]) -> 1..NClaims]
  BY <1>1, LenProperties
<1>3. Len(Batches[b]) # 0
  BY <1>1, ClaimsAssumption, EmptySeq
<1>4. QED
  BY <1>1, <1>2, <1>3, PanelAssumption DEF Places

LEMMA FirstBatch == 1 \in DOMAIN Batches /\ Len(Batches) \in Nat /\ DOMAIN Batches = 1..Len(Batches)
<1>1. Batches \in Seq(Seq(1..NClaims)) /\ Batches # <<>>
  BY ClaimsAssumption
<1>2. QED
  BY <1>1, EmptySeq

LEMMA ChainFacts ==
  ASSUME NEW b \in DOMAIN Batches, NEW s \in 1..Seats[b]
  PROVE  1 \in 1..ChainOf(s) /\ ChainOf(s) \in Nat
<1>1. s \in Nat
  BY BatchFacts
<1>2. QED
  BY <1>1, PanelAssumption DEF ChainOf

-----------------------------------------------------------------------------
(* The evaluation.                                                         *)

\* An answer is empty or about the claim at place i of the batch.
Home(answer, i) == answer.of \in {0, Batches[batch][i]}

Closed == order = <<>> /\ window = <<>> /\ asked = <<>> /\ got = <<>> /\ prov = 1

WindowOK ==
  /\ order \in Seq(Places(batch)) /\ window \in Seq(Places(batch))
  /\ asked \in Seq(DOMAIN window) /\ prov \in 1..ChainOf(seat)
  /\ got \in [DOMAIN window -> Answers \cup {Missing}]
  /\ \A j \in DOMAIN window : Home(got[j], window[j])

OutOK == out \in [Places(batch) -> Answers] /\ \A i \in Places(batch) : Home(out[i], i)

VotesOK ==
  /\ votes \in [Places(batch) -> Seq(Answers)]
  /\ \A i \in Places(batch) : \A s \in DOMAIN votes[i] : Home(votes[i][s], i)

HeardOK == heard \subseteq Nat \X (1..NClaims) \X Sides

BatchOK ==
  /\ pc \in {"seat", "call", "cast", "batch", "done"}
  /\ batch \in DOMAIN Batches /\ seat \in 1..Seats[batch]
  /\ pc \in {"batch", "done"} => seat = 1
  /\ pc # "call" => Closed
  /\ WindowOK
  /\ pc \in {"call", "cast"} => OutOK
  /\ IF pc = "done" THEN votes = <<>> ELSE VotesOK
  /\ HeardOK

LEMMA Opens ==
  ASSUME batch \in DOMAIN Batches, seat \in 1..Seats[batch], UNCHANGED <<batch, seat>>,
         NEW ord \in Seq(Places(batch)), OpenWindow(ord)
  PROVE  WindowOK' /\ pc' = "call"
<1> DEFINE n == IF Len(ord) < MaxChunk THEN Len(ord) ELSE MaxChunk
<1>1. n \in 0..Len(ord) /\ Len(ord) \in Nat /\ \A i \in 1..Len(ord) : ord[i] \in Places(batch)
  BY PanelAssumption
<1>2. window' = SubSeq(ord, 1, n) /\ order' = SubSeq(ord, n + 1, Len(ord))
      /\ asked' = [k \in 1..n |-> k] /\ got' = [j \in 1..n |-> Missing] /\ prov' = 1 /\ pc' = "call"
  BY DEF OpenWindow
<1> HIDE DEF n
<1>3. window' \in Seq(Places(batch)) /\ Len(window') = n
  BY <1>1, <1>2, SubSeqProperties
<1>4. order' \in Seq(Places(batch))
  BY <1>1, <1>2, SubSeqProperties
<1>5. DOMAIN window' = 1..n
  BY <1>3, LenProperties
<1>6. asked' \in Seq(1..n)
  BY <1>1, <1>2
<1>7. prov' \in 1..ChainOf(seat)'
  <2>1. ChainOf(seat)' = ChainOf(seat)
    BY DEF ChainOf
  <2>2. QED
    BY <1>2, <2>1, ChainFacts
<1>8. got' \in [1..n -> Answers \cup {Missing}] /\ \A j \in 1..n : got'[j].of = 0
  BY <1>2 DEF Missing, Answer
<1>9. QED
  BY <1>2, <1>3, <1>4, <1>5, <1>6, <1>7, <1>8 DEF WindowOK, Home, Places

LEMMA Closes ==
  ASSUME batch \in DOMAIN Batches, seat \in 1..Seats[batch], UNCHANGED <<batch, seat>>,
         WindowOK, OutOK,
         NEW answers \in [DOMAIN window -> Answers \cup {Missing}],
         \A j \in DOMAIN window : Home(answers[j], window[j]),
         CloseWindow(answers)
  PROVE  WindowOK' /\ OutOK' /\ pc' \in {"call", "cast"} /\ (pc' # "call" => Closed')
<1> DEFINE Js(i) == {j \in DOMAIN window : window[j] = i /\ answers[j] # Missing}
           Vote(i) == IF Js(i) = {} THEN out[i] ELSE answers[CHOOSE j \in Js(i) : TRUE]
<1>1. OutOK'
  <2>1. DOMAIN out = Places(batch) /\ out' = [i \in DOMAIN out |-> Vote(i)]
    BY DEF CloseWindow, OutOK
  <2>2. ASSUME NEW i \in Places(batch) PROVE Vote(i) \in Answers /\ Home(Vote(i), i)
    <3>1. CASE Js(i) = {}
      BY <3>1 DEF OutOK
    <3>2. CASE Js(i) # {}
      <4> DEFINE j == CHOOSE j \in Js(i) : TRUE
      <4>1. j \in Js(i)
        BY <3>2
      <4>2. j \in DOMAIN window /\ window[j] = i /\ answers[j] # Missing
        BY <4>1
      <4>3. Vote(i) = answers[j]
        BY <3>2
      <4> HIDE DEF j, Vote, Js
      <4>4. QED
        BY <4>2, <4>3
    <3>3. QED
      BY <3>1, <3>2
  <2> HIDE DEF Vote
  <2>3. out' \in [Places(batch) -> Answers] /\ \A i \in Places(batch) : Home(out'[i], i)
    BY <2>1, <2>2
  <2>4. QED
    BY <2>3 DEF OutOK, Home, Places
<1>2. CASE order # <<>>
  <2>1. OpenWindow(order) /\ order \in Seq(Places(batch))
    BY <1>2 DEF CloseWindow, WindowOK
  <2>2. QED
    BY <1>1, <2>1, Opens
<1>3. CASE order = <<>>
  <2>1. Closed' /\ pc' = "cast"
    BY <1>3 DEF CloseWindow, Closed
  <2>2. 1 \in 1..ChainOf(seat)'
    <3>1. ChainOf(seat)' = ChainOf(seat)
      BY DEF ChainOf
    <3>2. QED
      BY <3>1, ChainFacts
  <2>3. WindowOK'
    BY <2>1, <2>2 DEF Closed, WindowOK
  <2>4. QED
    BY <1>1, <2>1, <2>3
<1>4. QED
  BY <1>2, <1>3

LEMMA PromptFacts ==
  ASSUME batch \in DOMAIN Batches, WindowOK, NEW k \in DOMAIN asked
  PROVE  /\ asked[k] \in DOMAIN window /\ window[asked[k]] \in Places(batch)
         /\ Prompt(k) \in 1..NClaims /\ Prompt(k) = Batches[batch][window[asked[k]]]
<1>1. asked[k] \in DOMAIN window
  BY LenProperties, ElementOfSeq DEF WindowOK
<1>2. window[asked[k]] \in Places(batch)
  BY <1>1, LenProperties, ElementOfSeq DEF WindowOK
<1>3. QED
  BY <1>1, <1>2, BatchFacts DEF Prompt

\* A reply is filed where it belongs.
LEMMA FiledFacts ==
  ASSUME batch \in DOMAIN Batches, WindowOK, NEW said \in Replies
  PROVE  /\ Filed(said) \in [DOMAIN window -> Answers \cup {Missing}]
         /\ \A j \in DOMAIN window : Home(Filed(said)[j], window[j])
<1> DEFINE Ks(j) == {k \in DOMAIN asked : asked[k] = j /\ said[k] # "none"}
           File(j) == IF Ks(j) = {} THEN got[j]
                      ELSE LET k == CHOOSE k \in Ks(j) : TRUE IN Answer(said[k], Prompt(k))
<1>1. DOMAIN got = DOMAIN window /\ Filed(said) = [j \in DOMAIN got |-> File(j)]
  BY DEF WindowOK, Filed
<1>2. ASSUME NEW j \in DOMAIN window
      PROVE  File(j) \in Answers \cup {Missing} /\ Home(File(j), window[j])
  <2>1. CASE Ks(j) = {}
    BY <2>1 DEF WindowOK
  <2>2. CASE Ks(j) # {}
    <3> DEFINE k == CHOOSE k \in Ks(j) : TRUE
    <3>1. k \in Ks(j)
      BY <2>2
    <3>2. k \in DOMAIN asked /\ asked[k] = j /\ said[k] # "none"
      BY <3>1
    <3>3. File(j) = Answer(said[k], Prompt(k))
      BY <2>2
    <3> HIDE DEF k, File, Ks
    <3>4. said[k] \in Sides
      BY <3>2 DEF Replies
    <3>5. Prompt(k) \in 1..NClaims /\ Prompt(k) = Batches[batch][window[j]]
      BY <3>2, PromptFacts
    <3>6. NClaims \in Nat
      BY ClaimsAssumption
    <3>7. QED
      BY <3>3, <3>4, <3>5, <3>6 DEF Answer, Answers, Home
  <2>3. QED
    BY <2>1, <2>2
<1> HIDE DEF File
<1>3. QED
  BY <1>1, <1>2

LEMMA HearFacts ==
  ASSUME batch \in DOMAIN Batches, seat \in 1..Seats[batch], WindowOK, HeardOK,
         NEW said \in Replies, Hear(said)
  PROVE  HeardOK'
<1>1. ASSUME NEW k \in DOMAIN asked, said[k] # "none"
      PROVE  <<seat, Prompt(k), said[k]>> \in Nat \X (1..NClaims) \X Sides
  <2>1. said[k] \in Sides
    BY <1>1 DEF Replies
  <2>2. Prompt(k) \in 1..NClaims /\ seat \in Nat
    BY PromptFacts, BatchFacts
  <2>3. QED
    BY <2>1, <2>2
<1>2. QED
  BY <1>1 DEF Hear, HeardOK

LEMMA BatchInit == Init => BatchOK
<1> SUFFICES ASSUME Init PROVE BatchOK
  OBVIOUS
<1>1. 1 \in DOMAIN Batches /\ 1 \in 1..Seats[1] /\ 1 \in 1..ChainOf(1)
  BY FirstBatch, BatchFacts, ChainFacts
<1>2. WindowOK /\ Closed
  BY <1>1 DEF Init, WindowOK, Closed
<1>3. VotesOK
  BY DEF Init, VotesOK
<1>4. QED
  BY <1>1, <1>2, <1>3 DEF Init, BatchOK, HeardOK

LEMMA ShuffleStep == ASSUME BatchOK, Shuffle PROVE BatchOK'
<1>1. pc = "seat" /\ UNCHANGED <<batch, seat, votes, heard>>
  BY DEF Shuffle
<1>2. batch \in DOMAIN Batches /\ seat \in 1..Seats[batch]
  BY DEF BatchOK
<1>3. PICK ord \in Orders(Len(Batches[batch])) : OpenWindow(ord)
  BY DEF Shuffle
<1>4. ord \in Seq(Places(batch))
  BY <1>2, BatchFacts DEF Orders
<1>5. WindowOK' /\ pc' = "call"
  BY <1>1, <1>2, <1>3, <1>4, Opens
<1>6. OutOK'
  <2>1. out' = [i \in Places(batch) |-> NoAnswer] /\ NoAnswer \in Answers /\ NoAnswer.of = 0
    BY ClaimsAssumption DEF Shuffle, NoAnswer, Answer, Answers, Sides
  <2>2. QED
    BY <1>1, <2>1 DEF OutOK, Home, Places
<1>7. VotesOK' /\ HeardOK'
  BY <1>1 DEF BatchOK, VotesOK, HeardOK, Home, Places
<1>8. QED
  BY <1>1, <1>2, <1>5, <1>6, <1>7 DEF BatchOK

\* A call that closes its window.
LEMMA CloseStep ==
  ASSUME BatchOK, pc = "call", UNCHANGED <<batch, seat, votes>>, HeardOK',
         NEW answers \in [DOMAIN window -> Answers \cup {Missing}],
         \A j \in DOMAIN window : Home(answers[j], window[j]),
         CloseWindow(answers)
  PROVE  BatchOK'
<1>1. batch \in DOMAIN Batches /\ seat \in 1..Seats[batch] /\ WindowOK /\ OutOK
  BY DEF BatchOK
<1>2. WindowOK' /\ OutOK' /\ pc' \in {"call", "cast"} /\ (pc' # "call" => Closed')
  BY <1>1, Closes
<1>3. VotesOK'
  BY DEF BatchOK, VotesOK, Home, Places
<1>4. QED
  BY <1>1, <1>2, <1>3 DEF BatchOK

LEMMA RaiseStep == ASSUME BatchOK, Raise PROVE BatchOK'
<1>1. pc = "call" /\ UNCHANGED <<batch, seat, votes, heard>>
  BY DEF Raise
<1>2. HeardOK'
  BY <1>1 DEF BatchOK, HeardOK
<1>3. CASE prov < ChainOf(seat)
  <2>1. prov' = prov + 1 /\ UNCHANGED <<pc, order, window, asked, got, out>>
    BY <1>3 DEF Raise
  <2>2. ChainOf(seat)' = ChainOf(seat) /\ ChainOf(seat) \in Nat
    BY <1>1, ChainFacts DEF BatchOK, ChainOf
  <2>3. prov' \in 1..ChainOf(seat)'
    BY <1>3, <2>1, <2>2 DEF BatchOK, WindowOK
  <2>4. WindowOK'
    BY <1>1, <2>1, <2>3 DEF BatchOK, WindowOK, Home, Places
  <2>5. OutOK' /\ VotesOK'
    BY <1>1, <2>1 DEF BatchOK, OutOK, VotesOK, Home, Places
  <2>6. QED
    BY <1>1, <1>2, <2>1, <2>4, <2>5 DEF BatchOK
<1>4. CASE ~(prov < ChainOf(seat))
  <2>1. CloseWindow(got)
    BY <1>4 DEF Raise
  <2>2. got \in [DOMAIN window -> Answers \cup {Missing}]
        /\ \A j \in DOMAIN window : Home(got[j], window[j])
    BY DEF BatchOK, WindowOK
  <2>3. QED
    BY <1>1, <1>2, <2>1, <2>2, CloseStep
<1>5. QED
  BY <1>3, <1>4

LEMMA ReplyStep == ASSUME BatchOK, Reply PROVE BatchOK'
<1>1. pc = "call" /\ UNCHANGED <<batch, seat, votes>>
  BY DEF Reply
<1>2. PICK said \in Replies : Hear(said) /\ CloseWindow(Filed(said))
  BY DEF Reply
<1>3. batch \in DOMAIN Batches /\ seat \in 1..Seats[batch] /\ WindowOK /\ HeardOK
  BY DEF BatchOK
<1>4. HeardOK'
  BY <1>2, <1>3, HearFacts
<1>5. /\ Filed(said) \in [DOMAIN window -> Answers \cup {Missing}]
      /\ \A j \in DOMAIN window : Home(Filed(said)[j], window[j])
  BY <1>2, <1>3, FiledFacts
<1>6. QED
  BY <1>1, <1>2, <1>4, <1>5, CloseStep

LEMMA ShortReplyStep == ASSUME BatchOK, ShortReply PROVE BatchOK'
<1>1. pc = "call" /\ prov' = 1 /\ UNCHANGED <<pc, order, window, out, batch, seat, votes>>
  BY DEF ShortReply
<1>2. PICK said \in Replies :
        /\ Hear(said) /\ got' = Filed(said)
        /\ LET rest == Unanswered(Filed(said))
           IN  asked' \in [1..Cardinality(rest) -> rest]
  BY DEF ShortReply
<1>3. batch \in DOMAIN Batches /\ seat \in 1..Seats[batch] /\ WindowOK /\ HeardOK
  BY DEF BatchOK
<1>4. HeardOK'
  BY <1>2, <1>3, HearFacts
<1>5. /\ Filed(said) \in [DOMAIN window -> Answers \cup {Missing}]
      /\ \A j \in DOMAIN window : Home(Filed(said)[j], window[j])
  BY <1>2, <1>3, FiledFacts
<1>6. asked' \in Seq(DOMAIN window)
  <2> DEFINE rest == Unanswered(Filed(said))
  <2>1. rest \subseteq DOMAIN window
    BY <1>5 DEF Unanswered
  <2>2. IsFiniteSet(DOMAIN window)
    <3>1. DOMAIN window = 1..Len(window) /\ Len(window) \in Nat
      BY <1>3, LenProperties DEF WindowOK
    <3>2. QED
      BY <3>1, FS_Interval
  <2>3. Cardinality(rest) \in Nat
    BY <2>1, <2>2, FS_Subset, FS_CardinalityType
  <2>4. asked' \in [1..Cardinality(rest) -> DOMAIN window]
    BY <1>2, <2>1
  <2>5. QED
    BY <2>3, <2>4, SeqDef
<1>7. WindowOK'
  <2>1. prov' \in 1..ChainOf(seat)'
    <3>1. ChainOf(seat)' = ChainOf(seat)
      BY <1>1 DEF ChainOf
    <3>2. QED
      BY <1>1, <1>3, <3>1, ChainFacts
  <2>2. QED
    BY <1>1, <1>2, <1>3, <1>5, <1>6, <2>1 DEF WindowOK, Home, Places
<1>8. OutOK' /\ VotesOK'
  BY <1>1 DEF BatchOK, OutOK, VotesOK, Home, Places
<1>9. QED
  BY <1>1, <1>3, <1>4, <1>7, <1>8 DEF BatchOK

LEMMA CastStep == ASSUME BatchOK, Cast PROVE BatchOK'
<1>1. pc = "cast" /\ UNCHANGED <<batch, callVars, heard>> /\ pc' \in {"seat", "batch"}
  BY DEF Cast
<1>2. batch \in DOMAIN Batches /\ seat \in 1..Seats[batch] /\ Closed /\ OutOK /\ VotesOK
  BY <1>1 DEF BatchOK
<1>3. seat' \in 1..Seats[batch'] /\ (pc' = "batch" => seat' = 1)
  BY <1>1, <1>2, BatchFacts DEF Cast
<1>4. Closed' /\ WindowOK'
  <2>1. Closed'
    BY <1>1, <1>2 DEF Closed, callVars
  <2>2. prov' \in 1..ChainOf(seat)'
    <3>1. 1 \in 1..ChainOf(seat')
      BY <1>1, <1>2, <1>3, ChainFacts
    <3>2. ChainOf(seat)' = ChainOf(seat') /\ prov' = 1
      BY <2>1 DEF ChainOf, Closed
    <3>3. QED
      BY <3>1, <3>2
  <2>3. QED
    BY <2>1, <2>2 DEF Closed, WindowOK
<1>5. VotesOK'
  <2>1. votes' = [i \in Places(batch) |-> Append(votes[i], out[i])]
    BY <1>2 DEF Cast, VotesOK
  <2>2. ASSUME NEW i \in Places(batch)
        PROVE  /\ votes'[i] \in Seq(Answers)
               /\ \A s \in DOMAIN votes'[i] : Home(votes'[i][s], i)
    <3>1. votes[i] \in Seq(Answers) /\ out[i] \in Answers /\ Home(out[i], i)
      BY <1>2 DEF VotesOK, OutOK
    <3>2. votes'[i] = Append(votes[i], out[i])
      BY <2>1
    <3>3. /\ votes'[i] \in Seq(Answers) /\ Len(votes'[i]) = Len(votes[i]) + 1
          /\ \A s \in 1..Len(votes[i]) : votes'[i][s] = votes[i][s]
          /\ votes'[i][Len(votes[i]) + 1] = out[i]
      BY <3>1, <3>2, AppendProperties
    <3>4. DOMAIN votes'[i] = 1..Len(votes'[i]) /\ DOMAIN votes[i] = 1..Len(votes[i])
          /\ Len(votes[i]) \in Nat
      BY <3>1, <3>3, LenProperties
    <3>5. ASSUME NEW s \in DOMAIN votes'[i] PROVE Home(votes'[i][s], i)
      <4>1. s \in 1..Len(votes[i]) \/ s = Len(votes[i]) + 1
        BY <3>3, <3>4
      <4>2. QED
        BY <1>2, <3>1, <3>3, <3>4, <4>1 DEF VotesOK
    <3>6. QED
      BY <3>3, <3>5
  <2>3. QED
    BY <1>1, <2>1, <2>2 DEF VotesOK, Home, Places
<1>6. QED
  BY <1>1, <1>2, <1>3, <1>4, <1>5 DEF BatchOK, HeardOK

LEMMA NextBatchStep == ASSUME BatchOK, NextBatch PROVE BatchOK'
<1>1. pc = "batch" /\ heard' = {} /\ UNCHANGED <<seat, callVars, out>>
  BY DEF NextBatch
<1>2. batch \in DOMAIN Batches /\ Closed /\ seat \in 1..Seats[batch]
  BY <1>1 DEF BatchOK
<1>3. seat' = 1 /\ Closed'
  BY <1>1, <1>2 DEF BatchOK, Closed, callVars
<1>4. batch' \in DOMAIN Batches /\ pc' \in {"seat", "done"}
  <2>1. batch \in Nat /\ DOMAIN Batches = 1..Len(Batches) /\ Len(Batches) \in Nat
    BY <1>2, FirstBatch
  <2>2. QED
    BY <1>2, <2>1 DEF NextBatch
<1>5. 1 \in 1..Seats[batch'] /\ 1 \in 1..ChainOf(seat)'
  <2>1. 1 \in 1..Seats[batch']
    BY <1>4, BatchFacts
  <2>2. ChainOf(seat)' = ChainOf(seat')
    BY DEF ChainOf
  <2>3. QED
    BY <1>3, <1>4, <2>1, <2>2, ChainFacts
<1>6. WindowOK'
  BY <1>3, <1>5 DEF Closed, WindowOK
<1>7. IF pc' = "done" THEN votes' = <<>> ELSE VotesOK'
  <2>1. CASE batch < Len(Batches)
    <3>1. pc' = "seat" /\ votes' = [i \in Places(batch') |-> <<>>]
      BY <2>1 DEF NextBatch
    <3>2. QED
      BY <3>1 DEF VotesOK, Places
  <2>2. CASE ~(batch < Len(Batches))
    BY <2>2 DEF NextBatch
  <2>3. QED
    BY <2>1, <2>2
<1>8. QED
  BY <1>1, <1>3, <1>4, <1>5, <1>6, <1>7 DEF BatchOK, HeardOK

LEMMA BatchStutter == ASSUME BatchOK, UNCHANGED batchVars PROVE BatchOK'
  BY DEF BatchOK, batchVars, callVars, Closed, WindowOK, OutOK, VotesOK, HeardOK, Home, Places, ChainOf

LEMMA JudgeStep == ASSUME BatchOK, Judge PROVE BatchOK'
  BY ShuffleStep, RaiseStep, ReplyStep, ShortReplyStep, CastStep DEF Judge

LEMMA JNextKeepsBatch == ASSUME BatchOK, [JNext]_vars PROVE BatchOK'
<1>1. CASE Judge
  BY <1>1, JudgeStep
<1>2. CASE Row
  BY <1>2, NextBatchStep DEF Row
<1>3. CASE Route \/ Gate \/ Launch \/ UNCHANGED vars
  BY <1>3, BatchStutter DEF Route, Gate, Launch, vars
<1>4. QED
  BY <1>1, <1>2, <1>3 DEF JNext

\* AnswersStayHome: no vote on a claim was given on another one, whatever shuffles, windows,
\* failures and repairs it went through.
THEOREM VotesStayHome == Spec => []AnswersStayHome
<1>1. JInit => BatchOK
  BY BatchInit DEF JInit
<1>2. BatchOK /\ [JNext]_vars => BatchOK'
  BY JNextKeepsBatch
<1>3. BatchOK => AnswersStayHome
  <2>1. CASE pc = "done"
    BY <2>1 DEF BatchOK, AnswersStayHome
  <2>2. CASE pc # "done"
    BY <2>2 DEF BatchOK, VotesOK, Home, AnswersStayHome
  <2>3. QED
    BY <2>1, <2>2
<1>4. QED
  BY <1>1, <1>2, <1>3, PTL DEF Spec

-----------------------------------------------------------------------------
(* A claim's row.                                                          *)

LEMMA DivFacts ==
  ASSUME NEW a \in Nat, NEW b \in Nat \ {0}
  PROVE  /\ a \div b \in Nat
         /\ \A u \in Nat : a <= u * b => a \div b <= u
         /\ b <= a => a \div b >= 1
<1>1. a \div b \in Nat /\ a = (b * (a \div b)) + (a % b) /\ a % b \in 0..(b - 1)
  OBVIOUS
<1> DEFINE q == a \div b  r == a % b
<1> HIDE DEF q, r
<1>2. q \in Nat /\ a = b * q + r /\ r \in 0..(b - 1)
  BY <1>1 DEF q, r
<1>3. ASSUME NEW u \in Nat, a <= u * b PROVE q <= u
  <2>1. SUFFICES ASSUME q >= u + 1 PROVE FALSE
    BY <1>2
  <2>2. b * q >= b * (u + 1)
    BY <1>2, <2>1
  <2>3. b * (u + 1) = u * b + b
    OBVIOUS
  <2>4. b * q \in Nat /\ u * b \in Nat
    BY <1>2
  <2>5. QED
    BY <1>2, <1>3, <2>2, <2>3, <2>4
<1>4. ASSUME b <= a PROVE q >= 1
  <2>1. CASE q = 0
    BY <1>2, <1>4, <2>1
  <2>2. QED
    BY <1>2, <2>1
<1>5. QED
  BY <1>2, <1>3, <1>4 DEF q

LEMMA HalfFacts ==
  /\ Unit \in Nat \ {0} /\ Unit \div 2 \in 1..Unit /\ Unit = 2 * (Unit \div 2)
  BY UnitAssumption

LEMMA CountFacts ==
  ASSUME NEW vs \in Seq(Answers), NEW side
  PROVE  Count(vs, side) \in Nat
<1>1. DOMAIN vs = 1..Len(vs) /\ Len(vs) \in Nat
  BY LenProperties
<1>2. IsFiniteSet(DOMAIN vs)
  BY <1>1, FS_Interval
<1>3. IsFiniteSet({k \in DOMAIN vs : vs[k].side = side})
  BY <1>2, FS_Subset
<1>4. QED
  BY <1>3, FS_CardinalityType DEF Count

RowRecords == [side : Sides \cup {"unknown"}, judged : BOOLEAN, dissent : 0..Unit,
               voices : SUBSET {"yes", "no"}, p : {0, Unit \div 2, Unit}]

\* What Decide relies on: a side is backed by some agreement, no side means full dissent, and
\* only an unjudged claim has neither.
RowOK(r) ==
  /\ r \in RowRecords
  /\ r.judged => \/ r.p \in {0, Unit} /\ r.dissent < Unit
                 \/ r.p = Unit \div 2 /\ r.dissent = Unit
  /\ ~r.judged => r.p = Unit \div 2 /\ r.dissent = 0

LEMMA AgreementFacts ==
  ASSUME NEW vs \in Seq(Answers)
  PROVE  /\ Agreement(vs) \in 0..Unit
         /\ Side(vs) # "skip" => Agreement(vs) >= 1
         /\ Side(vs) = "skip" => Agreement(vs) <= Unit \div 2
<1> DEFINE y == Count(vs, "yes")  n == Count(vs, "no")  top == Larger(y, n)
<1>1. y \in Nat /\ n \in Nat
  BY CountFacts
<1> HIDE DEF y, n
<1>2. /\ Side(vs) = (IF y > n THEN "yes" ELSE IF n > y THEN "no" ELSE "skip")
      /\ Agreement(vs) = (IF y + n = 0 THEN 0 ELSE (Unit * top) \div (y + n))
  BY DEF y, n, Side, Agreement
<1>3. top \in Nat /\ top <= y + n /\ (y # n => 2 * top > y + n) /\ (y = n => 2 * top = y + n)
  BY <1>1 DEF Larger
<1> HIDE DEF top
<1>4. CASE y + n = 0
  BY <1>1, <1>2, <1>4, HalfFacts
<1>5. CASE y + n # 0
  <2> DEFINE b == y + n  a == Unit * top  h == Unit \div 2
  <2>1. b \in Nat \ {0} /\ a \in Nat /\ Unit \in Nat \ {0} /\ h \in 1..Unit /\ Unit = 2 * h
    BY <1>1, <1>3, <1>5, HalfFacts
  <2>2. a <= Unit * b
    BY <1>3, <2>1
  <2>3. a = h * (2 * top)
    BY <1>3, <2>1
  <2> HIDE DEF h
  <2>4. y # n => b <= a
    <3>1. SUFFICES ASSUME y # n PROVE b <= a
      OBVIOUS
    <3>2. 2 * top \in Nat /\ 2 * top > b
      BY <1>3, <3>1
    <3>3. h * (2 * top) >= 2 * top
      BY <2>1, <3>2
    <3>4. QED
      BY <2>1, <2>3, <3>2, <3>3
  <2>5. y = n => a <= h * b
    <3>1. SUFFICES ASSUME y = n PROVE a = h * b /\ h * b \in Nat
      OBVIOUS
    <3>2. 2 * top = b
      BY <1>3, <3>1
    <3>3. QED
      BY <2>1, <2>3, <3>2
  <2>6. Agreement(vs) = a \div b
    BY <1>2, <1>5
  <2> HIDE DEF a, b
  <2>7. a \div b \in Nat /\ a \div b <= Unit /\ (y # n => a \div b >= 1) /\ (y = n => a \div b <= h)
    BY <2>1, <2>2, <2>4, <2>5, DivFacts
  <2>8. QED
    BY <1>1, <1>2, <2>1, <2>6, <2>7 DEF h
<1>6. QED
  BY <1>4, <1>5

LEMMA ClaimRowOK ==
  ASSUME NEW vs \in Seq(Answers), NEW voices \in SUBSET {"yes", "no"}
  PROVE  RowOK(ClaimRow(vs, voices))
<1>1. /\ Agreement(vs) \in 0..Unit
      /\ Side(vs) # "skip" => Agreement(vs) >= 1
      /\ Side(vs) = "skip" => Agreement(vs) <= Unit \div 2
  BY AgreementFacts
<1>2. Side(vs) \in Sides
  BY DEF Side, Sides
<1>3. /\ Dissent(vs) \in 0..Unit
      /\ Side(vs) # "skip" => Dissent(vs) < Unit
      /\ Side(vs) = "skip" => Dissent(vs) = Unit
  <2> DEFINE g == Agreement(vs)  h == Unit \div 2
             d == (Unit - g) + (IF Side(vs) = "skip" THEN h ELSE 0)
  <2>1. Dissent(vs) = IF d > Unit THEN Unit ELSE d
    BY DEF Dissent
  <2>2. g \in 0..Unit /\ Unit \in Nat /\ h \in 1..Unit
        /\ (Side(vs) # "skip" => g >= 1) /\ (Side(vs) = "skip" => g <= h)
    BY <1>1, HalfFacts
  <2> HIDE DEF g, h
  <2>3. QED
    BY <2>1, <2>2
<1>4. QED
  BY <1>2, <1>3, HalfFacts DEF RowOK, ClaimRow, Sides, RowRecords

-----------------------------------------------------------------------------
(* The gate.                                                               *)

LEMMA FirstGreatest ==
  ASSUME NEW f \in [1..4 -> Int], NEW ks \in SUBSET (1..4), ks # {}
  PROVE  \E k \in ks : \A j \in ks : f[j] < f[k] \/ (f[j] = f[k] /\ k <= j)
<1> DEFINE Greatest(n) ==
      \E k \in ks \cap 1..n : \A j \in ks \cap 1..n : f[j] < f[k] \/ (f[j] = f[k] /\ k <= j)
<1>1. ks \cap 1..1 = {} \/ Greatest(1)
  OBVIOUS
<1>2. ks \cap 1..2 = {} \/ Greatest(2)
  BY <1>1
<1>3. ks \cap 1..3 = {} \/ Greatest(3)
  BY <1>2
<1>4. ks \cap 1..4 = {} \/ Greatest(4)
  BY <1>3
<1>5. QED
  BY <1>4

NormalRequest ==
  [standard : Standards, stake : Nat, budget : Nat, deadline : Nat \cup {NoDeadline}]

LEMMA ArmFacts ==
  /\ DOMAIN DefaultArms = 1..4 /\ \A k \in 1..4 : DefaultArms[k] \in ArmNames
  /\ \A a \in ArmNames : Price[a] \in Nat /\ Latency[a] \in Nat /\ PriorGain[a] \in 0..100
  BY ArmsAssumption DEF DefaultArms, ArmNames

LEMMA WrongFacts ==
  ASSUME NEW p \in {0, Unit \div 2, Unit}, NEW d \in 0..Unit
  PROVE  /\ WrongWithout(p, d) \in Nat
         /\ p \in {0, Unit} => WrongWithout(p, d) = d * Unit
         /\ p = Unit \div 2 => WrongWithout(p, d) = 2 * Unit * Unit
<1>1. Unit \in Nat \ {0} /\ Unit = 2 * (Unit \div 2) /\ Unit \div 2 \in Nat /\ d \in Nat
  BY HalfFacts
<1>2. CASE p \in {0, Unit}
  <2>1. Unit - Larger(p, Unit - p) = 0
    BY <1>1, <1>2 DEF Larger
  <2>2. WrongWithout(p, d) = 4 * Unit * 0 + d * (Unit - 2 * 0)
    BY <2>1 DEF WrongWithout
  <2>3. d * Unit \in Nat
    BY <1>1
  <2>4. Unit # Unit \div 2 /\ 0 # Unit \div 2
    BY <1>1
  <2>5. QED
    BY <1>1, <1>2, <2>2, <2>3, <2>4
<1>3. CASE p = Unit \div 2
  <2> DEFINE h == Unit \div 2
  <2>1. Unit - Larger(p, Unit - p) = h
    BY <1>1, <1>3 DEF Larger
  <2>2. WrongWithout(p, d) = 4 * Unit * h + d * (Unit - 2 * h)
    BY <2>1 DEF WrongWithout
  <2>3. Unit = 2 * h /\ h \in Nat
    BY <1>1
  <2> HIDE DEF h
  <2>4. d * (Unit - 2 * h) = 0
    BY <1>1, <2>3
  <2>5. 4 * Unit * h = 2 * Unit * (2 * h)
    BY <1>1, <2>3
  <2>6. WrongWithout(p, d) = 2 * Unit * Unit /\ 2 * Unit * Unit \in Nat
    BY <1>1, <2>2, <2>3, <2>4, <2>5
  <2>7. p \notin {0, Unit}
    BY <1>1, <1>3
  <2>8. QED
    BY <1>3, <2>6, <2>7
<1>4. QED
  BY <1>2, <1>3

LEMMA NetFacts ==
  ASSUME NEW a \in ArmNames, NEW pw \in Nat, NEW stake \in Nat, NEW g \in [ArmNames -> 0..100]
  PROVE  /\ Net(a, pw, stake, g) \in Int
         /\ \A lower \in Nat : lower <= pw => Net(a, lower, stake, g) <= Net(a, pw, stake, g)
<1> DEFINE x == g[a] * stake  c == (Price[a] + MarginCents) * Whole
<1>1. g[a] \in Nat /\ x \in Nat /\ c \in Int
  BY ArmFacts, HalfFacts DEF MarginCents, Whole
<1>2. \A n \in Nat : Net(a, n, stake, g) = n * x - c
  <2>1. \A n \in Nat : n * g[a] * stake = n * (g[a] * stake)
    BY <1>1
  <2>2. QED
    BY <2>1 DEF Net
<1> HIDE DEF x, c
<1>3. \A n \in Nat : n * x \in Nat
  BY <1>1
<1>4. \A lower \in Nat : lower <= pw => lower * x <= pw * x
  BY <1>1
<1>5. QED
  BY <1>1, <1>2, <1>3, <1>4

\* The arm that is picked is affordable and in time, and no affordable one is worth more.
LEMMA BestFacts ==
  ASSUME NEW req \in NormalRequest, NEW pw \in Nat, NEW g \in [ArmNames -> 0..100],
         Affordable(req) # {}
  PROVE  LET best == BestOf(Affordable(req), pw, req, g)
         IN  /\ best \in Affordable(req) /\ best \in 1..4
             /\ \A j \in Affordable(req) :
                  Net(DefaultArms[j], pw, req.stake, g) <= Net(DefaultArms[best], pw, req.stake, g)
<1> DEFINE ks == Affordable(req)
           f == [k \in 1..4 |-> Net(DefaultArms[k], pw, req.stake, g)]
           First(k) == \A j \in ks : f[j] < f[k] \/ (f[j] = f[k] /\ k <= j)
<1>1. ks \in SUBSET (1..4)
  BY ArmFacts DEF Affordable
<1>2. f \in [1..4 -> Int]
  BY ArmFacts, NetFacts DEF NormalRequest
<1>3. \A k \in 1..4 : f[k] = Net(DefaultArms[k], pw, req.stake, g)
  OBVIOUS
<1> HIDE DEF f, ks
<1>4. \E k \in ks : First(k)
  BY <1>1, <1>2, FirstGreatest DEF ks
<1>5. BestOf(ks, pw, req, g) = CHOOSE k \in ks : First(k)
  BY <1>1, <1>3 DEF BestOf
<1>6. BestOf(ks, pw, req, g) \in ks /\ First(BestOf(ks, pw, req, g))
  BY <1>4, <1>5
<1>7. QED
  BY <1>1, <1>2, <1>3, <1>6 DEF ks

\* What is bought by the gate is an arm that is affordable and in time.
LEMMA DecideFacts ==
  ASSUME NEW row, RowOK(row), NEW req \in NormalRequest, NEW g \in [ArmNames -> 0..100]
  PROVE  /\ Decide(row, req, g) \in Decisions
         /\ Decide(row, req, g).buy =>
              /\ Decide(row, req, g).arm \in ArmNames
              /\ InTime(Decide(row, req, g).arm, req.deadline)
<1> DEFINE pw == WrongWithout(row.p, row.dissent)
           best == BestOf(Affordable(req), pw, req, g)
<1>1. pw \in Nat
  BY WrongFacts DEF RowOK, RowRecords
<1> HIDE DEF pw
<1>2. Decide(row, req, g) = NoBuy \/
        (Affordable(req) # {} /\ Decide(row, req, g) = Buy(DefaultArms[best]))
  BY DEF Decide, pw
<1>3. NoBuy \in Decisions /\ ~NoBuy.buy
  BY DEF NoBuy, Decisions
<1>4. \A a \in ArmNames : Buy(a) \in Decisions /\ Buy(a).arm = a
  BY DEF Buy, Decisions
<1>5. CASE Decide(row, req, g) = NoBuy
  BY <1>3, <1>5
<1>6. CASE Affordable(req) # {} /\ Decide(row, req, g) = Buy(DefaultArms[best])
  <2>1. best \in Affordable(req) /\ best \in 1..4
    BY <1>1, <1>6, BestFacts
  <2>2. DefaultArms[best] \in ArmNames /\ InTime(DefaultArms[best], req.deadline)
    BY <2>1, ArmFacts DEF Affordable
  <2> HIDE DEF best
  <2>3. QED
    BY <1>4, <1>6, <2>2
<1>7. QED
  BY <1>2, <1>5, <1>6

\* A judged claim whose dissent is not greater buys nothing where this one does not.
LEMMA LessDissentBuysLess ==
  ASSUME NEW w, RowOK(w), NEW r, RowOK(r), r.judged, r.dissent <= w.dissent,
         NEW req \in NormalRequest, NEW g \in [ArmNames -> 0..100],
         ~Decide(w, req, g).buy
  PROVE  ~Decide(r, req, g).buy
<1> DEFINE pw == WrongWithout(w.p, w.dissent)  pr == WrongWithout(r.p, r.dissent)
<1>0. Unit \in Nat \ {0} /\ w.dissent \in 0..Unit /\ r.dissent \in 0..Unit
  BY HalfFacts DEF RowOK, RowRecords
<1>1. pw \in Nat /\ pr \in Nat
  BY WrongFacts DEF RowOK, RowRecords
<1>2. CASE w.dissent = 0
  <2>1. r.dissent = 0 /\ r.p \in {0, Unit}
    BY <1>0, <1>2 DEF RowOK, RowRecords
  <2>2. pr = 0
    <3>1. pr = r.dissent * Unit
      BY <1>0, <2>1, WrongFacts
    <3>2. QED
      BY <1>0, <2>1, <3>1
  <2>3. BelowFloor(pr)
    <3>1. 45 * Whole \in Nat
      BY <1>0 DEF Whole
    <3>2. QED
      BY <2>2, <3>1 DEF BelowFloor
  <2>4. QED
    BY <2>1, <2>3 DEF Decide, NoBuy
<1>3. CASE w.dissent # 0
  <2>1. w.judged
    BY <1>3 DEF RowOK, RowRecords
  <2>2. pr <= pw
    <3>1. CASE r.p \in {0, Unit} /\ w.p \in {0, Unit}
      <4>1. pr = r.dissent * Unit /\ pw = w.dissent * Unit
        BY <1>0, <3>1, WrongFacts DEF RowOK, RowRecords
      <4>2. r.dissent * Unit <= w.dissent * Unit
        <5>1. \A a, b, u \in Nat : a <= b => a * u <= b * u
          OBVIOUS
        <5>2. r.dissent \in Nat /\ w.dissent \in Nat /\ Unit \in Nat
          BY <1>0
        <5>3. QED
          BY <5>1, <5>2
      <4> HIDE DEF pw, pr
      <4>3. QED
        BY <4>1, <4>2
    <3>2. CASE w.p = Unit \div 2
      <4>1. pw = 2 * Unit * Unit
        BY <3>2, WrongFacts DEF RowOK, RowRecords
      <4>2. pr = r.dissent * Unit \/ pr = 2 * Unit * Unit
        BY WrongFacts DEF RowOK, RowRecords
      <4>3. r.dissent * Unit <= Unit * Unit /\ Unit * Unit \in Nat /\ r.dissent * Unit \in Nat
        BY <1>0
      <4>4. 2 * Unit * Unit = Unit * Unit + Unit * Unit
        BY <1>0
      <4>5. r.dissent * Unit <= 2 * Unit * Unit /\ 2 * Unit * Unit <= 2 * Unit * Unit
        BY <4>3, <4>4
      <4> HIDE DEF pw, pr
      <4>6. QED
        BY <4>1, <4>2, <4>5
    <3>3. CASE r.p = Unit \div 2 /\ w.p \in {0, Unit}
      <4>1. r.dissent = Unit
        BY <3>3, HalfFacts DEF RowOK, RowRecords
      <4>2. w.dissent < Unit
        BY <2>1, <3>3, HalfFacts DEF RowOK, RowRecords
      <4>3. QED
        BY <1>0, <4>1, <4>2
    <3>4. QED
      BY <3>1, <3>2, <3>3 DEF RowOK, RowRecords
  <2> HIDE DEF pw, pr
  <2>3. CASE Affordable(req) = {}
    BY <2>3 DEF Decide, NoBuy
  <2>4. CASE Affordable(req) # {}
    <3> DEFINE kw == BestOf(Affordable(req), pw, req, g)
               kr == BestOf(Affordable(req), pr, req, g)
    <3>1. /\ kw \in Affordable(req) /\ kw \in 1..4 /\ kr \in Affordable(req) /\ kr \in 1..4
          /\ \A j \in Affordable(req) :
               Net(DefaultArms[j], pw, req.stake, g) <= Net(DefaultArms[kw], pw, req.stake, g)
      BY <1>1, <2>4, BestFacts
    <3>2. Net(DefaultArms[kw], pw, req.stake, g) <= 0
      BY <1>3, <2>4 DEF Decide, Buy, pw
    <3>3. Decide(r, req, g) = NoBuy \/ ~(Net(DefaultArms[kr], pr, req.stake, g) <= 0)
      BY DEF Decide, pr
    <3> HIDE DEF kw, kr
    <3>4. DefaultArms[kr] \in ArmNames /\ DefaultArms[kw] \in ArmNames /\ req.stake \in Nat
      BY <3>1, ArmFacts DEF NormalRequest
    <3>5. /\ Net(DefaultArms[kr], pr, req.stake, g) <= Net(DefaultArms[kr], pw, req.stake, g)
          /\ Net(DefaultArms[kr], pr, req.stake, g) \in Int
          /\ Net(DefaultArms[kr], pw, req.stake, g) \in Int
          /\ Net(DefaultArms[kw], pw, req.stake, g) \in Int
      BY <1>1, <2>2, <3>4, NetFacts
    <3>6. Net(DefaultArms[kr], pr, req.stake, g) <= 0
      BY <3>1, <3>2, <3>5
    <3>7. QED
      BY <3>3, <3>6 DEF NoBuy
  <2>5. QED
    BY <2>3, <2>4
<1>4. QED
  BY <1>2, <1>3

RowsOK == rows \in [1..NClaims -> RowRecords] /\ \A i \in 1..NClaims : RowOK(rows[i])

LEMMA SomeClaim == NClaims \in Nat \ {0}
<1>1. Batches[1] \in Seq(1..NClaims) /\ Len(Batches[1]) \in Nat \ {0}
  BY FirstBatch, BatchFacts
<1>2. Batches[1][1] \in 1..NClaims
  <2>1. 1 \in Places(1) /\ 1 \in DOMAIN Batches
    BY <1>1, FirstBatch, BatchFacts
  <2>2. QED
    BY <2>1, BatchFacts
<1>3. QED
  BY <1>2, ClaimsAssumption

\* There is a first row with the greatest dissent, and Worst is its number.
LEMMA WorstFacts ==
  ASSUME RowsOK
  PROVE  /\ Worst \in 1..NClaims
         /\ \A j \in 1..NClaims : /\ rows[j].dissent <= rows[Worst].dissent
                                  /\ rows[j].dissent = rows[Worst].dissent => Worst <= j
<1> DEFINE First(i) == \A j \in 1..NClaims :
             rows[j].dissent < rows[i].dissent \/ (rows[j].dissent = rows[i].dissent /\ i <= j)
           T == {Unit - rows[i].dissent : i \in 1..NClaims}
<1>1. DOMAIN rows = 1..NClaims /\ \A i \in 1..NClaims : rows[i].dissent \in 0..Unit
  BY DEF RowsOK, RowOK, RowRecords
<1>2. PICK m \in T : \A t \in T : ~(t < m)
  <2>1. T \subseteq Nat /\ T # {}
    BY <1>1, SomeClaim, HalfFacts
  <2>2. \E m \in T : \A t \in T : ~(<<t, m>> \in OpToRel(<, Nat))
    BY <2>1, WFMin, NatLessThanWellFounded
  <2>3. \A t \in T, m \in T : <<t, m>> \in OpToRel(<, Nat) <=> t < m
    BY <2>1 DEF OpToRel
  <2>4. QED
    BY <2>2, <2>3
<1> DEFINE I == {i \in 1..NClaims : Unit - rows[i].dissent = m}
<1>3. PICK i \in I : \A j \in I : ~(j < i)
  <2>1. I \subseteq Nat /\ I # {}
    BY <1>2
  <2>2. \E i \in I : \A j \in I : ~(<<j, i>> \in OpToRel(<, Nat))
    BY <2>1, WFMin, NatLessThanWellFounded
  <2>3. \A i \in I, j \in I : <<j, i>> \in OpToRel(<, Nat) <=> j < i
    BY <2>1 DEF OpToRel
  <2>4. QED
    BY <2>2, <2>3
<1>4. First(i)
  <2> SUFFICES ASSUME NEW j \in 1..NClaims
               PROVE  rows[j].dissent < rows[i].dissent \/ (rows[j].dissent = rows[i].dissent /\ i <= j)
    OBVIOUS
  <2>1. ~(Unit - rows[j].dissent < Unit - rows[i].dissent)
    BY <1>2, <1>3
  <2>2. rows[j].dissent = rows[i].dissent => ~(j < i)
    BY <1>3
  <2>3. QED
    BY <1>1, <1>3, <2>1, <2>2, HalfFacts
<1>5. Worst = CHOOSE k \in 1..NClaims : First(k)
  BY <1>1 DEF Worst
<1>6. Worst \in 1..NClaims /\ First(Worst)
  BY <1>3, <1>4, <1>5
<1> HIDE DEF I, T
<1>7. QED
  BY <1>1, <1>6
-----------------------------------------------------------------------------
(* From the evaluation to the panel.  The rows, the routing and the panel  *)
(* are in step with each other (BuyOK).                                    *)

LEMMA LeastOfThree ==
  ASSUME NEW ks \in SUBSET (1..3), ks # {}
  PROVE  \E k \in ks : \A j \in ks : k <= j
<1>1. \A j \in ks : j \in {1, 2, 3}
  OBVIOUS
<1>2. CASE 1 \in ks
  BY <1>1, <1>2
<1>3. CASE 1 \notin ks /\ 2 \in ks
  BY <1>1, <1>3
<1>4. CASE 1 \notin ks /\ 2 \notin ks
  <2>1. ks = {3}
    BY <1>1, <1>4
  <2>2. QED
    BY <2>1
<1>5. QED
  BY <1>2, <1>3, <1>4

TimelyOrFree(d, deadline) ==
  d.arm = "local_panel" \/ (d.arm \in ArmNames /\ InTime(d.arm, deadline))
ServesOrFree(d, standard) == d.arm = "local_panel" \/ Serves(d.arm, Need(standard))

\* The standard leaves what is bought in time, and buys people of the kind that was sold.
LEMMA StandardFacts ==
  ASSUME NEW s \in Standards, NEW d \in Decisions, NEW t \in Nat \cup {NoDeadline},
         d.buy => TimelyOrFree(d, t)
  PROVE  /\ ApplyStandard(s, d, t) \in Decisions
         /\ ApplyStandard(s, d, t).buy => TimelyOrFree(ApplyStandard(s, d, t), t)
         /\ s # "voi_routed" =>
              ApplyStandard(s, d, t).buy /\ ServesOrFree(ApplyStandard(s, d, t), s)
<1> DEFINE need == Need(s)
           timely == {k \in DOMAIN need : InTime(need[k], t)}
           least == CHOOSE k \in timely : \A j \in timely : k <= j
           res == ApplyStandard(s, d, t)
<1>1. /\ DOMAIN need \subseteq 1..3
      /\ \A k \in DOMAIN need : need[k] \in ArmNames /\ Serves(need[k], need)
  BY DEF Need, HumanArms, ExpertArms, ArmNames, DefaultArms, Serves
<1>2. \A a \in ArmNames \cup {"local_panel"} : Buy(a) \in Decisions /\ Buy(a).arm = a /\ Buy(a).buy
  BY DEF Buy, Decisions
<1>3. CASE s = "voi_routed" \/ (d.buy /\ Serves(d.arm, need))
  <2>1. res = d
    BY <1>3 DEF ApplyStandard
  <2>2. QED
    BY <1>3, <2>1 DEF ServesOrFree
<1>4. CASE ~(s = "voi_routed" \/ (d.buy /\ Serves(d.arm, need))) /\ timely = {}
  <2>1. res = Buy("local_panel")
    BY <1>4 DEF ApplyStandard
  <2> HIDE DEF need, timely, least, res
  <2>2. QED
    BY <1>2, <2>1 DEF TimelyOrFree, ServesOrFree, res
<1>5. CASE ~(s = "voi_routed" \/ (d.buy /\ Serves(d.arm, need))) /\ timely # {}
  <2>1. res = Buy(need[least])
    BY <1>5 DEF ApplyStandard
  <2>2. timely \in SUBSET (1..3)
    BY <1>1
  <2>3. \E k \in timely : \A j \in timely : k <= j
    <3> HIDE DEF timely
    <3>1. QED
      BY <1>5, <2>2, LeastOfThree
  <2>4. least \in timely
    BY <2>3
  <2>5. least \in DOMAIN need /\ InTime(need[least], t)
    BY <2>4
  <2> HIDE DEF timely, least, res
  <2>6. need[least] \in ArmNames /\ Serves(need[least], need)
    BY <1>1, <2>5
  <2>7. res \in Decisions /\ res.arm = need[least] /\ res.buy
    BY <1>2, <2>1, <2>6
  <2>8. QED
    BY <2>5, <2>6, <2>7 DEF TimelyOrFree, ServesOrFree, res
<1>6. QED
  BY <1>3, <1>4, <1>5

BuyOK ==
  /\ step \in {"route", "gate", "launch", "settled", "awaiting_humans"}
  /\ gain \in [ArmNames -> 0..100]
  /\ pick \in Decisions /\ decision \in Decisions /\ free \in BOOLEAN
  /\ step # "route" => /\ pc = "done" /\ request \in NormalRequest
                       /\ pick = Decide(rows[Worst], request, gain)
  /\ step \in {"gate", "launch", "awaiting_humans"} =>
       /\ decision.buy => TimelyOrFree(decision, request.deadline)
       /\ request.standard # "voi_routed" => decision.buy /\ ServesOrFree(decision, request.standard)
  /\ step \in {"launch", "awaiting_humans"} => decision.buy
  /\ step = "settled" => request.standard = "voi_routed"
  /\ IF step = "awaiting_humans"
       THEN panel \in {"local", Backend(decision.arm)} /\ armUsed = ArmOf(panel)
       ELSE panel = "none" /\ armUsed = "none"

JInv == BatchOK /\ RowsOK /\ BuyOK

LEMMA UnsetFacts == ObjectiveRow \in RowRecords /\ RowOK(ObjectiveRow) /\ NoBuy \in Decisions
  BY HalfFacts DEF ObjectiveRow, RowRecords, RowOK, NoBuy, Decisions

LEMMA InitOK == JInit => JInv
<1> SUFFICES ASSUME JInit PROVE JInv
  OBVIOUS
<1>1. BatchOK
  BY BatchInit DEF JInit
<1>2. RowsOK
  BY UnsetFacts DEF JInit, RowsOK
<1>3. BuyOK
  BY UnsetFacts, ArmsAssumption DEF JInit, BuyOK
<1>4. QED
  BY <1>1, <1>2, <1>3 DEF JInv

LEMMA VoicesFacts == ASSUME HeardOK, NEW c PROVE Voices(c) \in SUBSET {"yes", "no"}
  BY DEF HeardOK, Voices, Sides

LEMMA RowStep == ASSUME JInv, Row PROVE RowsOK' /\ BuyOK'
<1>1. pc = "batch" /\ UNCHANGED buyVars
  BY DEF Row, NextBatch
<1>2. VotesOK /\ HeardOK /\ step = "route"
  BY <1>1 DEF JInv, BatchOK, BuyOK
<1>3. RowsOK'
  <2> DEFINE is(c) == {i \in DOMAIN votes : Batches[batch][i] = c}
             row(c) == IF is(c) = {} THEN rows[c]
                       ELSE ClaimRow(votes[CHOOSE i \in is(c) : TRUE], Voices(c))
  <2>1. rows' = [c \in 1..NClaims |-> row(c)]
    BY DEF Row
  <2>2. ASSUME NEW c \in 1..NClaims PROVE row(c) \in RowRecords /\ RowOK(row(c))
    <3>1. CASE is(c) = {}
      BY <3>1 DEF JInv, RowsOK
    <3>2. CASE is(c) # {}
      <4> DEFINE i == CHOOSE i \in is(c) : TRUE
      <4>1. i \in DOMAIN votes
        BY <3>2
      <4>2. row(c) = ClaimRow(votes[i], Voices(c))
        BY <3>2
      <4> HIDE DEF i, row, is
      <4>3. votes[i] \in Seq(Answers)
        BY <1>2, <4>1 DEF VotesOK
      <4>4. RowOK(ClaimRow(votes[i], Voices(c)))
        BY <1>2, <4>3, VoicesFacts, ClaimRowOK
      <4>5. QED
        BY <4>2, <4>4 DEF RowOK, RowRecords
    <3>3. QED
      BY <3>1, <3>2
  <2> HIDE DEF row
  <2>3. QED
    BY <2>1, <2>2 DEF RowsOK
<1>4. BuyOK'
  BY <1>1, <1>2 DEF JInv, BuyOK, buyVars
<1>5. QED
  BY <1>3, <1>4

LEMMA NormalFacts == ASSUME NEW r \in Request PROVE Normalised(r) \in NormalRequest
  BY DEF Request, Normalised, NormalRequest, StandardOf, Standards

LEMMA RouteStep == ASSUME JInv, Route PROVE RowsOK' /\ BuyOK'
<1>1. /\ pc = "done" /\ step' = "gate"
      /\ UNCHANGED <<batchVars, rows, free, panel, armUsed>>
      /\ panel = "none" /\ armUsed = "none" /\ free \in BOOLEAN
  BY DEF Route, JInv, BuyOK
<1>2. request' \in NormalRequest /\ gain' \in [ArmNames -> 0..100]
  <2>1. PICK r \in Requests, live \in SUBSET ArmNames, m \in Measured :
          /\ request' = Normalised(r)
          /\ gain' = [a \in ArmNames |-> IF a \in live THEN m ELSE PriorGain[a]]
    BY DEF Route
  <2>2. r \in Request
    BY RequestsAssumption
  <2>3. QED
    BY <2>1, <2>2, NormalFacts, ArmsAssumption
<1>3. RowOK(rows[Worst])
  BY WorstFacts DEF JInv, RowsOK
<1>4. pick' = Decide(rows[Worst], request', gain')
      /\ decision' = ApplyStandard(request'.standard, pick', request'.deadline)
  BY DEF Route
<1>5. pick' \in Decisions /\ (pick'.buy => TimelyOrFree(pick', request'.deadline))
  BY <1>2, <1>3, <1>4, DecideFacts DEF TimelyOrFree
<1>6. request'.standard \in Standards /\ request'.deadline \in Nat \cup {NoDeadline}
  BY <1>2 DEF NormalRequest
<1>7. /\ decision' \in Decisions
      /\ decision'.buy => TimelyOrFree(decision', request'.deadline)
      /\ request'.standard # "voi_routed" =>
           decision'.buy /\ ServesOrFree(decision', request'.standard)
  BY <1>4, <1>5, <1>6, StandardFacts
<1>8. Worst' = Worst /\ pc' = "done" /\ panel' = "none" /\ armUsed' = "none" /\ free' \in BOOLEAN
  BY <1>1 DEF Worst, batchVars
<1>9. BuyOK'
  BY <1>1, <1>2, <1>4, <1>5, <1>7, <1>8 DEF BuyOK
<1>10. QED
  BY <1>1, <1>9 DEF JInv, RowsOK

LEMMA GateStep == ASSUME JInv, Gate PROVE RowsOK' /\ BuyOK'
<1>1. /\ step = "gate" /\ UNCHANGED <<batchVars, rows, request, gain, pick, panel, armUsed>>
      /\ step' = IF decision'.buy THEN "launch" ELSE "settled"
  BY DEF Gate
<1>2. free' \in BOOLEAN /\ decision' \in {decision, [decision EXCEPT !.buy = FALSE]}
      /\ (request.standard # "voi_routed" => decision' = decision)
  BY DEF Gate, ForceHumans
<1>3. /\ decision \in Decisions /\ pc = "done" /\ request \in NormalRequest
      /\ decision.buy => TimelyOrFree(decision, request.deadline)
      /\ request.standard # "voi_routed" => decision.buy /\ ServesOrFree(decision, request.standard)
      /\ panel = "none" /\ armUsed = "none"
      /\ gain \in [ArmNames -> 0..100] /\ pick \in Decisions
      /\ pick = Decide(rows[Worst], request, gain)
  BY <1>1 DEF JInv, BuyOK
<1>4. /\ decision' \in Decisions /\ decision'.arm = decision.arm
      /\ decision'.buy => decision.buy
  BY <1>2, <1>3 DEF Decisions
<1>5. Worst' = Worst /\ pc' = pc
  BY <1>1 DEF Worst, batchVars
<1>6. decision'.buy => TimelyOrFree(decision', request.deadline)
  BY <1>3, <1>4 DEF TimelyOrFree
<1>7. request.standard # "voi_routed" => decision'.buy /\ ServesOrFree(decision', request.standard)
  BY <1>2, <1>3
<1>8. BuyOK'
  BY <1>1, <1>2, <1>3, <1>4, <1>5, <1>6, <1>7 DEF BuyOK
<1>9. QED
  BY <1>1, <1>8 DEF JInv, RowsOK

LEMMA LaunchStep == ASSUME JInv, Launch PROVE RowsOK' /\ BuyOK'
<1>1. /\ step = "launch" /\ step' = "awaiting_humans" /\ armUsed' = ArmOf(panel')
      /\ panel' \in {"local", Backend(decision.arm)}
      /\ UNCHANGED <<batchVars, rows, request, gain, pick, decision, free>>
  BY DEF Launch
<1>2. /\ decision \in Decisions /\ pc = "done" /\ request \in NormalRequest /\ decision.buy
      /\ TimelyOrFree(decision, request.deadline)
      /\ request.standard # "voi_routed" => decision.buy /\ ServesOrFree(decision, request.standard)
      /\ gain \in [ArmNames -> 0..100] /\ pick \in Decisions /\ free \in BOOLEAN
      /\ pick = Decide(rows[Worst], request, gain)
  BY <1>1 DEF JInv, BuyOK
<1>3. Worst' = Worst /\ pc' = pc /\ ArmOf(panel)' = ArmOf(panel')
  BY <1>1 DEF Worst, batchVars, ArmOf
<1>4. BuyOK'
  BY <1>1, <1>2, <1>3 DEF BuyOK
<1>5. QED
  BY <1>1, <1>4 DEF JInv, RowsOK

LEMMA QuietStep ==
  ASSUME JInv, UNCHANGED <<rows, buyVars>>, step = "route" \/ UNCHANGED pc
  PROVE  RowsOK' /\ BuyOK'
<1>1. Worst' = Worst /\ ArmOf(panel)' = ArmOf(panel)
  BY DEF Worst, ArmOf, buyVars
<1>2. QED
  BY <1>1 DEF JInv, RowsOK, BuyOK, buyVars

LEMMA NextOK == ASSUME JInv, [JNext]_vars PROVE JInv'
<1>1. BatchOK'
  BY JNextKeepsBatch DEF JInv
<1>2. CASE Judge /\ UNCHANGED <<rows, buyVars>>
  <2>1. pc # "done"
    BY <1>2 DEF Judge, Shuffle, Raise, Reply, ShortReply, Cast
  <2>2. step = "route"
    BY <2>1 DEF JInv, BuyOK
  <2>3. QED
    BY <1>1, <1>2, <2>2, QuietStep DEF JInv
<1>3. CASE Row
  BY <1>1, <1>3, RowStep DEF JInv
<1>4. CASE Route
  BY <1>1, <1>4, RouteStep DEF JInv
<1>5. CASE Gate
  BY <1>1, <1>5, GateStep DEF JInv
<1>6. CASE Launch
  BY <1>1, <1>6, LaunchStep DEF JInv
<1>7. CASE UNCHANGED vars
  BY <1>1, <1>7, QuietStep DEF JInv, vars, batchVars
<1>8. QED
  BY <1>2, <1>3, <1>4, <1>5, <1>6, <1>7 DEF JNext

LEMMA Holds == Spec => []JInv
  BY InitOK, NextOK, PTL DEF Spec

-----------------------------------------------------------------------------
\* Every variable keeps its type.
THEOREM JudgingTyped == Spec => []TypeOK
<1>1. ASSUME JInv PROVE TypeOK
  <2>1. BatchTypeOK
    <3>1. pc # "done" => votes \in [Places(batch) -> Seq(Answers)]
      BY <1>1 DEF JInv, BatchOK, VotesOK
    <3>2. QED
      BY <1>1, <3>1 DEF JInv, BatchOK, BatchTypeOK, WindowOK, OutOK, HeardOK
  <2>2. rows \in [1..NClaims -> RowRecords]
    BY <1>1 DEF JInv, RowsOK
  <2>3. \A arm : Backend(arm) \in {"local", "linq", "terac"}
    BY DEF Backend
  <2>4. panel \in {"none", "local", "linq", "terac"}
    BY <1>1, <2>3 DEF JInv, BuyOK
  <2>5. decision \in Decisions
    BY <1>1 DEF JInv, BuyOK
  <2>6. armUsed \in ArmNames \cup {"none", "local_panel"}
    <3>1. step = "awaiting_humans" => armUsed = ArmOf(panel) /\ panel \in {"local", "linq", "terac"}
      BY <1>1, <2>3 DEF JInv, BuyOK
    <3>2. \A source \in {"local", "linq", "terac"} :
            ArmOf(source) \in {"local_panel", "linq_panel", "terac_general", "terac_expert"}
      BY DEF ArmOf, TeracArms
    <3>3. {"linq_panel", "terac_general", "terac_expert"} \subseteq ArmNames
      BY ArmFacts DEF ArmNames, DefaultArms
    <3>4. QED
      BY <1>1, <3>1, <3>2, <3>3 DEF JInv, BuyOK
  <2>7. QED
    BY <1>1, <2>1, <2>2, <2>4, <2>5, <2>6 DEF JInv, BuyOK, TypeOK, NormalRequest, RowRecords
<1>2. QED
  BY <1>1, Holds, PTL

\* WorstDecides: when voi.decide buys nothing for the most disputed claim, it would buy nothing
\* for any other claim that models judged.
THEOREM WorstSpeaksForAll == Spec => []WorstDecides
<1>1. ASSUME JInv PROVE WorstDecides
  <2> SUFFICES ASSUME step # "route", ~pick.buy, NEW i \in DOMAIN rows, rows[i].judged
               PROVE  ~Decide(rows[i], request, gain).buy
    BY DEF WorstDecides, Routed
  <2>1. RowsOK /\ i \in 1..NClaims /\ RowOK(rows[i])
    BY <1>1 DEF JInv, RowsOK
  <2>2. RowOK(rows[Worst]) /\ rows[i].dissent <= rows[Worst].dissent
    BY <2>1, WorstFacts DEF RowsOK
  <2>3. request \in NormalRequest /\ gain \in [ArmNames -> 0..100]
        /\ ~Decide(rows[Worst], request, gain).buy
    BY <1>1 DEF JInv, BuyOK
  <2>4. QED
    BY <2>1, <2>2, <2>3, LessDissentBuysLess
<1>2. QED
  BY <1>1, Holds, PTL

\* StandardHolds: who was sold people waits for people of that kind, who can be there in time.
THEOREM StandardIsKept == Spec => []StandardHolds
<1>1. ASSUME JInv PROVE StandardHolds
  <2>1. step = "settled" => request.standard = "voi_routed"
    BY <1>1 DEF JInv, BuyOK
  <2>2. \A arm : Backend(arm) \in {"local", "linq", "terac"}
    BY DEF Backend
  <2>3. CASE step # "awaiting_humans"
    BY <1>1, <2>1, <2>3 DEF StandardHolds, JInv, BuyOK
  <2>4. CASE step = "awaiting_humans"
    <3>1. /\ panel \in {"local", Backend(decision.arm)} /\ armUsed = ArmOf(panel)
          /\ TimelyOrFree(decision, request.deadline)
          /\ request.standard # "voi_routed" => ServesOrFree(decision, request.standard)
      BY <1>1, <2>4 DEF JInv, BuyOK
    <3>2. panel # "none"
      BY <2>2, <3>1
    <3>3. Backend("local_panel") = "local"
      BY DEF Backend, TeracArms
    <3>4. panel \notin {"none", "local"} => InTime(decision.arm, request.deadline)
      BY <3>1, <3>3 DEF TimelyOrFree
    <3>5. request.standard = "expert_backed" => armUsed \in {"terac_expert", "local_panel"}
      <4>1. SUFFICES ASSUME request.standard = "expert_backed"
                     PROVE  ArmOf(panel) \in {"terac_expert", "local_panel"}
        BY <3>1
      <4>2. decision.arm \in {"local_panel", "terac_expert"}
        BY <3>1, <4>1 DEF ServesOrFree, Serves, Need, ExpertArms
      <4>3. panel = "local" \/ (panel = "terac" /\ decision.arm = "terac_expert")
        BY <3>1, <3>3, <4>2 DEF Backend, TeracArms
      <4>4. QED
        BY <4>3 DEF ArmOf, TeracArms
    <3>6. QED
      BY <2>4, <3>1, <3>2, <3>4, <3>5 DEF StandardHolds, ServesOrFree
  <2>5. QED
    BY <2>3, <2>4
<1>2. QED
  BY <1>1, Holds, PTL

-----------------------------------------------------------------------------
(* What the providers said.  A seat is asked about a claim until it has an *)
(* answer and never again, so that heard has at most one answer of a seat  *)
(* on a claim, and the vote in hand, in the window or cast is that one     *)
(* (KeptOK).                                                               *)

Said(s, i) == {h \in heard : h[1] = s /\ h[2] = Batches[batch][i]}
Blank == {NoAnswer, Missing}

\* The answer is the only thing seat s was told at place i, or it is empty and there was nothing.
Kept(s, i, answer) ==
  /\ answer.of = 0 => answer \in Blank
  /\ Said(s, i) = IF answer \in Blank THEN {} ELSE {<<s, Batches[batch][i], answer.side>>}

Distinct(q) == \A j, k \in DOMAIN q : q[j] = q[k] => j = k

InHand ==
  /\ Distinct(order) /\ Distinct(window) /\ Distinct(asked)
  /\ \A j \in DOMAIN window, k \in DOMAIN order : window[j] # order[k]
  /\ \A k \in DOMAIN asked : got[asked[k]] = Missing
  /\ \A j \in DOMAIN window : Kept(seat, window[j], got[j]) /\ out[window[j]] = NoAnswer
  /\ \A k \in DOMAIN order : out[order[k]] = NoAnswer
  /\ \A i \in Places(batch) : (\A j \in DOMAIN window : window[j] # i) => Kept(seat, i, out[i])

\* The votes cast so far, and nobody was heard who has not had a seat yet.
SeatsHeard ==
  /\ \A i \in Places(batch) : Len(votes[i]) = IF pc = "batch" THEN Seats[batch] ELSE seat - 1
  /\ \A i \in Places(batch) : \A s \in DOMAIN votes[i] : Kept(s, i, votes[i][s])
  /\ \A h \in heard : h[1] \in 1..(IF pc = "batch" THEN Seats[batch]
                                   ELSE IF pc = "seat" THEN seat - 1 ELSE seat)

KeptOK ==
  /\ pc # "done" => SeatsHeard
  /\ pc = "call" => InHand
  /\ pc = "cast" => \A i \in Places(batch) : Kept(seat, i, out[i])

LEMMA BlankFacts ==
  /\ NoAnswer.of = 0 /\ NoAnswer.side = "skip" /\ Missing.of = 0 /\ NoAnswer # Missing
  /\ \A side, claim : Answer(side, claim).side = side /\ Answer(side, claim).of = claim
  BY DEF NoAnswer, Missing, Answer

LEMMA WindowFacts ==
  ASSUME NEW ord \in Seq(Places(batch)), Distinct(ord), OpenWindow(ord)
  PROVE  /\ DOMAIN ord = 1..Len(ord) /\ Len(ord) \in Nat
         /\ \E n \in 0..Len(ord) :
              /\ DOMAIN window' = 1..n /\ DOMAIN order' = 1..(Len(ord) - n)
              /\ \A j \in 1..n : window'[j] = ord[j]
              /\ \A k \in 1..(Len(ord) - n) : order'[k] = ord[n + k]
              /\ asked' = [k \in 1..n |-> k] /\ got' = [j \in 1..n |-> Missing]
<1> DEFINE n == IF Len(ord) < MaxChunk THEN Len(ord) ELSE MaxChunk
<1>1. n \in 0..Len(ord) /\ Len(ord) \in Nat /\ DOMAIN ord = 1..Len(ord)
      /\ \A i \in 1..Len(ord) : ord[i] \in Places(batch)
  BY PanelAssumption, LenProperties
<1>2. window' = SubSeq(ord, 1, n) /\ order' = SubSeq(ord, n + 1, Len(ord))
      /\ asked' = [k \in 1..n |-> k] /\ got' = [j \in 1..n |-> Missing]
  BY DEF OpenWindow
<1> HIDE DEF n
<1>3. /\ window' \in Seq(Places(batch)) /\ Len(window') = n
      /\ \A j \in 1..n : window'[j] = ord[j]
  BY <1>1, <1>2, SubSeqProperties
<1>4. /\ order' \in Seq(Places(batch)) /\ Len(order') = Len(ord) - n
      /\ \A k \in 1..(Len(ord) - n) : order'[k] = ord[n + k]
  <2>1. /\ order' \in Seq(Places(batch))
        /\ Len(order') = IF n + 1 <= Len(ord) THEN Len(ord) - (n + 1) + 1 ELSE 0
        /\ \A k \in 1..(Len(ord) - (n + 1) + 1) : order'[k] = ord[n + 1 + k - 1]
    BY <1>1, <1>2, SubSeqProperties
  <2>2. Len(order') = Len(ord) - n
    <3> DEFINE l == Len(ord)
    <3>1. l \in Nat /\ n \in Nat /\ n <= l
      BY <1>1
    <3>2. Len(order') = IF n + 1 <= l THEN l - (n + 1) + 1 ELSE 0
      BY <2>1
    <3> HIDE DEF l
    <3>3. Len(order') = l - n
      BY <3>1, <3>2
    <3>4. QED
      BY <3>3 DEF l
  <2>3. \A k \in 1..(Len(ord) - n) : order'[k] = ord[n + k]
    <3>1. ASSUME NEW k \in 1..(Len(ord) - n) PROVE order'[k] = ord[n + k]
      <4>1. k \in 1..(Len(ord) - (n + 1) + 1) /\ n + 1 + k - 1 = n + k
        BY <1>1
      <4>2. QED
        BY <2>1, <4>1
    <3>2. QED
      BY <3>1
  <2>4. QED
    BY <2>1, <2>2, <2>3
<1>5. DOMAIN window' = 1..n /\ DOMAIN order' = 1..(Len(ord) - n)
  BY <1>3, <1>4, LenProperties
<1>6. QED
  BY <1>1, <1>2, <1>3, <1>4, <1>5

\* A window that opens on places the seat has no vote for.
LEMMA OpenKept ==
  ASSUME batch \in DOMAIN Batches, NEW ord \in Seq(Places(batch)), Distinct(ord), OpenWindow(ord),
         UNCHANGED batch,
         \A i \in Places(batch) : Kept(seat, i, out[i])',
         \A k \in DOMAIN ord : out'[ord[k]] = NoAnswer
  PROVE  InHand'
<1>1. PICK n \in 0..Len(ord) :
              /\ DOMAIN window' = 1..n /\ DOMAIN order' = 1..(Len(ord) - n)
              /\ \A j \in 1..n : window'[j] = ord[j]
              /\ \A k \in 1..(Len(ord) - n) : order'[k] = ord[n + k]
              /\ asked' = [k \in 1..n |-> k] /\ got' = [j \in 1..n |-> Missing]
  BY WindowFacts
<1>2. DOMAIN ord = 1..Len(ord) /\ Len(ord) \in Nat /\ n \in Nat /\ n <= Len(ord)
  BY WindowFacts
<1>3. \A j \in 1..n : j \in DOMAIN ord
  BY <1>2
<1>4. \A k \in 1..(Len(ord) - n) : n + k \in DOMAIN ord /\ k \in Nat /\ k > 0
  BY <1>2
<1>5. Distinct(window')
  BY <1>1, <1>3 DEF Distinct
<1>6. Distinct(order')
  <2>1. ASSUME NEW j \in 1..(Len(ord) - n), NEW k \in 1..(Len(ord) - n), order'[j] = order'[k]
        PROVE  j = k
    <3>1. ord[n + j] = ord[n + k] /\ n + j \in DOMAIN ord /\ n + k \in DOMAIN ord
      BY <1>1, <1>4, <2>1
    <3>2. n + j = n + k
      BY <3>1 DEF Distinct
    <3>3. QED
      BY <1>2, <1>4, <3>2
  <2>2. QED
    BY <1>1, <2>1 DEF Distinct
<1>7. \A j \in 1..n, k \in 1..(Len(ord) - n) : window'[j] # order'[k]
  <2>1. ASSUME NEW j \in 1..n, NEW k \in 1..(Len(ord) - n), window'[j] = order'[k] PROVE FALSE
    <3>1. j = n + k
      BY <1>1, <1>3, <1>4, <2>1 DEF Distinct
    <3>2. QED
      BY <1>2, <1>4, <3>1
  <2>2. QED
    BY <2>1
<1>8. Distinct(asked') /\ \A k \in DOMAIN asked' : got'[asked'[k]] = Missing
  BY <1>1 DEF Distinct
<1>9. ASSUME NEW j \in 1..n
      PROVE  Kept(seat, window[j], got[j])' /\ out'[window'[j]] = NoAnswer
  <2>1. window'[j] = ord[j] /\ j \in DOMAIN ord /\ ord[j] \in Places(batch) /\ got'[j] = Missing
    BY <1>1, <1>2, <1>3
  <2>2. out'[ord[j]] = NoAnswer
    BY <2>1
  <2>3. Kept(seat, ord[j], out[ord[j]])'
    BY <2>1
  <2>4. Kept(seat, ord[j], NoAnswer)'
    BY <2>2, <2>3 DEF Kept
  <2>5. Kept(seat, ord[j], Missing)'
    BY <2>4 DEF Kept, Blank
  <2>6. QED
    BY <2>1, <2>2, <2>5 DEF Kept, Said
<1>10. \A k \in DOMAIN order' : out'[order'[k]] = NoAnswer
  <2>1. ASSUME NEW k \in 1..(Len(ord) - n) PROVE out'[order'[k]] = NoAnswer
    BY <1>1, <1>4
  <2>2. QED
    BY <1>1, <2>1
<1>11. \A i \in Places(batch)' : Kept(seat, i, out[i])'
  BY DEF Places
<1>12. QED
  BY <1>1, <1>5, <1>6, <1>7, <1>8, <1>9, <1>10, <1>11 DEF InHand

\* A window that closes: what it got are the votes of its places, the others keep theirs.
LEMMA CloseKept ==
  ASSUME BatchOK, InHand, pc = "call", UNCHANGED <<batch, seat>>,
         NEW answers \in [DOMAIN window -> Answers \cup {Missing}],
         CloseWindow(answers),
         \A j \in DOMAIN window : \A i \in Places(batch) :
           window[j] = i => Kept(seat, i, answers[j])',
         \A i \in Places(batch) :
           (\A j \in DOMAIN window : window[j] # i) => Said(seat, i)' = Said(seat, i)
  PROVE  /\ pc' \in {"call", "cast"}
         /\ pc' = "call" => InHand'
         /\ pc' = "cast" => (\A i \in Places(batch) : Kept(seat, i, out[i]))'
<1>1. batch \in DOMAIN Batches /\ WindowOK /\ OutOK
  BY DEF BatchOK
<1> DEFINE Js(i) == {j \in DOMAIN window : window[j] = i /\ answers[j] # Missing}
           Vote(i) == IF Js(i) = {} THEN out[i] ELSE answers[CHOOSE j \in Js(i) : TRUE]
<1>2. DOMAIN out = Places(batch) /\ out' = [i \in DOMAIN out |-> Vote(i)]
  BY <1>1 DEF CloseWindow, OutOK
<1>3. ASSUME NEW i \in Places(batch), \A j \in DOMAIN window : window[j] # i
      PROVE  out'[i] = out[i] /\ Kept(seat, i, out[i])'
  <2>1. Js(i) = {}
    BY <1>3
  <2>2. out'[i] = out[i]
    BY <1>2, <2>1
  <2>3. Kept(seat, i, out[i]) /\ Said(seat, i)' = Said(seat, i)
    BY <1>3 DEF InHand
  <2>4. Kept(seat, i, out[i])'
    BY <2>2, <2>3 DEF Kept
  <2>5. QED
    BY <2>2, <2>4
<1>4. ASSUME NEW i \in Places(batch), NEW j \in DOMAIN window, window[j] = i
      PROVE  Kept(seat, i, out[i])'
  <2>1. Kept(seat, i, answers[j])' /\ out[i] = NoAnswer
    BY <1>4 DEF InHand
  <2>2. \A l \in Js(i) : l = j
    BY <1>4 DEF InHand, Distinct
  <2>3. CASE answers[j] = Missing
    <3>1. Js(i) = {}
      BY <2>2, <2>3
    <3>2. out'[i] = NoAnswer
      BY <1>2, <2>1, <3>1
    <3>3. Kept(seat, i, Missing)'
      BY <2>1, <2>3 DEF Kept
    <3>4. QED
      BY <3>2, <3>3, BlankFacts DEF Kept, Blank
  <2>4. CASE answers[j] # Missing
    <3>1. Js(i) = {j}
      BY <1>4, <2>2, <2>4
    <3>2. out'[i] = answers[j]
      BY <1>2, <3>1
    <3>3. QED
      BY <2>1, <3>2 DEF Kept
  <2>5. QED
    BY <2>3, <2>4
<1>5. \A i \in Places(batch) : Kept(seat, i, out[i])'
  BY <1>3, <1>4
<1>6. CASE order # <<>>
  <2>1. OpenWindow(order) /\ order \in Seq(Places(batch)) /\ Distinct(order)
    BY <1>1, <1>6 DEF CloseWindow, WindowOK, InHand
  <2>2. pc' = "call"
    BY <2>1 DEF OpenWindow
  <2>3. ASSUME NEW k \in DOMAIN order PROVE out'[order[k]] = NoAnswer
    <3>1. order[k] \in Places(batch)
      BY <2>1, LenProperties, ElementOfSeq
    <3>2. out[order[k]] = NoAnswer /\ \A j \in DOMAIN window : window[j] # order[k]
      BY DEF InHand
    <3>3. QED
      BY <1>3, <3>1, <3>2
  <2>4. InHand'
    BY <1>1, <1>5, <2>1, <2>3, OpenKept
  <2>5. QED
    BY <2>2, <2>4
<1>7. CASE order = <<>>
  <2>1. pc' = "cast"
    BY <1>7 DEF CloseWindow
  <2>2. QED
    BY <1>5, <2>1 DEF Places
<1>8. QED
  BY <1>6, <1>7

LEMMA PlacesApart ==
  ASSUME NEW b \in DOMAIN Batches, NEW i \in Places(b), NEW j \in Places(b),
         Batches[b][i] = Batches[b][j]
  PROVE  i = j
  BY ClaimsAssumption DEF Places

\* What is heard in a call is filed where it was asked.
LEMMA HearKept ==
  ASSUME BatchOK, InHand, UNCHANGED <<batch, seat>>,
         NEW said \in Replies, Hear(said), NEW answers, answers = Filed(said)
  PROVE  /\ \A j \in DOMAIN window : \A i \in Places(batch) :
              window[j] = i => Kept(seat, i, answers[j])'
         /\ \A i \in Places(batch) :
              (\A j \in DOMAIN window : window[j] # i) => Said(seat, i)' = Said(seat, i)
         /\ \A s, i : s # seat => Said(s, i)' = Said(s, i)
         /\ \A h \in heard' : h \in heard \/ h[1] = seat
<1>1. batch \in DOMAIN Batches /\ WindowOK /\ DOMAIN got = DOMAIN window
  BY DEF BatchOK, WindowOK
<1> DEFINE Told(k) == <<seat, Batches[batch][window[asked[k]]], said[k]>>
           told == {k \in DOMAIN asked : said[k] # "none"}
<1>2. \A k \in told : /\ asked[k] \in DOMAIN window /\ window[asked[k]] \in Places(batch)
                      /\ Prompt(k) = Batches[batch][window[asked[k]]] /\ Prompt(k) \in 1..NClaims
  BY <1>1, PromptFacts
<1>3. heard' = heard \cup {Told(k) : k \in told}
  BY <1>2 DEF Hear
<1>4. \A k \in told : \A i \in Places(batch) : Told(k)[2] = Batches[batch][i] <=> window[asked[k]] = i
  BY <1>1, <1>2, PlacesApart
<1>5. \A s, i : s # seat => Said(s, i)' = Said(s, i)
  BY <1>3 DEF Said
<1>6. \A h \in heard' : h \in heard \/ h[1] = seat
  BY <1>3
<1>7. ASSUME NEW i \in Places(batch), \A k \in told : window[asked[k]] # i
      PROVE  Said(seat, i)' = Said(seat, i)
  BY <1>3, <1>4, <1>7 DEF Said
<1>8. ASSUME NEW i \in Places(batch), NEW j \in DOMAIN window, window[j] = i
      PROVE  Kept(seat, i, answers[j])'
  <2> DEFINE Ks == {k \in DOMAIN asked : asked[k] = j /\ said[k] # "none"}
  <2>1. answers[j] = IF Ks = {} THEN got[j]
                     ELSE LET k == CHOOSE k \in Ks : TRUE IN Answer(said[k], Prompt(k))
    BY <1>1 DEF Filed
  <2>2. \A k \in told : window[asked[k]] = i => asked[k] = j
    BY <1>2, <1>8 DEF InHand, Distinct
  <2>3. Kept(seat, i, got[j])
    BY <1>8 DEF InHand
  <2>4. CASE Ks = {}
    <3>1. Said(seat, i)' = Said(seat, i)
      BY <1>7, <2>2, <2>4
    <3>2. answers[j] = got[j]
      BY <2>1, <2>4
    <3>3. QED
      BY <2>3, <3>1, <3>2 DEF Kept
  <2>5. CASE Ks # {}
    <3> DEFINE k == CHOOSE k \in Ks : TRUE
    <3>1. k \in told /\ asked[k] = j
      BY <2>5
    <3>2. answers[j] = Answer(said[k], Prompt(k))
      BY <2>1, <2>5
    <3> HIDE DEF k
    <3>3. \A l \in told : window[asked[l]] = i => l = k
      BY <2>2, <3>1 DEF InHand, Distinct
    <3>4. got[j] = Missing
      BY <3>1 DEF InHand
    <3>5. Said(seat, i) = {}
      BY <2>3, <3>4 DEF Kept, Blank
    <3>6. Said(seat, i)' = {Told(k)}
      BY <1>3, <1>4, <1>8, <3>1, <3>3, <3>5 DEF Said
    <3>7. answers[j].of # 0 /\ answers[j].side = said[k]
      <4>1. Prompt(k) \in 1..NClaims /\ NClaims \in Nat
        BY <1>2, <3>1, ClaimsAssumption
      <4>2. QED
        BY <3>2, <4>1, BlankFacts
    <3>8. answers[j] \notin Blank
      BY <3>7, BlankFacts DEF Blank
    <3>9. Told(k) = <<seat, Batches[batch][i], answers[j].side>>
      BY <1>8, <3>1, <3>7
    <3>10. QED
      BY <3>6, <3>7, <3>8, <3>9 DEF Kept, Blank, NoAnswer, Missing, Answer
  <2>6. QED
    BY <2>4, <2>5
<1>9. ASSUME NEW i \in Places(batch), \A j \in DOMAIN window : window[j] # i
      PROVE  Said(seat, i)' = Said(seat, i)
  BY <1>2, <1>7, <1>9
<1>10. QED
  BY <1>5, <1>6, <1>8, <1>9

LEMMA VotesFacts ==
  ASSUME BatchOK, pc # "done", NEW i \in Places(batch)
  PROVE  /\ votes[i] \in Seq(Answers) /\ DOMAIN votes[i] = 1..Len(votes[i]) /\ Len(votes[i]) \in Nat
         /\ DOMAIN votes = Places(batch) /\ seat \in Nat /\ seat > 0 /\ Seats[batch] \in Nat
         /\ seat <= Seats[batch]
<1>1. VotesOK /\ batch \in DOMAIN Batches /\ seat \in 1..Seats[batch]
  BY DEF BatchOK
<1>2. votes[i] \in Seq(Answers) /\ DOMAIN votes = Places(batch)
  BY <1>1 DEF VotesOK
<1>3. DOMAIN votes[i] = 1..Len(votes[i]) /\ Len(votes[i]) \in Nat
  BY <1>2, LenProperties
<1>4. QED
  BY <1>1, <1>2, <1>3, BatchFacts

LEMMA KeptInit == Init => KeptOK
<1>1. SUFFICES ASSUME Init PROVE KeptOK
  OBVIOUS
<1>2. \A i \in Places(1) : votes[i] = <<>> /\ Len(votes[i]) = 0 /\ DOMAIN votes[i] = {}
  BY <1>1 DEF Init
<1>3. SeatsHeard
  BY <1>1, <1>2 DEF Init, SeatsHeard
<1>4. QED
  BY <1>1, <1>3 DEF Init, KeptOK

\* While a seat is in hand the votes of those before it stay as they were given.
LEMMA OthersKept ==
  ASSUME BatchOK, pc \in {"seat", "call"}, SeatsHeard, UNCHANGED <<batch, seat, votes>>,
         pc' \in {"call", "cast"},
         \A s, i : s # seat => Said(s, i)' = Said(s, i),
         \A h \in heard' : h \in heard \/ h[1] = seat
  PROVE  SeatsHeard'
<1>1. \A i \in Places(batch)' : Len(votes'[i]) = seat' - 1
  BY DEF SeatsHeard, Places
<1>2. ASSUME NEW i \in Places(batch), NEW s \in DOMAIN votes[i]
      PROVE  Kept(s, i, votes[i][s])'
  <2>1. s # seat
    <3>1. s \in 1..(seat - 1)
      BY VotesFacts DEF SeatsHeard
    <3>2. QED
      BY <3>1, VotesFacts
  <2>2. Kept(s, i, votes[i][s]) /\ Said(s, i)' = Said(s, i)
    BY <2>1 DEF SeatsHeard
  <2>3. QED
    BY <2>2 DEF Kept
<1>3. ASSUME NEW h \in heard' PROVE h[1] \in 1..seat
  <2>1. seat \in 1..seat /\ 1..(seat - 1) \subseteq 1..seat
    BY BatchFacts DEF BatchOK
  <2>2. QED
    BY <1>3, <2>1 DEF SeatsHeard
<1>4. QED
  BY <1>1, <1>2, <1>3 DEF SeatsHeard, Places

LEMMA ShuffleKept == ASSUME BatchOK, KeptOK, Shuffle PROVE KeptOK'
<1>1. pc = "seat" /\ UNCHANGED <<batch, seat, votes, heard>> /\ batch \in DOMAIN Batches
  BY DEF Shuffle, BatchOK
<1>2. PICK ord \in Orders(Len(Batches[batch])) : OpenWindow(ord)
  BY DEF Shuffle
<1>3. ord \in Seq(Places(batch)) /\ Distinct(ord)
  <2>1. Len(Batches[batch]) \in Nat /\ Places(batch) = 1..Len(Batches[batch])
    BY <1>1, BatchFacts
  <2>2. ord \in [Places(batch) -> Places(batch)]
    BY <2>1 DEF Orders
  <2>3. ord \in Seq(Places(batch))
    BY <2>1, <2>2
  <2>4. Distinct(ord)
    BY <2>1, <2>2 DEF Orders, Distinct
  <2>5. QED
    BY <2>3, <2>4
<1>4. pc' = "call"
  BY <1>2 DEF OpenWindow
<1>5. ASSUME NEW i \in Places(batch) PROVE Kept(seat, i, out[i])'
  <2>1. Said(seat, i) = {}
    <3>1. ASSUME NEW h \in heard, h[1] = seat PROVE FALSE
      <4>1. seat \in 1..(seat - 1)
        BY <1>1, <3>1 DEF KeptOK, SeatsHeard
      <4>2. QED
        BY <4>1, VotesFacts, <1>1
    <3>2. QED
      BY <3>1 DEF Said
  <2>2. out'[i] = NoAnswer
    BY DEF Shuffle
  <2>3. QED
    BY <1>1, <2>1, <2>2 DEF Kept, Said, Blank
<1>6. \A k \in DOMAIN ord : out'[ord[k]] = NoAnswer
  <2>1. \A k \in DOMAIN ord : ord[k] \in Places(batch)
    BY <1>3, LenProperties, ElementOfSeq
  <2>2. QED
    BY <2>1 DEF Shuffle
<1>7. InHand'
  BY <1>1, <1>2, <1>3, <1>5, <1>6, OpenKept
<1>8. SeatsHeard'
  <2>1. \A s, i : Said(s, i)' = Said(s, i)
    BY <1>1 DEF Said
  <2>2. QED
    BY <1>1, <1>4, <2>1, OthersKept DEF KeptOK
<1>9. QED
  BY <1>4, <1>7, <1>8 DEF KeptOK

LEMMA RaiseKept == ASSUME BatchOK, KeptOK, Raise PROVE KeptOK'
<1>1. /\ pc = "call" /\ UNCHANGED <<batch, seat, votes, heard>> /\ batch \in DOMAIN Batches
      /\ InHand /\ SeatsHeard /\ WindowOK
  BY DEF Raise, BatchOK, KeptOK
<1>2. \A s, i : Said(s, i)' = Said(s, i)
  BY <1>1 DEF Said
<1>3. CASE prov < ChainOf(seat)
  <2>1. UNCHANGED <<pc, order, window, asked, got, out>>
    BY <1>3 DEF Raise
  <2>2. InHand'
    BY <1>1, <2>1 DEF InHand, Kept, Said, Distinct, Places
  <2>3. SeatsHeard'
    BY <1>1, <1>2, <2>1, OthersKept
  <2>4. QED
    BY <1>1, <2>1, <2>2, <2>3 DEF KeptOK
<1>4. CASE ~(prov < ChainOf(seat))
  <2>1. PICK a : a = got
    OBVIOUS
  <2>2. CloseWindow(a) /\ a \in [DOMAIN window -> Answers \cup {Missing}]
    BY <1>1, <1>4, <2>1 DEF Raise, WindowOK
  <2>3. \A j \in DOMAIN window : \A i \in Places(batch) : window[j] = i => Kept(seat, i, a[j])'
    BY <1>1, <1>2, <2>1 DEF InHand, Kept
  <2>4. /\ pc' \in {"call", "cast"}
        /\ pc' = "call" => InHand'
        /\ pc' = "cast" => (\A i \in Places(batch) : Kept(seat, i, out[i]))'
    BY <1>1, <1>2, <2>2, <2>3, CloseKept
  <2>5. SeatsHeard'
    BY <1>1, <1>2, <2>4, OthersKept
  <2>6. QED
    BY <2>4, <2>5 DEF KeptOK
<1>5. QED
  BY <1>3, <1>4

LEMMA ReplyKept == ASSUME BatchOK, KeptOK, Reply PROVE KeptOK'
<1>1. /\ pc = "call" /\ UNCHANGED <<batch, seat, votes>> /\ batch \in DOMAIN Batches
      /\ InHand /\ SeatsHeard /\ WindowOK
  BY DEF Reply, BatchOK, KeptOK
<1>2. PICK said \in Replies : Hear(said) /\ CloseWindow(Filed(said))
  BY DEF Reply
<1>3. PICK a : a = Filed(said)
  OBVIOUS
<1>4. CloseWindow(a) /\ a \in [DOMAIN window -> Answers \cup {Missing}]
  BY <1>1, <1>2, <1>3, FiledFacts
<1>5. /\ \A j \in DOMAIN window : \A i \in Places(batch) : window[j] = i => Kept(seat, i, a[j])'
      /\ \A i \in Places(batch) :
           (\A j \in DOMAIN window : window[j] # i) => Said(seat, i)' = Said(seat, i)
      /\ \A s, i : s # seat => Said(s, i)' = Said(s, i)
      /\ \A h \in heard' : h \in heard \/ h[1] = seat
  BY <1>1, <1>2, <1>3, HearKept
<1>6. /\ pc' \in {"call", "cast"}
      /\ pc' = "call" => InHand'
      /\ pc' = "cast" => (\A i \in Places(batch) : Kept(seat, i, out[i]))'
  BY <1>1, <1>4, <1>5, CloseKept
<1>7. SeatsHeard'
  BY <1>1, <1>5, <1>6, OthersKept
<1>8. QED
  BY <1>6, <1>7 DEF KeptOK

LEMMA ShortReplyKept == ASSUME BatchOK, KeptOK, ShortReply PROVE KeptOK'
<1>1. /\ pc = "call" /\ UNCHANGED <<pc, order, window, out, batch, seat, votes>>
      /\ batch \in DOMAIN Batches /\ InHand /\ SeatsHeard /\ WindowOK
  BY DEF ShortReply, BatchOK, KeptOK
<1>2. PICK said \in Replies :
        /\ Hear(said) /\ got' = Filed(said)
        /\ LET rest == Unanswered(Filed(said))
           IN  \E again \in [1..Cardinality(rest) -> rest] :
                 /\ \A k, l \in DOMAIN again : k < l => again[k] < again[l]
                 /\ asked' = again
  BY DEF ShortReply
<1>3. PICK a : a = Filed(said)
  OBVIOUS
<1> DEFINE rest == Unanswered(a)
<1>4. PICK again \in [1..Cardinality(rest) -> rest] :
        asked' = again /\ \A k, l \in DOMAIN again : k < l => again[k] < again[l]
  BY <1>2, <1>3
<1>5. a \in [DOMAIN window -> Answers \cup {Missing}] /\ got' = a
  BY <1>1, <1>2, <1>3, FiledFacts
<1>6. /\ \A j \in DOMAIN window : \A i \in Places(batch) : window[j] = i => Kept(seat, i, a[j])'
      /\ \A i \in Places(batch) :
           (\A j \in DOMAIN window : window[j] # i) => Said(seat, i)' = Said(seat, i)
      /\ \A s, i : s # seat => Said(s, i)' = Said(s, i)
      /\ \A h \in heard' : h \in heard \/ h[1] = seat
  BY <1>1, <1>2, <1>3, HearKept
<1>7. rest \subseteq DOMAIN window /\ (\A j \in rest : a[j] = Missing) /\ DOMAIN window \subseteq Nat
  <2>1. DOMAIN window \subseteq Nat
    BY <1>1, LenProperties DEF WindowOK
  <2>2. QED
    BY <1>5, <2>1 DEF Unanswered
<1>8. Distinct(asked')
  <2>1. ASSUME NEW k \in DOMAIN again, NEW l \in DOMAIN again, again[k] = again[l] PROVE k = l
    <3>1. k \in Int /\ l \in Int /\ again[k] \in Nat
      BY <1>7
    <3>2. ~(k < l) /\ ~(l < k)
      <4>1. again[l] \in Nat /\ (k < l => again[k] < again[l]) /\ (l < k => again[l] < again[k])
        BY <1>4, <2>1, <3>1
      <4>2. QED
        BY <2>1, <3>1, <4>1
    <3>3. QED
      BY <3>1, <3>2
  <2>2. QED
    BY <1>4, <2>1 DEF Distinct
<1>9. \A k \in DOMAIN asked' : got'[asked'[k]] = Missing
  BY <1>4, <1>5, <1>7
<1>10. ASSUME NEW j \in DOMAIN window PROVE Kept(seat, window[j], got[j])'
  <2>1. PICK i \in Places(batch) : i = window[j]
    BY <1>1, LenProperties, ElementOfSeq DEF WindowOK
  <2>2. Kept(seat, i, a[j])'
    BY <1>6, <2>1
  <2>3. QED
    BY <1>1, <1>5, <2>1, <2>2 DEF Kept, Said
<1>11. ASSUME NEW i \in Places(batch), \A j \in DOMAIN window : window[j] # i
       PROVE  Kept(seat, i, out[i])'
  <2>1. Said(seat, i)' = Said(seat, i) /\ Kept(seat, i, out[i])
    BY <1>1, <1>6, <1>11 DEF InHand
  <2>2. QED
    BY <1>1, <2>1 DEF Kept
<1>12. InHand'
  <2>1. Distinct(order)' /\ Distinct(window)'
    BY <1>1 DEF InHand, Distinct
  <2>2. QED
    BY <1>1, <1>8, <1>9, <1>10, <1>11, <2>1 DEF InHand, Places
<1>13. SeatsHeard'
  BY <1>1, <1>6, OthersKept
<1>14. QED
  BY <1>1, <1>12, <1>13 DEF KeptOK

LEMMA CastKept == ASSUME BatchOK, KeptOK, Cast PROVE KeptOK'
<1>1. /\ pc = "cast" /\ UNCHANGED <<batch, heard>> /\ batch \in DOMAIN Batches
      /\ pc' \in {"seat", "batch"} /\ SeatsHeard /\ OutOK
      /\ \A i \in Places(batch) : Kept(seat, i, out[i])
  BY DEF Cast, BatchOK, KeptOK
<1>2. IF pc' = "batch" THEN seat = Seats[batch] ELSE seat' - 1 = seat
  <2>1. 1 \in Places(batch)
    BY <1>1, BatchFacts
  <2>2. seat \in Nat /\ Seats[batch] \in Nat /\ seat <= Seats[batch]
    BY <1>1, <2>1, VotesFacts
  <2>3. QED
    BY <2>2 DEF Cast
<1>3. \A s, i, x : Kept(s, i, x)' <=> Kept(s, i, x)
  BY <1>1 DEF Kept, Said
<1>4. ASSUME NEW i \in Places(batch)
      PROVE  /\ Len(votes'[i]) = seat
             /\ \A s \in DOMAIN votes'[i] : Kept(s, i, votes'[i][s])
  <2>1. /\ votes[i] \in Seq(Answers) /\ DOMAIN votes[i] = 1..Len(votes[i])
        /\ Len(votes[i]) = seat - 1 /\ seat \in Nat /\ Len(votes[i]) \in Nat
        /\ votes'[i] = Append(votes[i], out[i]) /\ out[i] \in Answers
    BY <1>1, VotesFacts DEF Cast, SeatsHeard, OutOK
  <2>2. /\ votes'[i] \in Seq(Answers) /\ Len(votes'[i]) = Len(votes[i]) + 1
        /\ \A s \in 1..Len(votes[i]) : votes'[i][s] = votes[i][s]
        /\ votes'[i][Len(votes[i]) + 1] = out[i]
    BY <2>1, AppendProperties
  <2>3. DOMAIN votes'[i] = 1..Len(votes'[i])
    BY <2>2, LenProperties
  <2>4. ASSUME NEW s \in DOMAIN votes'[i] PROVE Kept(s, i, votes'[i][s])
    <3>1. CASE s = seat
      BY <1>1, <2>1, <2>2, <3>1
    <3>2. CASE s # seat
      <4>1. s \in 1..Len(votes[i])
        BY <2>1, <2>2, <2>3, <3>2
      <4>2. QED
        BY <1>1, <2>1, <2>2, <4>1 DEF SeatsHeard
    <3>3. QED
      BY <3>1, <3>2
  <2>5. QED
    BY <2>1, <2>2, <2>4
<1>5. \A h \in heard : h[1] \in 1..seat
  BY <1>1 DEF SeatsHeard
<1>6. SeatsHeard'
  <2>1. \A i \in Places(batch)' : \A s \in DOMAIN votes'[i] : Kept(s, i, votes[i][s])'
    BY <1>1, <1>3, <1>4 DEF Places
  <2>2. QED
    BY <1>1, <1>2, <1>4, <1>5, <2>1 DEF SeatsHeard, Places
<1>7. QED
  BY <1>1, <1>6 DEF KeptOK

LEMMA NextBatchKept == ASSUME BatchOK, KeptOK, NextBatch PROVE KeptOK'
<1>1. /\ heard' = {} /\ seat' = 1 /\ pc' \in {"seat", "done"}
      /\ pc' = "seat" => votes' = [i \in Places(batch') |-> <<>>]
  BY DEF NextBatch, BatchOK
<1>2. pc' = "seat" => SeatsHeard'
  BY <1>1 DEF SeatsHeard, Places
<1>3. QED
  BY <1>1, <1>2 DEF KeptOK

LEMMA JNextKept == ASSUME BatchOK, KeptOK, [JNext]_vars PROVE KeptOK'
<1>1. CASE Judge
  BY <1>1, ShuffleKept, RaiseKept, ReplyKept, ShortReplyKept, CastKept DEF Judge
<1>2. CASE Row
  BY <1>2, NextBatchKept DEF Row
<1>3. CASE Route \/ Gate \/ Launch \/ UNCHANGED vars
  <2>1. UNCHANGED batchVars
    BY <1>3 DEF Route, Gate, Launch, vars
  <2>2. QED
    BY <2>1 DEF batchVars, callVars, KeptOK, SeatsHeard, InHand, Kept, Said, Distinct, Places
<1>4. QED
  BY <1>1, <1>2, <1>3 DEF JNext

\* AnswersAreKept: the vote of a seat is what a provider told it, and it is empty only if no
\* call of that seat, first or repair, on whatever provider, brought an answer on that claim.
THEOREM AnswersStayKept == Spec => []AnswersAreKept
<1>1. JInit => BatchOK /\ KeptOK
  BY BatchInit, KeptInit DEF JInit
<1>2. BatchOK /\ KeptOK /\ [JNext]_vars => BatchOK' /\ KeptOK'
  BY JNextKeepsBatch, JNextKept
<1>3. BatchOK /\ KeptOK => AnswersAreKept
  <2>1. SUFFICES ASSUME BatchOK, KeptOK, NEW i \in DOMAIN votes, NEW s \in DOMAIN votes[i]
                 PROVE  LET said == {h \in heard : h[1] = s /\ h[2] = Batches[batch][i]}
                        IN  IF votes[i][s].of = 0 THEN said = {}
                            ELSE <<s, Batches[batch][i], votes[i][s].side>> \in said
    BY DEF AnswersAreKept
  <2>2. pc # "done" /\ i \in Places(batch)
    BY <2>1 DEF BatchOK, VotesOK
  <2>3. Kept(s, i, votes[i][s])
    BY <2>1, <2>2 DEF KeptOK, SeatsHeard
  <2>4. QED
    BY <2>3, BlankFacts DEF Kept, Said, Blank
<1>4. QED
  BY <1>1, <1>2, <1>3, PTL DEF Spec

-----------------------------------------------------------------------------
(* Agreement.  Of a claim on which a side was said and the other was not,  *)
(* the row has no dissent (AgreedOK): the votes are what was said (KeptOK).*)
(* If that holds of all claims the first stands for them, and its odds     *)
(* are below the floor.                                                    *)

AgreedOK ==
  \A c \in 1..NClaims :
    rows[c].judged /\ Cardinality(rows[c].voices) = 1 =>
      rows[c].dissent = 0 /\ rows[c].p \in {0, Unit}

\* The gate can only take back what was decided for a voi_routed job.
DecidedOK == step # "route" /\ request.standard = "voi_routed" /\ decision.buy => pick.buy

LEMMA ExactDiv ==
  ASSUME NEW u \in Nat, NEW b \in Nat \ {0}
  PROVE  (u * b) \div b = u
<1> DEFINE q == (u * b) \div b
<1>1. q \in Nat /\ q <= u
  <2>1. u * b \in Nat /\ u * b <= u * b
    OBVIOUS
  <2>2. QED
    BY <2>1, DivFacts
<1>2. u * b = b * q + ((u * b) % b) /\ (u * b) % b \in 0..(b - 1)
  OBVIOUS
<1> DEFINE r == (u * b) % b
<1> HIDE DEF q, r
<1>3. u * b = b * q + r /\ r \in 0..(b - 1)
  BY <1>2 DEF q, r
<1>4. ASSUME q # u PROVE FALSE
  <2>1. q + 1 <= u
    BY <1>1, <1>4
  <2>2. b * (q + 1) <= b * u
    BY <1>1, <2>1
  <2>3. b * (q + 1) = b * q + b /\ b * u = u * b
    BY <1>1
  <2>4. b * q \in Nat /\ u * b \in Nat
    BY <1>1
  <2>5. QED
    BY <1>3, <2>2, <2>3, <2>4
<1>5. QED
  BY <1>4 DEF q

\* One side and silence.
LEMMA OneVoice ==
  ASSUME NEW vs \in Seq(Answers), NEW x \in {"yes", "no"}, NEW voices,
         \E k \in DOMAIN vs : vs[k].side = x,
         \A k \in DOMAIN vs : vs[k].side \in {x, "skip"}
  PROVE  ClaimRow(vs, voices).dissent = 0 /\ ClaimRow(vs, voices).p \in {0, Unit}
<1> DEFINE y == IF x = "yes" THEN "no" ELSE "yes"
           cx == Count(vs, x)  cy == Count(vs, y)
<1>1. cx \in Nat /\ cy \in Nat
  BY CountFacts
<1>2. cy = 0
  <2>1. {k \in DOMAIN vs : vs[k].side = y} = {}
    OBVIOUS
  <2>2. QED
    BY <2>1, FS_EmptySet DEF Count
<1>3. cx # 0
  <2>1. {k \in DOMAIN vs : vs[k].side = x} # {}
    OBVIOUS
  <2>2. IsFiniteSet({k \in DOMAIN vs : vs[k].side = x})
    <3>1. IsFiniteSet(DOMAIN vs)
      BY LenProperties, FS_Interval
    <3>2. QED
      BY <3>1, FS_Subset
  <2>3. QED
    BY <2>1, <2>2, FS_EmptySet DEF Count
<1>4. \/ Count(vs, "yes") = cx /\ Count(vs, "no") = 0 /\ x = "yes"
      \/ Count(vs, "yes") = 0 /\ Count(vs, "no") = cx /\ x = "no"
  BY <1>2
<1> HIDE DEF cx
<1>5. Side(vs) = x
  BY <1>1, <1>3, <1>4 DEF Side
<1>6. Agreement(vs) = Unit
  <2>1. Agreement(vs) = (Unit * cx) \div cx
    BY <1>1, <1>3, <1>4 DEF Agreement, Larger
  <2>2. Unit \in Nat /\ cx \in Nat \ {0}
    BY <1>1, <1>3, HalfFacts
  <2>3. QED
    BY <2>1, <2>2, ExactDiv
<1>7. Dissent(vs) = 0
  BY <1>5, <1>6, HalfFacts DEF Dissent
<1>8. QED
  BY <1>5, <1>7 DEF ClaimRow

LEMMA VoteOfVoice ==
  ASSUME BatchOK, KeptOK, pc = "batch", NEW i \in Places(batch)
  PROVE  /\ votes[i] \in Seq(Answers)
         /\ \A k \in DOMAIN votes[i] :
              votes[i][k].side \in Voices(Batches[batch][i]) \cup {"skip"}
         /\ \A x \in Voices(Batches[batch][i]) : \E k \in DOMAIN votes[i] : votes[i][k].side = x
<1> DEFINE c == Batches[batch][i]
<1>1. /\ SeatsHeard /\ HeardOK /\ Len(votes[i]) = Seats[batch]
      /\ DOMAIN votes[i] = 1..Seats[batch] /\ votes[i] \in Seq(Answers)
  BY VotesFacts DEF KeptOK, SeatsHeard, BatchOK
<1>2. ASSUME NEW k \in DOMAIN votes[i]
      PROVE  /\ Kept(k, i, votes[i][k]) /\ votes[i][k] \in Answers
             /\ votes[i][k] \in Blank => votes[i][k].side = "skip"
  <2>1. Kept(k, i, votes[i][k]) /\ votes[i][k] \in Answers
    BY <1>1, ElementOfSeq, LenProperties DEF SeatsHeard
  <2>2. Missing \notin Answers
    BY DEF Missing, Answer, Answers, Sides
  <2>3. QED
    BY <2>1, <2>2, BlankFacts DEF Blank
<1>3. ASSUME NEW k \in DOMAIN votes[i] PROVE votes[i][k].side \in Voices(c) \cup {"skip"}
  <2>1. CASE votes[i][k] \in Blank
    BY <1>2, <2>1
  <2>2. CASE votes[i][k] \notin Blank
    <3>1. <<k, c, votes[i][k].side>> \in heard
      BY <1>2, <2>2 DEF Kept, Said
    <3>2. QED
      BY <3>1 DEF Voices
  <2>3. QED
    BY <2>1, <2>2
<1>4. ASSUME NEW x \in Voices(c) PROVE \E k \in DOMAIN votes[i] : votes[i][k].side = x
  <2>1. PICK h \in heard : h[2] = c /\ h[3] = x
    BY <1>4 DEF Voices
  <2>2. h[1] \in DOMAIN votes[i] /\ h \in Said(h[1], i)
    BY <1>1, <2>1 DEF SeatsHeard, Said
  <2>3. h = <<h[1], c, votes[i][h[1]].side>>
    BY <1>2, <2>2 DEF Kept
  <2>4. QED
    BY <2>1, <2>2, <2>3
<1>5. QED
  BY <1>1, <1>3, <1>4

LEMMA RowAgreed == ASSUME JInv, KeptOK, AgreedOK, Row PROVE AgreedOK'
<1>1. pc = "batch" /\ BatchOK /\ VotesOK /\ HeardOK
  BY DEF Row, NextBatch, JInv, BatchOK
<1> DEFINE is(c) == {i \in DOMAIN votes : Batches[batch][i] = c}
           row(c) == IF is(c) = {} THEN rows[c]
                     ELSE ClaimRow(votes[CHOOSE i \in is(c) : TRUE], Voices(c))
<1>2. rows' = [c \in 1..NClaims |-> row(c)]
  BY DEF Row
<1>3. ASSUME NEW c \in 1..NClaims, row(c).judged, Cardinality(row(c).voices) = 1
      PROVE  row(c).dissent = 0 /\ row(c).p \in {0, Unit}
  <2>1. CASE is(c) = {}
    BY <1>3, <2>1 DEF AgreedOK
  <2>2. CASE is(c) # {}
    <3> DEFINE i == CHOOSE i \in is(c) : TRUE
    <3>1. i \in Places(batch) /\ Batches[batch][i] = c
      BY <1>1, <2>2 DEF VotesOK
    <3>2. row(c) = ClaimRow(votes[i], Voices(c))
      BY <2>2
    <3> HIDE DEF i, is, row
    <3>3. row(c).voices = Voices(c)
      BY <3>2 DEF ClaimRow
    <3>4. PICK x : Voices(c) = {x} /\ x \in {"yes", "no"}
      <4>1. Voices(c) \in SUBSET {"yes", "no"}
        BY <1>1, VoicesFacts
      <4>2. IsFiniteSet({"yes", "no"})
        <5>1. IsFiniteSet({"yes"} \cup {"no"})
          BY FS_AddElement, FS_Singleton
        <5>2. {"yes", "no"} = {"yes"} \cup {"no"}
          OBVIOUS
        <5>3. QED
          BY <5>1, <5>2
      <4>3. IsFiniteSet(Voices(c))
        BY <4>1, <4>2, FS_Subset
      <4>4. \E x : Voices(c) = {x}
        BY <1>3, <3>3, <4>3, FS_Singleton
      <4>5. QED
        BY <4>1, <4>4
    <3>5. /\ votes[i] \in Seq(Answers) /\ \A k \in DOMAIN votes[i] : votes[i][k].side \in {x, "skip"}
          /\ \E k \in DOMAIN votes[i] : votes[i][k].side = x
      BY <1>1, <3>1, <3>4, VoteOfVoice
    <3>6. QED
      BY <3>2, <3>4, <3>5, OneVoice
  <2>3. QED
    BY <2>1, <2>2
<1> HIDE DEF row
<1>4. QED
  BY <1>2, <1>3 DEF AgreedOK

LEMMA RouteDecided == ASSUME JInv, Route PROVE DecidedOK'
  BY DEF Route, DecidedOK, ApplyStandard

LEMMA GateDecided == ASSUME JInv, DecidedOK, Gate PROVE DecidedOK'
<1>1. UNCHANGED <<request, pick>> /\ step # "route" /\ decision \in Decisions
      /\ decision' \in {decision, [decision EXCEPT !.buy = FALSE]}
  BY DEF Gate, JInv, BuyOK
<1>2. decision'.buy => decision.buy
  BY <1>1 DEF Decisions
<1>3. QED
  BY <1>1, <1>2 DEF DecidedOK

LEMMA AgreedNext ==
  ASSUME JInv, KeptOK, AgreedOK, DecidedOK, [JNext]_vars
  PROVE  AgreedOK' /\ DecidedOK'
<1>1. CASE Judge /\ UNCHANGED <<rows, buyVars>>
  BY <1>1 DEF AgreedOK, DecidedOK, buyVars
<1>2. CASE Row
  <2>1. DecidedOK'
    BY <1>2 DEF Row, DecidedOK, buyVars
  <2>2. QED
    BY <1>2, <2>1, RowAgreed
<1>3. CASE Route
  BY <1>3, RouteDecided DEF Route, AgreedOK
<1>4. CASE Gate
  BY <1>4, GateDecided DEF Gate, AgreedOK
<1>5. CASE Launch
  BY <1>5 DEF Launch, AgreedOK, DecidedOK
<1>6. CASE UNCHANGED vars
  BY <1>6 DEF vars, buyVars, AgreedOK, DecidedOK
<1>7. QED
  BY <1>1, <1>2, <1>3, <1>4, <1>5, <1>6 DEF JNext

\* UnanimityIsFree: a voi_routed job whose first claim was judged, and on each of whose judged
\* claims one side was said and the other was not, buys nobody: for any prices, gains, stake,
\* number of evaluators and silences among them.
THEOREM AgreementCostsNothing == Spec => []UnanimityIsFree
<1>1. JInit => JInv /\ KeptOK /\ AgreedOK /\ DecidedOK
  <2>1. JInit => AgreedOK /\ DecidedOK
    BY DEF JInit, AgreedOK, DecidedOK, ObjectiveRow
  <2>2. QED
    BY <2>1, InitOK, KeptInit DEF JInit
<1>2. JInv /\ KeptOK /\ AgreedOK /\ DecidedOK /\ [JNext]_vars => (JInv /\ KeptOK /\ AgreedOK /\ DecidedOK)'
  <2>1. JInv => BatchOK
    BY DEF JInv
  <2>2. QED
    BY <2>1, NextOK, JNextKept, AgreedNext
<1>3. JInv /\ AgreedOK /\ DecidedOK => UnanimityIsFree
  <2>1. SUFFICES ASSUME JInv, AgreedOK, DecidedOK,
                        step # "route", request.standard = "voi_routed", rows[1].judged,
                        \A i \in DOMAIN rows : rows[i].judged => Cardinality(rows[i].voices) = 1
                 PROVE  ~decision.buy
    BY DEF UnanimityIsFree, Routed
  <2>2. RowsOK /\ DOMAIN rows = 1..NClaims /\ NClaims \in Nat \ {0}
    BY <2>1, SomeClaim DEF JInv, RowsOK
  <2>3. \A i \in 1..NClaims : rows[i].dissent = 0
    BY <2>1, <2>2 DEF AgreedOK, RowsOK, RowOK
  <2>4. Worst = 1
    BY <2>2, <2>3, WorstFacts
  <2>5. rows[1].dissent = 0 /\ rows[1].p \in {0, Unit} /\ rows[1].p \in {0, Unit \div 2, Unit}
    BY <2>1, <2>2, <2>3 DEF AgreedOK
  <2>6. WrongWithout(rows[1].p, rows[1].dissent) = 0
    <3>1. 0 \in 0..Unit /\ 0 * Unit = 0
      BY HalfFacts
    <3>2. QED
      BY <2>5, <3>1, WrongFacts
  <2>7. BelowFloor(0)
    <3>1. Whole \in Nat
      BY HalfFacts DEF Whole
    <3>2. QED
      BY <3>1 DEF BelowFloor
  <2>8. Decide(rows[1], request, gain) = NoBuy
    BY <2>5, <2>6, <2>7 DEF Decide
  <2>9. ~pick.buy
    BY <2>1, <2>4, <2>8 DEF JInv, BuyOK, NoBuy
  <2>10. QED
    BY <2>1, <2>9 DEF DecidedOK
<1>4. QED
  BY <1>1, <1>2, <1>3, PTL DEF Spec
=============================================================================
