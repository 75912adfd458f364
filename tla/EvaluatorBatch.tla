--------------------------- MODULE EvaluatorBatch ---------------------------
(***************************************************************************)
(* How the model evaluators judge a rubric (evaluators.py).  Claims are    *)
(* evaluated in batches; each seat of the panel judges the whole batch in  *)
(* an order of its own, a window of claims per call.  A call names its     *)
(* claims by their place in the prompt, and what comes back may be short,  *)
(* or nothing at all: the next provider is tried, a short reply is         *)
(* repaired by one more call about the rest, and what is still missing is  *)
(* a vote for nothing.  What an answer says is abstracted to its side.     *)
(***************************************************************************)
EXTENDS Integers, Sequences, FiniteSets

CONSTANTS
  NClaims,    \* length of the rubric
  Batches,    \* sequences of claims judged together: those of a lens, or a single one
  Seats,      \* per batch: how many personas judge it
  Chain,      \* how many providers have a key
  SecondFamily,   \* the second seat has a provider of its own before them
  MaxChunk    \* MAX_CLAIMS_PER_CALL

ASSUME ClaimsAssumption ==
  /\ NClaims \in Nat
  /\ Batches \in Seq(Seq(1..NClaims)) /\ Batches # <<>>
  /\ \A b \in DOMAIN Batches :
       /\ Batches[b] # <<>>
       /\ \A i, j \in DOMAIN Batches[b] : Batches[b][i] = Batches[b][j] => i = j
ASSUME PanelAssumption ==
  /\ Seats \in [DOMAIN Batches -> Nat \ {0}]
  /\ Chain \in Nat \ {0} /\ SecondFamily \in BOOLEAN /\ MaxChunk \in Nat \ {0}

VARIABLES
  pc,       \* "seat", "call", "cast", "batch", "done"
  batch,    \* the batch being judged
  seat,     \* the seat that judges it
  order,    \* places in the batch this seat has not come to
  window,   \* the places the current call (and its repair) is about
  asked,    \* the places in the window the current call asks about
  prov,     \* the provider it goes to
  got,      \* per place in the window: its answer so far
  out,      \* per place in the batch: this seat's vote
  votes,    \* per place in the batch: the votes cast, one per seat
  heard     \* <<seat, claim, side>>: every answer any provider gave (history)

callVars == <<order, window, asked, prov, got>>
batchVars == <<pc, batch, seat, callVars, out, votes, heard>>

Sides == {"yes", "no", "skip"}
\* An answer remembers the claim whose text it was given on.
Answer(side, claim) == [side |-> side, of |-> claim]
Answers == [side : Sides, of : 0..NClaims]
\* _error_forecast: a vote that nobody gave.
NoAnswer == Answer("skip", 0)
Missing == Answer("none", 0)

Places(b) == DOMAIN Batches[b]
Orders(n) == {p \in [1..n -> 1..n] : \A i, j \in 1..n : p[i] = p[j] => i = j}

\* _seat_providers: how many are tried for a seat.
ChainOf(s) == IF SecondFamily /\ s = 2 THEN Chain + 1 ELSE Chain

Init ==
  /\ pc = "seat" /\ batch = 1 /\ seat = 1
  /\ order = <<>> /\ window = <<>> /\ asked = <<>> /\ prov = 1 /\ got = <<>>
  /\ out = <<>>
  /\ votes = [i \in Places(1) |-> <<>>]
  /\ heard = {}

\* The next window of the order ord: all of it is asked of the first provider.
OpenWindow(ord) ==
  LET n == IF Len(ord) < MaxChunk THEN Len(ord) ELSE MaxChunk
  IN  /\ window' = SubSeq(ord, 1, n)
      /\ order' = SubSeq(ord, n + 1, Len(ord))
      /\ asked' = [k \in 1..n |-> k]
      /\ got' = [j \in 1..n |-> Missing]
      /\ prov' = 1
      /\ pc' = "call"

\* The votes of the window are what was got, and a vote for nothing where nothing was.
CloseWindow(answers) ==
  /\ out' = [i \in DOMAIN out |->
               LET js == {j \in DOMAIN window : window[j] = i /\ answers[j] # Missing}
               IN  IF js = {} THEN out[i] ELSE answers[CHOOSE j \in js : TRUE]]
  /\ IF order # <<>>
       THEN OpenWindow(order)
       ELSE /\ window' = <<>> /\ asked' = <<>> /\ got' = <<>> /\ prov' = 1
            /\ pc' = "cast" /\ UNCHANGED order

-----------------------------------------------------------------------------
\* A seat begins: its own shuffle of the batch.
Shuffle ==
  /\ pc = "seat"
  /\ \E ord \in Orders(Len(Batches[batch])) : OpenWindow(ord)
  /\ out' = [i \in Places(batch) |-> NoAnswer]
  /\ UNCHANGED <<batch, seat, votes, heard>>

\* (mutant) When a repair fails, what the first call brought is dropped with it.
RaiseDropsAll ==
  /\ pc = "call"
  /\ IF prov < ChainOf(seat)
       THEN prov' = prov + 1 /\ UNCHANGED <<pc, order, window, asked, got, out>>
       ELSE CloseWindow([j \in DOMAIN got |-> Missing])
  /\ UNCHANGED <<batch, seat, votes, heard>>

\* The provider fails (HTTP status, timeout, a reply that is not JSON): the next one is asked,
\* and after the last the window makes do with what it has.
Raise ==
  /\ pc = "call"
  /\ IF prov < ChainOf(seat)
       THEN prov' = prov + 1 /\ UNCHANGED <<pc, order, window, asked, got, out>>
       ELSE CloseWindow(got)
  /\ UNCHANGED <<batch, seat, votes, heard>>

\* The claim that is number k of the prompt.
Prompt(k) == Batches[batch][window[asked[k]]]

\* (mutant) A repair's answers are numbered like the window's.
FiledByNumber(said) ==
  [j \in DOMAIN got |->
     IF j \in DOMAIN asked /\ said[j] # "none" THEN Answer(said[j], Prompt(j)) ELSE got[j]]

\* got with the reply said: number k of the prompt is place asked[k] of the window.
Filed(said) ==
  [j \in DOMAIN got |->
     LET ks == {k \in DOMAIN asked : asked[k] = j /\ said[k] # "none"}
     IN  IF ks = {} THEN got[j]
         ELSE LET k == CHOOSE k \in ks : TRUE IN Answer(said[k], Prompt(k))]

\* Entries without a usable number are skipped, of two with the same number the first counts,
\* and a side whose quote is not in the text is a skip: some claims are answered, some not.
Replies == [DOMAIN asked -> Sides \cup {"none"}]
Hear(said) ==
  heard' = heard \cup {<<seat, Prompt(k), said[k]>> : k \in {k \in DOMAIN asked : said[k] # "none"}}

Unanswered(answers) == {j \in DOMAIN answers : answers[j] = Missing}
IsFirst == Len(asked) = Len(window)
\* A first reply that is short, but not empty, is repaired.
NeedsRepair(answers) ==
  IsFirst /\ Unanswered(answers) # {} /\ Unanswered(answers) # DOMAIN answers

Reply ==
  /\ pc = "call"
  /\ \E said \in Replies :
       /\ ~NeedsRepair(Filed(said))
       /\ Hear(said)
       /\ CloseWindow(Filed(said))
  /\ UNCHANGED <<batch, seat, votes>>

ShortReply ==
  /\ pc = "call"
  /\ \E said \in Replies :
       LET rest == Unanswered(Filed(said))
       IN  /\ NeedsRepair(Filed(said))
           /\ Hear(said)
           /\ got' = Filed(said)
           /\ \E again \in [1..Cardinality(rest) -> rest] :
                /\ \A k, l \in DOMAIN again : k < l => again[k] < again[l]
                /\ asked' = again
  /\ prov' = 1
  /\ UNCHANGED <<pc, order, window, out, batch, seat, votes>>

\* The seat's votes, one on every claim of the batch.
Cast ==
  /\ pc = "cast"
  /\ votes' = [i \in DOMAIN votes |-> Append(votes[i], out[i])]
  /\ IF seat < Seats[batch] THEN seat' = seat + 1 /\ pc' = "seat"
                            ELSE seat' = 1 /\ pc' = "batch"
  /\ out' = <<>>
  /\ UNCHANGED <<batch, callVars, heard>>

\* The results are taken, and the next batch begins.
NextBatch ==
  /\ pc = "batch"
  /\ IF batch < Len(Batches)
       THEN /\ batch' = batch + 1 /\ pc' = "seat"
            /\ votes' = [i \in Places(batch + 1) |-> <<>>]
       ELSE pc' = "done" /\ votes' = <<>> /\ UNCHANGED batch
  /\ heard' = {}
  /\ UNCHANGED <<seat, callVars, out>>

Judge == Shuffle \/ Raise \/ Reply \/ ShortReply \/ Cast

-----------------------------------------------------------------------------
(* Correctness.                                                            *)

BatchTypeOK ==
  /\ pc \in {"seat", "call", "cast", "batch", "done"}
  /\ batch \in DOMAIN Batches /\ seat \in 1..Seats[batch]
  /\ pc # "done" => votes \in [Places(batch) -> Seq(Answers)]
  /\ order \in Seq(Places(batch)) /\ window \in Seq(Places(batch))
  /\ asked \in Seq(DOMAIN window) /\ prov \in 1..ChainOf(seat)
  /\ got \in [DOMAIN window -> Answers \cup {Missing}]
  /\ pc \in {"call", "cast"} => out \in [Places(batch) -> Answers]
  /\ heard \subseteq Nat \X (1..NClaims) \X Sides

\* Through shuffle, window, reply and repair, no vote on a claim was given on another one.
AnswersStayHome ==
  \A i \in DOMAIN votes : \A v \in DOMAIN votes[i] : votes[i][v].of \in {0, Batches[batch][i]}

\* A seat's vote is an answer that a provider gave, and it is empty only if no call of that
\* seat, first or repair, on whatever provider, brought an answer on that claim.
AnswersAreKept ==
  \A i \in DOMAIN votes : \A s \in DOMAIN votes[i] :
    LET said == {h \in heard : h[1] = s /\ h[2] = Batches[batch][i]}
    IN  IF votes[i][s].of = 0 THEN said = {} ELSE <<s, Batches[batch][i], votes[i][s].side>> \in said
=============================================================================
