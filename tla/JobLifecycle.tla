---------------------------- MODULE JobLifecycle ----------------------------
(***************************************************************************)
(* One judged job from the row judge.start leaves behind to its last human *)
(* answer: the event loop that takes answers (on_human_answer), the thread *)
(* pool that serves reads (verdict, which settles an overdue job), the     *)
(* operator who recruits a panel (launch_humans), and the two background   *)
(* threads that each add one key (patch_job_state).                        *)
(*                                                                         *)
(* The row is one JSON state.  Everyone but the patchers reads all of it,  *)
(* works, and puts all of it back (store.put_job), so a thread carries a   *)
(* snapshot from its read to its write.  Every database call is atomic.    *)
(***************************************************************************)
EXTENDS Naturals

CONSTANTS
  Readers,      \* thread-pool threads serving GETs
  Operators,    \* threads running launch_humans (POST /admin, RC_TERAC_AUTO)
  MinN,         \* HUMAN_MIN_N_TO_SETTLE
  TargetN,      \* HUMAN_TARGET_N
  HasPhone,     \* the buyer left a notify_phone
  HasReplay,    \* the job has a Replay QA handle
  PatchKeys,    \* the keys background threads add (probes, hackathon)
  MaxAnswers, MaxLaunches, MaxPolls,   \* bounds on inputs
  NoSnap        \* "no snapshot held"

Loop == "loop"
Threads == {Loop} \cup Readers \cup Operators

ASSUME ThreadAssumption ==
  Loop \notin Readers \cup Operators /\ Readers \cap Operators = {}
ASSUME CountAssumption == /\ MinN \in Nat \ {0} /\ TargetN \in Nat /\ MinN <= TargetN
                          /\ MaxAnswers \in Nat /\ MaxLaunches \in Nat /\ MaxPolls \in Nat
ASSUME FlagAssumption == HasPhone \in BOOLEAN /\ HasReplay \in BOOLEAN

VARIABLES
  row,          \* the jobs row: status and the JSON state
  yes, no,      \* human_answers on claim 0
  launches,     \* panels launched so far (a launch's number stands for its launched_at)
  overdue,      \* the launches RC_HUMAN_TIMEOUT_S has passed for
  polls,        \* how often Replay QA was polled
  patched,      \* the background threads that have finished
  texts,        \* verdict texts sent to the buyer (history)
  pc,           \* per thread: its next database call
  snap,         \* per thread: the row as it last read it
  inner,        \* per thread: the row the verdict() inside it last read
  seen,         \* per thread: the answers it last counted
  back          \* per thread: where _notify returns to

inputVars == <<yes, no, launches, overdue, polls, patched>>
threadVars == <<pc, snap, inner, seen, back>>
vars == <<row, inputVars, texts, threadVars>>

Sides == {"none", "yes", "no", "undecided"}

\* judge._majority
Majority(y, n) == IF y > n THEN "yes" ELSE IF n > y THEN "no" ELSE "undecided"

\* (mutant) Answers counted at an earlier settlement are counted again.
CountAgain(st, y, n) ==
  [st EXCEPT !.humans = @ + y + n, !.side = Majority(y, n),
             !.scored = IF y = n THEN @ ELSE Majority(y, n)]

\* _settle_against_humans: what it writes into the state it was given.  A tie leaves the
\* scores (brier, flipped) of the settlement before it.
SettledBy(st, y, n) ==
  [st EXCEPT !.humans = y + n,
             !.side = Majority(y, n),
             !.scored = IF y = n THEN @ ELSE Majority(y, n)]

FreshState(p, l) ==
  [panel |-> p, launch |-> l, humans |-> 0, side |-> "none", scored |-> "none",
   timedOut |-> FALSE, notified |-> FALSE, keys |-> {}]

\* judge.start has bought a panel, or settled on the models' consensus and told the buyer.
Init ==
  /\ \/ /\ row \in {[status |-> "awaiting_humans", st |-> FreshState(p, 1)] : p \in {"local", "paid"}}
        /\ launches = 1 /\ texts = 0
     \/ /\ row = [status |-> "settled",
                  st |-> [FreshState("none", 0) EXCEPT !.notified = HasPhone]]
        /\ launches = 0 /\ texts = IF HasPhone THEN 1 ELSE 0
  /\ yes = 0 /\ no = 0 /\ overdue = {} /\ polls = 0 /\ patched = {}
  /\ pc = [t \in Threads |-> "idle"]
  /\ snap = [t \in Threads |-> NoSnap]
  /\ inner = [t \in Threads |-> NoSnap]
  /\ seen = [t \in Threads |-> <<0, 0>>]
  /\ back = [t \in Threads |-> "idle"]

Goto(t, p) == pc' = [pc EXCEPT ![t] = p]
Hold(t) == snap' = [snap EXCEPT ![t] = row]
Drop(t) == snap' = [snap EXCEPT ![t] = NoSnap] /\ seen' = [seen EXCEPT ![t] = <<0, 0>>]
\* store.put_job: status and state replaced wholesale.
PutJob(status, st) == row' = [status |-> status, st |-> st]

-----------------------------------------------------------------------------
(* Human answers: POST /rate, on the event loop.                           *)

Submit(y, n) ==
  /\ pc[Loop] = "idle"
  /\ row.status \in {"awaiting_humans", "settled"}
  /\ y + n <= 1                      \* "yes", "no", or no answer to this claim
  /\ yes + no < MaxAnswers
  /\ yes' = yes + y /\ no' = no + n
  /\ Goto(Loop, "answered")
  /\ UNCHANGED <<row, launches, overdue, polls, patched, texts, snap, inner, seen, back>>

\* (mutant) A settled job is never settled again.
SettleFirstOnly ==
  /\ pc[Loop] = "answered"
  /\ IF row.status # "settled" /\ yes + no >= MinN
       THEN /\ Hold(Loop) /\ Goto(Loop, "settle")
            /\ seen' = [seen EXCEPT ![Loop] = <<yes, no>>]
       ELSE Goto(Loop, "check") /\ UNCHANGED <<snap, seen>>
  /\ UNCHANGED <<row, inputVars, texts, inner, back>>

\* on_human_answer: read the job, count, and settle unless frozen or too few.
OnHumanAnswer ==
  /\ pc[Loop] = "answered"
  /\ LET n == yes + no
         frozen == row.status = "settled" /\ (n > TargetN \/ row.st.humans >= TargetN)
     IN  IF ~frozen /\ n >= MinN
           THEN /\ Hold(Loop) /\ Goto(Loop, "settle")
                /\ seen' = [seen EXCEPT ![Loop] = <<yes, no>>]
           ELSE Goto(Loop, "check") /\ UNCHANGED <<snap, seen>>
  /\ UNCHANGED <<row, inputVars, texts, inner, back>>

\* The put of _settle_against_humans, from on_human_answer.
Settle ==
  /\ pc[Loop] = "settle"
  /\ PutJob("settled", SettledBy(snap[Loop].st, seen[Loop][1], seen[Loop][2]))
  /\ back' = [back EXCEPT ![Loop] = "check"]
  /\ Drop(Loop) /\ Goto(Loop, "notify")
  /\ UNCHANGED <<inputVars, texts, inner>>

-----------------------------------------------------------------------------
(* verdict(): every read settles an overdue job first.                     *)

Read(t) ==
  /\ t \in Readers /\ pc[t] = "idle"
  /\ Goto(t, "check")
  /\ UNCHANGED <<row, inputVars, texts, snap, inner, seen, back>>

\* (mutant) The deadline is not looked at.
ExpireAtOnce(r) == r.status = "awaiting_humans"

TimedOut(r) == r.status = "awaiting_humans" /\ r.st.launch \in overdue

\* settle_on_timeout: read the job.
CheckTimeout(t) ==
  /\ pc[t] = "check"
  /\ IF TimedOut(row) THEN Hold(t) /\ Goto(t, "count")
                      ELSE Goto(t, "view") /\ UNCHANGED snap
  /\ UNCHANGED <<row, inputVars, texts, inner, seen, back>>

CountAnswers(t) ==
  /\ pc[t] = "count"
  /\ seen' = [seen EXCEPT ![t] = <<yes, no>>]
  /\ Goto(t, "expire")
  /\ UNCHANGED <<row, inputVars, texts, snap, inner, back>>

\* (mutant) Without a human answer the job is left waiting.
ExpireWithHumans(t) ==
  /\ pc[t] = "expire"
  /\ IF seen[t] = <<0, 0>>
       THEN back' = back /\ row' = row /\ Goto(t, "view")
       ELSE /\ PutJob("settled", SettledBy(snap[t].st, seen[t][1], seen[t][2]))
            /\ back' = [back EXCEPT ![t] = "again"] /\ Goto(t, "notify")
  /\ Drop(t)
  /\ UNCHANGED <<inputVars, texts, inner>>

\* Settle with the humans that exist, or model-only.  With humans _notify runs twice:
\* _settle_against_humans calls it, then settle_on_timeout does.
Expire(t) ==
  /\ pc[t] = "expire"
  /\ LET y == seen[t][1]  n == seen[t][2]  st == snap[t].st
     IN  IF y + n > 0
           THEN PutJob("settled", SettledBy(st, y, n)) /\ back' = [back EXCEPT ![t] = "again"]
           ELSE PutJob("settled", [st EXCEPT !.timedOut = TRUE])
                /\ back' = [back EXCEPT ![t] = "view"]
  /\ Drop(t) /\ Goto(t, "notify")
  /\ UNCHANGED <<inputVars, texts, inner>>

\* The rest of verdict(): read the job, perhaps poll Replay QA.
View(t) ==
  /\ pc[t] = "view"
  /\ \/ Goto(t, "idle") /\ UNCHANGED <<inner, polls>>
     \/ /\ HasReplay /\ polls < MaxPolls
        /\ polls' = polls + 1
        /\ inner' = [inner EXCEPT ![t] = row]
        /\ Goto(t, "store")
  /\ UNCHANGED <<row, yes, no, launches, overdue, patched, texts, snap, seen, back>>

\* The refreshed handle goes back with the status and state read before the poll.
StoreRefresh(t) ==
  /\ pc[t] \in {"store", "sayStore"}
  /\ PutJob(inner[t].status, inner[t].st)
  /\ inner' = [inner EXCEPT ![t] = NoSnap]
  /\ Goto(t, IF pc[t] = "store" THEN "idle" ELSE "send")
  /\ UNCHANGED <<inputVars, texts, snap, seen, back>>

-----------------------------------------------------------------------------
(* _notify: text the buyer when a job settles.                             *)

\* Where _notify returns: to its caller, or into settle_on_timeout's own second call.
Return(t) ==
  IF back[t] = "again" THEN back' = [back EXCEPT ![t] = "view"] /\ Goto(t, "notify")
                       ELSE back' = [back EXCEPT ![t] = "idle"] /\ Goto(t, back[t])

NotifyRead(t) ==
  /\ pc[t] = "notify"
  /\ IF HasPhone /\ ~row.st.notified
       THEN Hold(t) /\ Goto(t, "say") /\ back' = back
       ELSE Return(t) /\ UNCHANGED snap
  /\ UNCHANGED <<row, inputVars, texts, inner, seen>>

\* The verdict() that words the text reads the job, and perhaps polls Replay QA.  (The job
\* has just been settled: that verdict settles nothing again.)
Say(t) ==
  /\ pc[t] = "say"
  /\ \/ Goto(t, "send") /\ UNCHANGED <<inner, polls>>
     \/ /\ HasReplay /\ polls < MaxPolls
        /\ polls' = polls + 1
        /\ inner' = [inner EXCEPT ![t] = row]
        /\ Goto(t, "sayStore")
  /\ UNCHANGED <<row, yes, no, launches, overdue, patched, texts, snap, seen, back>>

Send(t) ==
  /\ pc[t] = "send"
  /\ texts' = texts + 1
  /\ Goto(t, "mark")
  /\ UNCHANGED <<row, inputVars, snap, inner, seen, back>>

\* The flag goes back with the job as it was read before the verdict and the text.
Mark(t) ==
  /\ pc[t] = "mark"
  /\ PutJob(snap[t].status, [snap[t].st EXCEPT !.notified = TRUE])
  /\ Drop(t) /\ Return(t)
  /\ UNCHANGED <<inputVars, texts, inner>>

-----------------------------------------------------------------------------
(* launch_humans: the operator recruits a paid panel for one job.          *)

LaunchRead(t) ==
  /\ t \in Operators /\ pc[t] = "idle"
  /\ launches < MaxLaunches
  /\ row.st.panel # "paid"            \* "a recruited panel is already open"
  /\ Hold(t) /\ Goto(t, "recruit")
  /\ UNCHANGED <<row, inputVars, texts, inner, seen, back>>

\* panel.launch: the quote is approved and people are recruited, or it is refused.
Recruit(t) ==
  /\ pc[t] = "recruit"
  /\ \/ Goto(t, "launchPut") /\ UNCHANGED <<snap, seen>>
     \/ Drop(t) /\ Goto(t, "idle")
  /\ UNCHANGED <<row, inputVars, texts, inner, back>>

LaunchPut(t) ==
  /\ pc[t] = "launchPut"
  /\ launches' = launches + 1
  /\ PutJob("awaiting_humans", [snap[t].st EXCEPT !.panel = "paid", !.launch = launches + 1])
  /\ Drop(t) /\ Goto(t, "idle")
  /\ UNCHANGED <<yes, no, overdue, polls, patched, texts, inner, back>>

-----------------------------------------------------------------------------
\* store.patch_job_state: the probes or the rubric thread adds its key to the row of now.
Patch(k) ==
  /\ k \in PatchKeys \ patched
  /\ row' = [row EXCEPT !.st.keys = @ \cup {k}]
  /\ patched' = patched \cup {k}
  /\ UNCHANGED <<yes, no, launches, overdue, polls, texts, threadVars>>

\* RC_HUMAN_TIMEOUT_S passes since launch l.
Tick(l) ==
  /\ l \in (1..launches) \ overdue
  /\ overdue' = overdue \cup {l}
  /\ UNCHANGED <<row, yes, no, launches, polls, patched, texts, threadVars>>

-----------------------------------------------------------------------------
\* What a thread does once it has begun.
Continue(t) ==
  \/ CheckTimeout(t) \/ CountAnswers(t) \/ Expire(t) \/ View(t) \/ StoreRefresh(t)
  \/ NotifyRead(t) \/ Say(t) \/ Send(t) \/ Mark(t)
  \/ Recruit(t) \/ LaunchPut(t)
  \/ t = Loop /\ (OnHumanAnswer \/ Settle)

Next ==
  \/ \E y, n \in 0..1 : Submit(y, n)
  \/ \E t \in Readers : Read(t)
  \/ \E t \in Operators : LaunchRead(t)
  \/ \E t \in Threads : Continue(t)
  \/ \E k \in PatchKeys : Patch(k)
  \/ \E l \in 1..(MaxLaunches + 1) : Tick(l)

Spec == Init /\ [][Next]_vars

\* A request that has begun runs on (every call in it has a timeout), and the clock moves.
Progress == /\ \A t \in Threads : WF_vars(Continue(t))
            /\ \A l \in 1..(MaxLaunches + 1) : WF_vars(Tick(l))
\* Somebody also keeps opening the job: GET / renders the verdict of every job it lists.
ReadSpec == Spec /\ Progress /\ \A t \in Readers : WF_vars(Read(t))

-----------------------------------------------------------------------------
(* Correctness.                                                            *)

States == [panel : {"none", "local", "paid"}, launch : Nat, humans : Nat, side : Sides,
           scored : Sides \ {"undecided"}, timedOut : BOOLEAN, notified : BOOLEAN,
           keys : SUBSET PatchKeys]
Rows == [status : {"awaiting_humans", "settled"}, st : States]
PCs == {"idle", "answered", "settle", "check", "count", "expire", "view", "store", "notify",
        "say", "sayStore", "send", "mark", "recruit", "launchPut"}

TypeOK ==
  /\ row \in Rows
  /\ yes \in Nat /\ no \in Nat /\ yes + no <= MaxAnswers
  /\ launches \in Nat /\ overdue \subseteq 1..launches
  /\ polls \in 0..MaxPolls /\ patched \subseteq PatchKeys
  /\ texts \in Nat
  /\ pc \in [Threads -> PCs]
  /\ snap \in [Threads -> Rows \cup {NoSnap}] /\ inner \in [Threads -> Rows \cup {NoSnap}]
  /\ seen \in [Threads -> Nat \X Nat]
  /\ back \in [Threads -> {"idle", "check", "view", "again"}]

\* Settled rows are settled for a reason: the models sufficed (no launch), MinN humans
\* answered, or the launch the row speaks of is overdue, and then a verdict without humans
\* says so.
Justified(r) ==
  r.status = "settled" =>
    \/ r.st.launch = 0
    \/ r.st.humans >= MinN
    \/ r.st.launch \in overdue /\ (r.st.humans = 0 => r.st.timedOut)
SettleJustified == Justified(row)

\* What the row says of the humans was true at some moment: a count of answers they had given,
\* with the majority of those answers, against which the evaluators are scored.
RealCount(st) ==
  st.humans > 0 =>
    /\ \E y \in 0..yes, n \in 0..no : y + n = st.humans /\ st.side = Majority(y, n)
    /\ st.side = "undecided" \/ st.scored = st.side
CountIsReal == RealCount(row.st)

\* Once MinN humans have answered and the loop has handled it, the settled side is the
\* majority of the answers, until TargetN freezes it.
TracksMajority ==
  row.status = "settled" /\ pc[Loop] = "idle" /\ yes + no >= MinN =>
    /\ yes + no <= TargetN => row.st.humans = yes + no /\ row.st.side = Majority(yes, no)
    /\ yes + no > TargetN => row.st.humans >= TargetN

\* Every job that waits for humans settles, humans or none.
AwaitingSettles == row.status = "awaiting_humans" ~> row.status = "settled"

(* What comments and docs say of the code and the runs refute.       *)

\* store.py:87-88, a background writer must never "be clobbered": its key stays.
PatchedKeysStay == patched \subseteq row.st.keys
=============================================================================
