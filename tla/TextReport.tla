----------------------------- MODULE TextReport -----------------------------
(***************************************************************************)
(* What a buyer who ordered by text message is sent once the order is      *)
(* judged: "graded", "still waiting", and the final report.  The rubric    *)
(* thread, the event loop that takes the answers of people, and the reads  *)
(* that settle an overdue job all lead to it, each in its own thread.  The *)
(* flags that say what was sent are keys of the same JSON state that       *)
(* store.put_job replaces as a whole, except that it keeps the text_* keys *)
(* of a text thread.                                                       *)
(***************************************************************************)
EXTENDS Naturals

CONSTANTS
  Readers,      \* thread-pool threads serving GETs
  MinN,         \* HUMAN_MIN_N_TO_SETTLE
  MaxAnswers, MaxRegrades, MaxRestarts,   \* bounds on inputs
  NoSnap        \* "no snapshot held"

Loop == "loop"
Rubric == "rubric"
Threads == {Loop, Rubric} \cup Readers

ASSUME ThreadAssumption == Loop \notin Readers /\ Rubric \notin Readers
ASSUME CountAssumption ==
  MinN \in Nat \ {0} /\ {MaxAnswers, MaxRegrades, MaxRestarts} \subseteq Nat

VARIABLES
  row,          \* the jobs row: status and the JSON state
  answers,      \* people who have answered (human_answers on claim 0)
  overdue,      \* RC_HUMAN_TIMEOUT_S has passed since the panel's launch
  landed,       \* the rubric has been stored (history: it may be lost again)
  regrades,     \* how often an operator had the sources graded again
  restarts,     \* restarts of the instance
  sent,         \* texts handed to Linq, of each kind (history)
  pc, snap, back   \* per thread: its next call, the row it holds, where that call returns to

inputVars == <<answers, overdue, landed, regrades, restarts>>
threadVars == <<pc, snap, back>>
vars == <<row, inputVars, sent, threadVars>>

Kinds == {"final", "graded", "wait"}

\* judge.start has stored the job with a panel and started the rubric thread.  Only an order
\* that was paid by text is marked as a text thread; a free one (RC_TEXT_FREE) is not.
Init ==
  /\ row \in {[status |-> "awaiting_humans",
               st |-> [rubric |-> FALSE, thread |-> th, flags |-> {},
                       stage |-> IF th THEN "paid" ELSE "none"]] : th \in BOOLEAN}
  /\ answers = 0 /\ overdue = FALSE
  /\ landed = FALSE /\ regrades = 0 /\ restarts = 0
  /\ sent = [k \in Kinds |-> 0]
  /\ pc = [t \in Threads |-> IF t = Rubric THEN "grading" ELSE "idle"]
  /\ snap = [t \in Threads |-> NoSnap]
  /\ back = [t \in Threads |-> "idle"]

Goto(t, p) == pc' = [pc EXCEPT ![t] = p]
Hold(t) == snap' = [snap EXCEPT ![t] = row]
Drop(t) == snap' = [snap EXCEPT ![t] = NoSnap]

\* (mutant) A text thread's row is replaced like any other.
Replaced(prior, st) == st

\* store.put_job: the state is replaced, but a text thread keeps the text_* keys that the new
\* state does not have, and is "paid" unless it was delivered; then the new state's stage wins.
Merged(prior, st) ==
  IF prior.thread
    THEN [st EXCEPT !.flags = @ \cup prior.flags,
                    !.stage = IF prior.stage = "delivered" THEN @ ELSE "paid"]
    ELSE st
PutJob(status, st) == row' = [status |-> status, st |-> Merged(row.st, st)]

\* Where a finished call returns to; the last call of the loop's answer is on_humans_ready.
Return(t) ==
  CASE back[t] = "again" -> Goto(t, "notify") /\ back' = [back EXCEPT ![t] = "end"]
    [] back[t] = "check" -> Goto(t, "check") /\ back' = [back EXCEPT ![t] = "idle"]
    [] back[t] = "end" -> /\ Goto(t, IF t = Loop THEN "ready" ELSE "idle")
                          /\ back' = [back EXCEPT ![t] = "idle"]
    [] OTHER -> Goto(t, "idle") /\ back' = back

-----------------------------------------------------------------------------
(* The event loop: answers (rate_v2.submit) and the text HUMANS.           *)

Submit ==
  /\ pc[Loop] = "idle" /\ answers < MaxAnswers
  /\ answers' = answers + 1
  /\ Goto(Loop, "answered")
  /\ UNCHANGED <<row, overdue, landed, regrades, restarts, sent, snap, back>>

\* HUMANS before an answer is told so and changes nothing.
HumansText ==
  /\ pc[Loop] = "idle" /\ answers > 0
  /\ Goto(Loop, "ready")
  /\ UNCHANGED <<row, inputVars, sent, snap, back>>

\* The first MinN answers settle the job; a later one settles it again, unless the count is
\* frozen.  (JobLifecycle has the counts.)
OnHumanAnswer ==
  /\ pc[Loop] = "answered"
  /\ \/ answers >= MinN /\ Hold(Loop) /\ Goto(Loop, "settle")
     \/ /\ answers < MinN \/ row.status = "settled"
        /\ Goto(Loop, "check") /\ UNCHANGED snap
  /\ UNCHANGED <<row, inputVars, sent, back>>

Settle ==
  /\ pc[Loop] = "settle"
  /\ PutJob("settled", snap[Loop].st)
  /\ Drop(Loop) /\ Goto(Loop, "notify") /\ back' = [back EXCEPT ![Loop] = "check"]
  /\ UNCHANGED <<inputVars, sent>>

-----------------------------------------------------------------------------
(* verdict(): a read, and the last call of on_human_answer.                *)

Read(t) ==
  /\ t \in Readers /\ pc[t] = "idle"
  /\ Goto(t, "check")
  /\ UNCHANGED <<row, inputVars, sent, snap, back>>

\* settle_on_timeout reads the job; a verdict that settles nothing ends here, as only a team's
\* order has a Replay run to poll.
CheckTimeout(t) ==
  /\ pc[t] = "check"
  /\ IF row.status = "awaiting_humans" /\ overdue
       THEN Hold(t) /\ Goto(t, "expire")
       ELSE Goto(t, IF t = Loop THEN "ready" ELSE "idle") /\ UNCHANGED snap
  /\ UNCHANGED <<row, inputVars, sent, back>>

\* With humans _notify is called by _settle_against_humans and again by settle_on_timeout; they
\* were counted before this put, so the last of them may have been missed.
Expire(t) ==
  /\ pc[t] = "expire"
  /\ PutJob("settled", snap[t].st)
  /\ \E b \in {"again", "end"} :
       (b = "again" => answers > 0) /\ back' = [back EXCEPT ![t] = b]
  /\ Drop(t) /\ Goto(t, "notify")
  /\ UNCHANGED <<inputVars, sent>>

-----------------------------------------------------------------------------
(* _notify and textflow.                                                   *)

\* _notify of a text thread: on_humans_ready or on_humans_timeout.
Notify(t) ==
  /\ pc[t] = "notify"
  /\ Goto(t, IF answers > 0 THEN "ready" ELSE "timeout")
  /\ UNCHANGED <<row, inputVars, sent, snap, back>>

\* (mutant) _final_ready without its second half.
RubricIsEnough(st, n) == st.rubric

\* textflow._final_ready
FinalReady(st, n) == st.rubric /\ n > 0

OnHumansReady(t) ==
  /\ pc[t] = "ready"
  /\ IF FinalReady(row.st, answers) /\ "final" \notin row.st.flags
       THEN Goto(t, "send") /\ back' = back
       ELSE Return(t)
  /\ UNCHANGED <<row, inputVars, sent, snap>>

OnHumansTimeout(t) ==
  /\ pc[t] = "timeout"
  /\ IF row.st.flags \cap {"final", "wait"} # {}
       THEN Return(t)
       ELSE Goto(t, "recount") /\ back' = back
  /\ UNCHANGED <<row, inputVars, sent, snap>>

\* The answers once more: one may have come since _notify looked.
Recount(t) ==
  /\ pc[t] = "recount"
  /\ Goto(t, IF answers > 0 THEN "ready" ELSE "sayWait")
  /\ UNCHANGED <<row, inputVars, sent, snap, back>>

\* The three texts.  Each is sent first and marked after it.
TextAt(p) == CASE p = "send" -> "final" [] p = "sayGraded" -> "graded" [] p = "sayWait" -> "wait"
MarkAfter(p) == CASE p = "send" -> "mark" [] p = "sayGraded" -> "markGraded" [] p = "sayWait" -> "markWait"
MarkAt(p) == CASE p = "mark" -> "final" [] p = "markGraded" -> "graded" [] p = "markWait" -> "wait"

\* (mutant) The flag is patched and the text forgotten.
MarkOnly(t) ==
  /\ pc[t] \in {"send", "sayGraded", "sayWait"}
  /\ row' = [row EXCEPT !.st.flags = @ \cup {TextAt(pc[t])}]
  /\ Goto(t, MarkAfter(pc[t]))
  /\ UNCHANGED <<inputVars, sent, snap, back>>

Say(t) ==
  /\ pc[t] \in {"send", "sayGraded", "sayWait"}
  /\ sent' = [sent EXCEPT ![TextAt(pc[t])] = @ + 1]
  /\ Goto(t, MarkAfter(pc[t]))
  /\ UNCHANGED <<row, inputVars, snap, back>>

\* store.patch_job_state of the flag; the final also has a stage to patch.
Mark(t) ==
  /\ pc[t] \in {"mark", "markGraded", "markWait"}
  /\ row' = [row EXCEPT !.st.flags = @ \cup {MarkAt(pc[t])}]
  /\ IF pc[t] = "mark" THEN Goto(t, "stage") /\ back' = back ELSE Return(t)
  /\ UNCHANGED <<inputVars, sent, snap>>

Deliver(t) ==
  /\ pc[t] = "stage"
  /\ row' = [row EXCEPT !.st.stage = "delivered"]
  /\ Return(t)
  /\ UNCHANGED <<inputVars, sent, snap>>

-----------------------------------------------------------------------------
(* The rubric thread.                                                      *)

\* The rubric is patched into the row of now.
Land ==
  /\ pc[Rubric] = "grading"
  /\ row' = [row EXCEPT !.st.rubric = TRUE]
  /\ landed' = TRUE
  /\ Goto(Rubric, "report")
  /\ UNCHANGED <<answers, overdue, regrades, restarts, sent, snap, back>>

\* on_report_ready reads the job, then the answers.
OnReportReady ==
  /\ pc[Rubric] = "report"
  /\ IF row.st.rubric THEN Hold(Rubric) /\ Goto(Rubric, "weigh")
                      ELSE Goto(Rubric, "idle") /\ UNCHANGED snap
  /\ UNCHANGED <<row, inputVars, sent, back>>

\* (mutant) With the humans in, the report is left to them.
LeaveToHumans ==
  /\ pc[Rubric] = "weigh"
  /\ Goto(Rubric, IF answers = 0 /\ "graded" \notin snap[Rubric].st.flags THEN "sayGraded" ELSE "idle")
  /\ Drop(Rubric)
  /\ UNCHANGED <<row, inputVars, sent, back>>

Weigh ==
  /\ pc[Rubric] = "weigh"
  /\ LET st == snap[Rubric].st
         text == IF FinalReady(st, answers) THEN "final" ELSE "graded"
     IN  Goto(Rubric, IF text \in st.flags THEN "idle"
                      ELSE IF text = "final" THEN "send" ELSE "sayGraded")
  /\ Drop(Rubric)
  /\ UNCHANGED <<row, inputVars, sent, back>>

-----------------------------------------------------------------------------
(* The operator, the clock, the host.                                      *)

\* reset_sources starts the rubric again.
Regrade ==
  /\ pc[Rubric] = "idle" /\ regrades < MaxRegrades
  /\ regrades' = regrades + 1
  /\ Goto(Rubric, "grading")
  /\ UNCHANGED <<row, answers, overdue, landed, restarts, sent, snap, back>>

Tick ==
  /\ ~overdue /\ overdue' = TRUE
  /\ UNCHANGED <<row, answers, landed, regrades, restarts, sent, threadVars>>

\* The threads are lost, the rubric's too: nothing starts it again but an operator.
Restart ==
  /\ restarts < MaxRestarts
  /\ restarts' = restarts + 1
  /\ pc' = [t \in Threads |-> "idle"]
  /\ snap' = [t \in Threads |-> NoSnap]
  /\ back' = [t \in Threads |-> "idle"]
  /\ UNCHANGED <<row, answers, overdue, landed, regrades, sent>>

-----------------------------------------------------------------------------
Continue(t) ==
  \/ CheckTimeout(t) \/ Expire(t)
  \/ Notify(t) \/ OnHumansReady(t) \/ OnHumansTimeout(t) \/ Recount(t)
  \/ Say(t) \/ Mark(t) \/ Deliver(t)
  \/ t = Loop /\ (OnHumanAnswer \/ Settle)
  \/ t = Rubric /\ (Land \/ OnReportReady \/ Weigh)

Next ==
  \/ Submit \/ HumansText
  \/ \E t \in Readers : Read(t)
  \/ \E t \in Threads : Continue(t)
  \/ Regrade \/ Tick \/ Restart

Spec == Init /\ [][Next]_vars

\* A thread that runs goes on running: all its calls have timeouts, and evaluate fails closed.
FairSpec == Spec /\ \A t \in Threads : WF_vars(Continue(t))

-----------------------------------------------------------------------------
(* Correctness.                                                            *)

States == [rubric : BOOLEAN, thread : BOOLEAN, flags : SUBSET Kinds,
           stage : {"none", "paid", "delivered"}]
Rows == [status : {"awaiting_humans", "settled"}, st : States]
PCs == {"idle", "answered", "settle", "check", "expire", "notify", "ready", "timeout",
        "recount", "send", "mark", "stage", "sayGraded", "markGraded", "sayWait", "markWait",
        "grading", "report", "weigh"}

TypeOK ==
  /\ row \in Rows
  /\ {answers, regrades, restarts} \subseteq Nat
  /\ overdue \in BOOLEAN /\ landed \in BOOLEAN
  /\ sent \in [Kinds -> Nat]
  /\ pc \in [Threads -> PCs]
  /\ snap \in [Threads -> Rows \cup {NoSnap}]
  /\ back \in [Threads -> {"idle", "check", "again", "end"}]

\* textflow.py:590, the report a person receives must contain the humans' answers: whichever
\* thread sends it, the rubric had landed and somebody had answered.
FinalHasHumans == [][sent'["final"] > sent["final"] => landed /\ answers > 0]_vars

\* A flag is never ahead of its text, through stale puts and restarts: a report is never taken
\* for delivered that nobody was sent.
FlagsAreTrue == /\ \A k \in row.st.flags : sent[k] > 0
                /\ row.st.stage = "delivered" => sent["final"] > 0

MarkDue(t, k) == pc[t] \in {"mark", "markGraded", "markWait"} /\ MarkAt(pc[t]) = k

\* In a text thread a text that went out stays marked: no whole-state put takes the mark back, so
\* only threads that looked before the mark can send a text again.
SentIsMarked ==
  row.st.thread /\ restarts = 0 =>
    \A k \in Kinds : sent[k] > 0 => k \in row.st.flags \/ \E t \in Threads : MarkDue(t, k)

\* textflow.py:613, "If the humans are already in, send the final report", and they send it if
\* they come later: once there are a rubric and an answer the buyer gets a report, provided that
\* no whole-state put takes the rubric out of the row and the instance is not restarted.
ReportArrives ==
  [](restarts = 0 /\ (landed => row.st.rubric)) => (landed /\ answers > 0 ~> sent["final"] > 0)

\* textflow.py:8-9, safe to call more than once, "the send functions gate on a state flag".
OneFinal == sent["final"] <= 1
=============================================================================
