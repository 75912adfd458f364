------------------------------ MODULE Payments ------------------------------
(***************************************************************************)
(* How a paid Stripe Checkout Session becomes a started job and a revenue  *)
(* row: stripe_webhook.complete_session, run by two threads (the event     *)
(* loop's webhook handler and the stripe_poll thread), together with the   *)
(* part of judge.start that writes the job row and the ledger, and the     *)
(* operator's textflow.merge_open_jobs, which cancels unpaid orders.       *)
(*                                                                         *)
(* Every SQLite call is one atomic step (store._lock); between two calls   *)
(* of one thread the others run.  A worker's pc names the next call.       *)
(***************************************************************************)
EXTENDS Naturals, FiniteSets

CONSTANTS
  Sessions,     \* Checkout Sessions, numbered in the order Stripe creates them
  Orders,       \* job ids POST /order (or the text thread) issues, in order
  WalkupIds,    \* other job ids a session can land on (QR walk-up, unknown reference)
  JobOf,        \* the job id each session lands on
  Referenced,   \* the sessions that carry a client_reference_id
  Amount,       \* amount_total of each session (0: promo code)
  Mergeable,    \* the orders of one text thread, which the operator may merge
  PageSize,     \* STRIPE_POLL_LIMIT
  FailPoints,   \* the pcs of complete_session at which a call may raise
  MaxFailures,  \* bound on raised exceptions
  MaxCrashes,   \* bound on restarts of the instance
  NoSession     \* "nothing in hand"

JobIds == Orders \cup WalkupIds
Workers == {"webhook", "poller"}
\* The calls complete_session can be at, in the order the code makes them.
InTry == {"begin", "book", "rubric", "finish", "wrapup", "walkup", "walkupBook"}
OutsideTry == {"read", "release", "event"}   \* get_job, the handler's own call, stripe.paid
Running == InTry \cup OutsideTry

ASSUME NumberingAssumption ==   \* ids are numbered in order of creation
  Sessions \subseteq Nat /\ Orders \subseteq Nat /\ NoSession \notin Sessions
ASSUME JobsAssumption == Orders \cap WalkupIds = {} /\ Mergeable \subseteq Orders
ASSUME RefAssumption ==
  /\ JobOf \in [Sessions -> JobIds]
  /\ Referenced \subseteq Sessions
  \* without a reference the job id is made from the session's own id
  /\ \A s \in Sessions \ Referenced :
       JobOf[s] \in WalkupIds /\ \A t \in Sessions \ {s} : JobOf[t] # JobOf[s]
ASSUME AmountAssumption == Amount \in [Sessions -> Nat]
ASSUME FailAssumption == FailPoints \subseteq Running
ASSUME BoundsAssumption == /\ PageSize \in Nat \ {0}
                           /\ MaxFailures \in Nat /\ MaxCrashes \in Nat

VARIABLES
  status,       \* jobs.status; "absent": no row, "judged": settled or awaiting_humans
  blank,        \* the rows whose stored request has no input (walk-up placeholders)
  opened,       \* the sessions Stripe has created
  paid,         \* those whose payment_status is "paid"
  claims,       \* rows of payment_claims
  booked,       \* revenue rows written for each session's money
  starts,       \* how often judge.start has begun on a job (history)
  pc, cur,      \* per worker: the next call, the session in hand
  batch,        \* the sessions poll_once still has to hand over
  toCancel,     \* the orders merge_open_jobs has listed and not yet cancelled
  interrupted,  \* the sessions let go of with their claim kept: in hand at a restart, or
                \* when get_job or release_payment_claim raised (history)
  failures, crashes  \* how many exceptions and restarts so far (bounds)

jobVars == <<status, blank, starts>>
stripeVars == <<opened, paid>>
workVars == <<pc, cur, batch>>
faultVars == <<interrupted, failures, crashes>>
vars == <<jobVars, stripeVars, claims, booked, workVars, toCancel, faultVars>>

Statuses == {"absent", "pending_payment", "evaluating", "judged", "cancelled"}

Busy(w) == pc[w] # "idle"
InHand(s) == \E w \in Workers : Busy(w) /\ cur[w] = s
\* The sessions booked on a job.
BookedOn(j) == {s \in Sessions : JobOf[s] = j /\ booked[s] > 0}

Init ==
  /\ status = [j \in JobIds |-> "absent"]
  /\ blank = {} /\ opened = {} /\ paid = {} /\ claims = {} /\ toCancel = {}
  /\ booked = [s \in Sessions |-> 0]
  /\ starts = [j \in JobIds |-> 0]
  /\ pc = [w \in Workers |-> "idle"]
  /\ cur = [w \in Workers |-> NoSession]
  /\ batch = {}
  /\ interrupted = {} /\ failures = 0 /\ crashes = 0

-----------------------------------------------------------------------------
(* The buyer and Stripe.                                                   *)

\* POST /order, or the first text of a thread: a pending_payment row.
CreateOrder(j) ==
  /\ status[j] = "absent"
  /\ \A i \in Orders : i < j => status[i] # "absent"
  /\ status' = [status EXCEPT ![j] = "pending_payment"]
  /\ UNCHANGED <<blank, starts, stripeVars, claims, booked, workVars, toCancel, faultVars>>

\* The buyer opens the Payment Link; an order's link exists once the order does.
OpenSession(s) ==
  /\ s \notin opened
  /\ \A t \in Sessions : t < s => t \in opened
  /\ JobOf[s] \in Orders => status[JobOf[s]] # "absent"
  /\ opened' = opened \cup {s}
  /\ UNCHANGED <<paid, jobVars, claims, booked, workVars, toCancel, faultVars>>

Pay(s) ==
  /\ s \in opened \ paid
  /\ paid' = paid \cup {s}
  /\ UNCHANGED <<opened, jobVars, claims, booked, workVars, toCancel, faultVars>>

-----------------------------------------------------------------------------
(* Delivery: how a paid session reaches complete_session.  Both callers    *)
(* begin with the same statement, store.claim_payment.                     *)

\* (mutant) The claim is not looked at before it is taken.
ClaimAnyway(w, s) ==
  /\ claims' = claims \cup {s}
  /\ pc' = [pc EXCEPT ![w] = "read"]
  /\ cur' = [cur EXCEPT ![w] = s]

\* INSERT OR IGNORE into payment_claims: a fresh row means this caller owns the session.
ClaimPayment(w, s) ==
  IF s \in claims
    THEN UNCHANGED <<claims, pc, cur>>
    ELSE /\ claims' = claims \cup {s}
         /\ pc' = [pc EXCEPT ![w] = "read"]
         /\ cur' = [cur EXCEPT ![w] = s]

\* checkout.session.completed: Stripe delivers it at least once, at any time.
Webhook(s) ==
  /\ ~Busy("webhook")
  /\ s \in paid
  /\ ClaimPayment("webhook", s)
  /\ UNCHANGED <<jobVars, stripeVars, booked, batch, toCancel, faultVars>>

\* The newest PageSize sessions, the unpaid ones filtered out after the listing.
FetchPaidSessions ==
  {s \in paid : Cardinality({t \in opened : t > s}) < PageSize}

PollFetch ==
  /\ ~Busy("poller") /\ batch = {}
  /\ batch' = FetchPaidSessions
  /\ UNCHANGED <<jobVars, stripeVars, claims, booked, pc, cur, toCancel, faultVars>>

\* poll_once hands the page over newest first, one session at a time.
PollNext(s) ==
  /\ ~Busy("poller")
  /\ s \in batch /\ \A t \in batch : t <= s
  /\ batch' = batch \ {s}
  /\ ClaimPayment("poller", s)
  /\ UNCHANGED <<jobVars, stripeVars, booked, toCancel, faultVars>>

-----------------------------------------------------------------------------
(* complete_session after the claim, one call at a time.                   *)

Goto(w, p) ==
  /\ pc' = [pc EXCEPT ![w] = p]
  /\ cur' = IF p = "idle" THEN [cur EXCEPT ![w] = NoSession] ELSE cur

\* What the branch on the job row does with the row it read.
BranchOf(row, isBlank) ==
  CASE row = "absent" -> "walkup"
    [] row = "pending_payment" /\ isBlank -> "release"   \* JudgeRequest(**request) raises
    [] row = "pending_payment" /\ ~isBlank -> "begin"
    [] OTHER -> "event"                                  \* noop

ReadJob(w) ==
  /\ pc[w] = "read"
  /\ LET s == cur[w]
         row == IF s \in Referenced THEN status[JobOf[s]] ELSE "absent"
     IN  Goto(w, BranchOf(row, JobOf[s] \in blank))
  /\ UNCHANGED <<jobVars, stripeVars, claims, booked, batch, toCancel, faultVars>>

\* judge.start: the first put_job, whatever the row says by now.
BeginJob(w) ==
  /\ pc[w] = "begin"
  /\ LET j == JobOf[cur[w]]
     IN  /\ status' = [status EXCEPT ![j] = "evaluating"]
         /\ starts' = [starts EXCEPT ![j] = @ + 1]
  /\ Goto(w, "book")
  /\ UNCHANGED <<blank, stripeVars, claims, booked, batch, toCancel, faultVars>>

\* (mutant) ledger_add in place of ledger_add_once.
BookEachSale(w) ==
  /\ pc[w] = "book"
  /\ booked' = IF Amount[cur[w]] > 0 THEN [booked EXCEPT ![cur[w]] = @ + 1] ELSE booked
  /\ Goto(w, "rubric")
  /\ UNCHANGED <<jobVars, stripeVars, claims, batch, toCancel, faultVars>>

\* judge.start: ledger_add_once(job, "revenue", paid_usd) when paid_usd > 0.
BookRevenue(w) ==
  /\ pc[w] = "book"
  /\ LET s == cur[w]
     IN  booked' = IF Amount[s] > 0 /\ BookedOn(JobOf[s]) = {}
                     THEN [booked EXCEPT ![s] = @ + 1] ELSE booked
  /\ Goto(w, "rubric")
  /\ UNCHANGED <<jobVars, stripeVars, claims, batch, toCancel, faultVars>>

\* judge.start: the evaluators run; a rubric that rewrote the claims puts the row again.
EvaluateClaims(w) ==
  /\ pc[w] = "rubric"
  /\ \/ status' = [status EXCEPT ![JobOf[cur[w]]] = "evaluating"]
     \/ status' = status
  /\ Goto(w, "finish")
  /\ UNCHANGED <<blank, starts, stripeVars, claims, booked, batch, toCancel, faultVars>>

\* judge.start: the last put_job, settled or awaiting_humans.
FinishJob(w) ==
  /\ pc[w] = "finish"
  /\ status' = [status EXCEPT ![JobOf[cur[w]]] = "judged"]
  /\ Goto(w, "wrapup")
  /\ UNCHANGED <<blank, starts, stripeVars, claims, booked, batch, toCancel, faultVars>>

\* The notification, the background threads and verdict(): what start does after its last put.
WrapUp(w) ==
  /\ pc[w] = "wrapup"
  /\ Goto(w, "event")
  /\ UNCHANGED <<jobVars, stripeVars, claims, booked, batch, toCancel, faultVars>>

\* No order matches: a placeholder row.  The upsert keeps the request of a row that exists.
PutWalkup(w) ==
  /\ pc[w] = "walkup"
  /\ LET j == JobOf[cur[w]]
     IN  /\ blank' = IF status[j] = "absent" THEN blank \cup {j} ELSE blank
         /\ status' = [status EXCEPT ![j] = "pending_payment"]
  /\ Goto(w, "walkupBook")
  /\ UNCHANGED <<starts, stripeVars, claims, booked, batch, toCancel, faultVars>>

BookWalkup(w) ==
  /\ pc[w] = "walkupBook"
  /\ booked' = [booked EXCEPT ![cur[w]] = @ + 1]
  /\ Goto(w, "event")
  /\ UNCHANGED <<jobVars, stripeVars, claims, batch, toCancel, faultVars>>

\* The stripe.paid event, after the try; then complete_session returns.
RecordPaid(w) ==
  /\ pc[w] = "event"
  /\ Goto(w, "idle")
  /\ UNCHANGED <<jobVars, stripeVars, claims, booked, batch, toCancel, faultVars>>

-----------------------------------------------------------------------------
(* Failure: an exception, its handler, and a restart of the instance.      *)

\* An exception that leaves complete_session ends poll_once: the rest of the page waits.
Propagate(w) ==
  /\ batch' = IF w = "poller" THEN {} ELSE batch
  /\ Goto(w, "idle")

MayRaise(w) == pc[w] \in FailPoints /\ failures < MaxFailures

\* A call inside the try raises: the except block is next.
Raise(w) ==
  /\ MayRaise(w) /\ pc[w] \in InTry
  /\ failures' = failures + 1
  /\ Goto(w, "release")
  /\ UNCHANGED <<jobVars, stripeVars, claims, booked, batch, toCancel, interrupted, crashes>>

\* A call outside the try raises: get_job between the claim and the try (only made for a
\* session with a reference), release_payment_claim in the handler, or the last event.  The
\* claim stays; after the last event its work is done.
RaiseOutside(w) ==
  /\ MayRaise(w) /\ pc[w] \in OutsideTry
  /\ pc[w] = "read" => cur[w] \in Referenced
  /\ failures' = failures + 1
  /\ interrupted' = IF pc[w] = "event" THEN interrupted ELSE interrupted \cup {cur[w]}
  /\ Propagate(w)
  /\ UNCHANGED <<jobVars, stripeVars, claims, booked, toCancel, crashes>>

\* (mutant) The claim of a failed delivery is kept.
KeepClaim(w) ==
  /\ pc[w] = "release"
  /\ Propagate(w)
  /\ UNCHANGED <<jobVars, stripeVars, claims, booked, toCancel, faultVars>>

\* The except block gives the claim back and re-raises (its event may raise: the same).
ReleaseClaim(w) ==
  /\ pc[w] = "release"
  /\ claims' = claims \ {cur[w]}
  /\ Propagate(w)
  /\ UNCHANGED <<jobVars, stripeVars, booked, toCancel, faultVars>>

\* The tables survive, the threads do not, and nothing at boot looks for their work.
Restart ==
  /\ crashes < MaxCrashes
  /\ \E w \in Workers : Busy(w)
  /\ crashes' = crashes + 1
  /\ interrupted' = interrupted \cup {s \in Sessions : InHand(s)}
  /\ pc' = [w \in Workers |-> "idle"]
  /\ cur' = [w \in Workers |-> NoSession]
  /\ batch' = {} /\ toCancel' = {}
  /\ UNCHANGED <<jobVars, stripeVars, claims, booked, failures>>

-----------------------------------------------------------------------------
(* The operator merges the open orders of one thread into the newest.      *)

MergeList ==
  /\ toCancel = {}
  /\ LET open == {j \in Mergeable : status[j] = "pending_payment"}
     IN  toCancel' = {j \in open : \E k \in open : j < k}
  /\ UNCHANGED <<jobVars, stripeVars, claims, booked, workVars, faultVars>>

\* UPDATE jobs SET status='cancelled', without looking at the status again.
MergeCancel(j) ==
  /\ j \in toCancel /\ \A k \in toCancel : k <= j
  /\ toCancel' = toCancel \ {j}
  /\ status' = [status EXCEPT ![j] = "cancelled"]
  /\ UNCHANGED <<blank, starts, stripeVars, claims, booked, workVars, faultVars>>

-----------------------------------------------------------------------------
WorkerStep(w) ==
  \/ ReadJob(w) \/ BeginJob(w) \/ BookRevenue(w) \/ EvaluateClaims(w)
  \/ FinishJob(w) \/ WrapUp(w) \/ PutWalkup(w) \/ BookWalkup(w)
  \/ RecordPaid(w) \/ ReleaseClaim(w)

PollerThread ==
  PollFetch \/ (\E s \in Sessions : PollNext(s)) \/ WorkerStep("poller")

Next ==
  \/ \E j \in Orders : CreateOrder(j)
  \/ \E s \in Sessions : OpenSession(s) \/ Pay(s) \/ Webhook(s)
  \/ PollerThread
  \/ WorkerStep("webhook")
  \/ \E w \in Workers : Raise(w) \/ RaiseOutside(w)
  \/ Restart
  \/ MergeList
  \/ \E j \in Orders : MergeCancel(j)

Spec == Init /\ [][Next]_vars

\* stripe_poll._loop never stops (it catches every exception and every call in it has a
\* timeout) and a handler the event loop has begun runs on.  Deliveries, buyers and the
\* operator owe nothing.
Fairness == WF_vars(PollerThread) /\ WF_vars(WorkerStep("webhook"))
FairSpec == Spec /\ Fairness

-----------------------------------------------------------------------------
(* Correctness.                                                            *)

TypeOK ==
  /\ status \in [JobIds -> Statuses]
  /\ blank \subseteq WalkupIds
  /\ paid \subseteq opened /\ opened \subseteq Sessions
  /\ claims \subseteq Sessions
  /\ booked \in [Sessions -> Nat]
  /\ starts \in [JobIds -> Nat]
  /\ pc \in [Workers -> Running \cup {"idle"}]
  /\ cur \in [Workers -> Sessions \cup {NoSession}]
  /\ \A w \in Workers : Busy(w) => cur[w] \in Sessions
  /\ batch \subseteq Sessions
  /\ toCancel \subseteq Mergeable
  /\ interrupted \subseteq Sessions
  /\ failures \in Nat /\ crashes \in Nat

\* The claim is a lock: whoever works on a session holds its row, and the webhook and the
\* poller never work on the same session, through any sequence of releases and retries.
ClaimExclusive ==
  /\ \A w \in Workers : Busy(w) => cur[w] \in claims
  /\ \A v, w \in Workers : v # w /\ Busy(v) /\ Busy(w) => cur[v] # cur[w]

\* However often a session is delivered, retried or raced by another session for the same
\* order, its money is booked at most once and an order is sold at most once.
RevenueOnce ==
  /\ \A s \in Sessions : booked[s] <= 1
  /\ \A s, t \in Sessions :
       JobOf[s] = JobOf[t] /\ JobOf[s] \in Orders /\ booked[s] > 0 /\ booked[t] > 0 => s = t

\* complete_session is the only path by which an order starts: no order is judged before
\* Stripe has the money of a session that names it.
StartNeedsPayment ==
  \A j \in Orders : starts[j] > 0 => \E s \in paid : JobOf[s] = j

\* A claim no thread is working on has done its job: its order is not left waiting for a
\* payment that every later delivery would call a duplicate.  Three events strand it, and no
\* other exception at any call does: a restart, get_job raising between the claim and the try,
\* and release_payment_claim itself raising.
NoStrandedClaim ==
  \A s \in claims \ interrupted :
    ~InHand(s) => /\ status[JobOf[s]] # "absent"
                  /\ JobOf[s] \in Orders => status[JobOf[s]] # "pending_payment"

\* The two threads, their retries and restarts implement the abstract ledger.
Ledger == INSTANCE SaleLedger
  WITH Sessions <- Sessions, Orders <- Orders, JobOf <- JobOf, paid <- paid, booked <- booked
LedgerSpec == Ledger!Spec

\* Under the poller's fairness alone (no webhook need arrive), every paid session is booked and
\* its order judged, a walk-up getting its placeholder row.
Fulfilled(s) ==
  /\ booked[s] = 1 \/ (Amount[s] = 0 /\ JobOf[s] \in Orders)
  /\ status[JobOf[s]] = IF JobOf[s] \in Orders THEN "judged" ELSE "pending_payment"
PaidIsFulfilled == \A s \in Sessions : s \in paid ~> Fulfilled(s)

(* What a comment says of the code, and a run refutes.                     *)

\* stripe_webhook.py:12-13, the claim is "released on failure so a retry processes exactly once":
\* an order that was paid for is judged in the end.
PaidOrderIsJudged ==
  \A s \in Sessions : s \in paid /\ JobOf[s] \in Orders ~> status[JobOf[s]] = "judged"
=============================================================================
