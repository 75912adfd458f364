--------------------------- MODULE PaymentsProofs ---------------------------
(***************************************************************************)
(* Safety of Payments for any number of sessions, orders, failures and     *)
(* restarts.  Inv is the inductive strengthening: ClaimExclusive alone is  *)
(* inductive, the others need to know which branch of complete_session a   *)
(* thread can be on, what its job row says by then, and that the money of  *)
(* a walk-up is booked by the last call before its thread lets go.         *)
(***************************************************************************)
EXTENDS Payments, TLAPS

\* Only paid sessions reach complete_session.
PaidInHand ==
  /\ batch \subseteq paid
  /\ \A w \in Workers : Busy(w) => cur[w] \in paid
  /\ \A s \in Sessions : booked[s] > 0 => s \in paid

\* A session of an order exists only after the order's row; a walk-up's row is a placeholder.
Rows ==
  /\ \A s \in opened : JobOf[s] \in Orders => status[JobOf[s]] # "absent"
  /\ \A j \in WalkupIds : status[j] = "absent" \/ (status[j] = "pending_payment" /\ j \in blank)

StartCalls == {"begin", "book", "rubric", "finish", "wrapup"}

\* The branch a thread is on determines the kind of job and what the row can say.
Branches ==
  \A w \in Workers :
    /\ pc[w] \in StartCalls => JobOf[cur[w]] \in Orders
    /\ pc[w] \in StartCalls \ {"begin"} =>
         status[JobOf[cur[w]]] \notin {"absent", "pending_payment"}
    /\ pc[w] \in {"walkup", "walkupBook"} => JobOf[cur[w]] \in WalkupIds
    /\ pc[w] = "walkupBook" => status[JobOf[cur[w]]] # "absent"
    /\ pc[w] = "event" => /\ status[JobOf[cur[w]]] # "absent"
                          /\ JobOf[cur[w]] \in Orders => status[JobOf[cur[w]]] # "pending_payment"

\* Some thread has the session and is not past its last write.
AtWork(s) == \E w \in Workers : Busy(w) /\ cur[w] = s /\ pc[w] # "event"

\* A walk-up that may still be processed has not been booked.
WalkupUnbooked ==
  \A s \in Sessions : JobOf[s] \in WalkupIds /\ (s \notin claims \/ AtWork(s)) => booked[s] = 0

Inv == /\ TypeOK /\ ClaimExclusive /\ PaidInHand /\ Rows /\ Branches
       /\ WalkupUnbooked /\ RevenueOnce /\ StartNeedsPayment /\ NoStrandedClaim
-----------------------------------------------------------------------------
(* One lemma per part of Inv: every step preserves it.                     *)

\* A job row's status, the ledger and the threads stay well formed; only a walk-up is
\* ever blank.
LEMMA TypeOKStep == Inv /\ [Next]_vars => TypeOK'
<1> SUFFICES ASSUME Inv, [Next]_vars PROVE TypeOK'
  OBVIOUS
<1> USE FailAssumption, JobsAssumption, RefAssumption DEF Inv, TypeOK, Branches, StartCalls,
   Statuses, JobIds, Busy, Workers, Running, InTry, OutsideTry, jobVars, stripeVars, workVars,
   faultVars
<1>1. ASSUME NEW j \in Orders, CreateOrder(j) PROVE TypeOK'
  BY <1>1 DEF CreateOrder
<1>2. ASSUME NEW s \in Sessions, OpenSession(s) PROVE TypeOK'
  BY <1>2 DEF OpenSession
<1>3. ASSUME NEW s \in Sessions, Pay(s) PROVE TypeOK'
  BY <1>3 DEF Pay
<1>4. ASSUME NEW s \in Sessions, Webhook(s) PROVE TypeOK'
  BY <1>4 DEF Webhook, ClaimPayment
<1>5. ASSUME PollFetch PROVE TypeOK'
  BY <1>5 DEF PollFetch, FetchPaidSessions
<1>6. ASSUME NEW s \in Sessions, PollNext(s) PROVE TypeOK'
  BY <1>6 DEF PollNext, ClaimPayment
<1>7. ASSUME NEW w \in Workers, ReadJob(w) PROVE TypeOK'
  BY <1>7 DEF ReadJob, Goto, BranchOf
<1>8. ASSUME NEW w \in Workers, BeginJob(w) PROVE TypeOK'
  BY <1>8 DEF BeginJob, Goto
<1>9. ASSUME NEW w \in Workers, BookRevenue(w) PROVE TypeOK'
  BY <1>9 DEF BookRevenue, Goto
<1>10. ASSUME NEW w \in Workers, EvaluateClaims(w) PROVE TypeOK'
  BY <1>10 DEF EvaluateClaims, Goto
<1>11. ASSUME NEW w \in Workers, FinishJob(w) PROVE TypeOK'
  BY <1>11 DEF FinishJob, Goto
<1>12. ASSUME NEW w \in Workers, WrapUp(w) \/ RecordPaid(w) PROVE TypeOK'
  BY <1>12 DEF WrapUp, RecordPaid, Goto
<1>13. ASSUME NEW w \in Workers, PutWalkup(w) PROVE TypeOK'
  BY <1>13 DEF PutWalkup, Goto
<1>14. ASSUME NEW w \in Workers, BookWalkup(w) PROVE TypeOK'
  BY <1>14 DEF BookWalkup, Goto
<1>15. ASSUME NEW w \in Workers, Raise(w) \/ RaiseOutside(w) PROVE TypeOK'
  BY <1>15 DEF Raise, RaiseOutside, MayRaise, Propagate, Goto
<1>16. ASSUME NEW w \in Workers, ReleaseClaim(w) PROVE TypeOK'
  BY <1>16 DEF ReleaseClaim, Propagate, Goto
<1>17. ASSUME Restart PROVE TypeOK'
  BY <1>17 DEF Restart
<1>18. ASSUME MergeList PROVE TypeOK'
  BY <1>18 DEF MergeList
<1>19. ASSUME NEW j \in Orders, MergeCancel(j) PROVE TypeOK'
  BY <1>19 DEF MergeCancel
<1>20. CASE UNCHANGED vars
  BY <1>20 DEF vars
<1>21. QED
  BY <1>1, <1>2, <1>3, <1>4, <1>5, <1>6, <1>7, <1>8, <1>9, <1>10, <1>11, <1>12, <1>13, <1>14,
     <1>15, <1>16, <1>17, <1>18, <1>19, <1>20 DEF Next, PollerThread, WorkerStep

\* A claim row is inserted by the thread that takes the session and deleted only as
\* it lets go.
LEMMA ClaimExclusiveStep == Inv /\ [Next]_vars => ClaimExclusive'
<1> SUFFICES ASSUME Inv, [Next]_vars PROVE ClaimExclusive'
  OBVIOUS
<1> USE FailAssumption DEF Inv, TypeOK, ClaimExclusive, Busy, Workers, Running, InTry,
   OutsideTry, jobVars,
   stripeVars, workVars, faultVars
<1>1. ASSUME NEW s \in Sessions, Webhook(s) PROVE ClaimExclusive'
  BY <1>1 DEF Webhook, ClaimPayment
<1>2. ASSUME NEW s \in Sessions, PollNext(s) PROVE ClaimExclusive'
  BY <1>2 DEF PollNext, ClaimPayment
<1>3. ASSUME NEW w \in Workers, ReadJob(w) PROVE ClaimExclusive'
  BY <1>3 DEF ReadJob, Goto, BranchOf
<1>4. ASSUME NEW w \in Workers, BeginJob(w) PROVE ClaimExclusive'
  BY <1>4 DEF BeginJob, Goto
<1>5. ASSUME NEW w \in Workers, BookRevenue(w) PROVE ClaimExclusive'
  BY <1>5 DEF BookRevenue, Goto
<1>6. ASSUME NEW w \in Workers, EvaluateClaims(w) PROVE ClaimExclusive'
  BY <1>6 DEF EvaluateClaims, Goto
<1>7. ASSUME NEW w \in Workers, FinishJob(w) PROVE ClaimExclusive'
  BY <1>7 DEF FinishJob, Goto
<1>8. ASSUME NEW w \in Workers, WrapUp(w) \/ RecordPaid(w) PROVE ClaimExclusive'
  BY <1>8 DEF WrapUp, RecordPaid, Goto
<1>9. ASSUME NEW w \in Workers, PutWalkup(w) PROVE ClaimExclusive'
  BY <1>9 DEF PutWalkup, Goto
<1>10. ASSUME NEW w \in Workers, BookWalkup(w) PROVE ClaimExclusive'
  BY <1>10 DEF BookWalkup, Goto
<1>11. ASSUME NEW w \in Workers, Raise(w) \/ RaiseOutside(w) PROVE ClaimExclusive'
  BY <1>11 DEF Raise, RaiseOutside, MayRaise, Propagate, Goto
<1>12. ASSUME NEW w \in Workers, ReleaseClaim(w) PROVE ClaimExclusive'
  BY <1>12 DEF ReleaseClaim, Propagate, Goto
<1>13. ASSUME Restart PROVE ClaimExclusive'
  BY <1>13 DEF Restart
<1>14. CASE \/ (\E j \in Orders : CreateOrder(j) \/ MergeCancel(j))
           \/ (\E s \in Sessions : OpenSession(s) \/ Pay(s))
           \/ PollFetch \/ MergeList
           \/ UNCHANGED vars
  BY <1>14 DEF CreateOrder, OpenSession, Pay, PollFetch, MergeList, MergeCancel, vars
<1>15. QED
  BY <1>1, <1>2, <1>3, <1>4, <1>5, <1>6, <1>7, <1>8, <1>9, <1>10, <1>11, <1>12, <1>13, <1>14 DEF
     Next, PollerThread, WorkerStep

\* complete_session never holds, and so never books, an unpaid session.
LEMMA PaidInHandStep == Inv /\ [Next]_vars => PaidInHand'
<1> SUFFICES ASSUME Inv, [Next]_vars PROVE PaidInHand'
  OBVIOUS
<1> USE FailAssumption DEF Inv, TypeOK, PaidInHand, Busy, Workers, Running, InTry, OutsideTry,
   jobVars, stripeVars,
   workVars, faultVars
<1>1. ASSUME NEW s \in Sessions, Pay(s) PROVE PaidInHand'
  BY <1>1 DEF Pay
<1>2. ASSUME NEW s \in Sessions, Webhook(s) PROVE PaidInHand'
  BY <1>2 DEF Webhook, ClaimPayment
<1>3. ASSUME PollFetch PROVE PaidInHand'
  BY <1>3 DEF PollFetch, FetchPaidSessions
<1>4. ASSUME NEW s \in Sessions, PollNext(s) PROVE PaidInHand'
  BY <1>4 DEF PollNext, ClaimPayment
<1>5. ASSUME NEW w \in Workers, ReadJob(w) PROVE PaidInHand'
  BY <1>5 DEF ReadJob, Goto, BranchOf
<1>6. ASSUME NEW w \in Workers, BeginJob(w) PROVE PaidInHand'
  BY <1>6 DEF BeginJob, Goto
<1>7. ASSUME NEW w \in Workers, BookRevenue(w) PROVE PaidInHand'
  BY <1>7 DEF BookRevenue, Goto
<1>8. ASSUME NEW w \in Workers, EvaluateClaims(w) PROVE PaidInHand'
  BY <1>8 DEF EvaluateClaims, Goto
<1>9. ASSUME NEW w \in Workers, FinishJob(w) PROVE PaidInHand'
  BY <1>9 DEF FinishJob, Goto
<1>10. ASSUME NEW w \in Workers, WrapUp(w) \/ RecordPaid(w) PROVE PaidInHand'
  BY <1>10 DEF WrapUp, RecordPaid, Goto
<1>11. ASSUME NEW w \in Workers, PutWalkup(w) PROVE PaidInHand'
  BY <1>11 DEF PutWalkup, Goto
<1>12. ASSUME NEW w \in Workers, BookWalkup(w) PROVE PaidInHand'
  BY <1>12 DEF BookWalkup, Goto
<1>13. ASSUME NEW w \in Workers, Raise(w) \/ RaiseOutside(w) PROVE PaidInHand'
  BY <1>13 DEF Raise, RaiseOutside, MayRaise, Propagate, Goto
<1>14. ASSUME NEW w \in Workers, ReleaseClaim(w) PROVE PaidInHand'
  BY <1>14 DEF ReleaseClaim, Propagate, Goto
<1>15. ASSUME Restart PROVE PaidInHand'
  BY <1>15 DEF Restart
<1>16. CASE \/ (\E j \in Orders : CreateOrder(j) \/ MergeCancel(j))
           \/ (\E s \in Sessions : OpenSession(s))
           \/ MergeList
           \/ UNCHANGED vars
  BY <1>16 DEF CreateOrder, OpenSession, MergeList, MergeCancel, vars
<1>17. QED
  BY <1>1, <1>2, <1>3, <1>4, <1>5, <1>6, <1>7, <1>8, <1>9, <1>10, <1>11, <1>12, <1>13, <1>14,
     <1>15, <1>16 DEF Next, PollerThread, WorkerStep

\* No writer of a job row removes an order's row or gives a walk-up a request.
LEMMA RowsStep == Inv /\ [Next]_vars => Rows'
<1> SUFFICES ASSUME Inv, [Next]_vars PROVE Rows'
  OBVIOUS
<1> USE JobsAssumption, RefAssumption DEF Inv, TypeOK, Rows, Branches, StartCalls, JobIds, Busy,
   Workers, Running, InTry, OutsideTry, jobVars, stripeVars, workVars, faultVars
<1>1. ASSUME NEW j \in Orders, CreateOrder(j) PROVE Rows'
  BY <1>1 DEF CreateOrder
<1>2. ASSUME NEW s \in Sessions, OpenSession(s) PROVE Rows'
  BY <1>2 DEF OpenSession
<1>3. ASSUME NEW w \in Workers, BeginJob(w) PROVE Rows'
  BY <1>3 DEF BeginJob, Goto
<1>4. ASSUME NEW w \in Workers, EvaluateClaims(w) PROVE Rows'
  BY <1>4 DEF EvaluateClaims, Goto
<1>5. ASSUME NEW w \in Workers, FinishJob(w) PROVE Rows'
  BY <1>5 DEF FinishJob, Goto
<1>6. ASSUME NEW w \in Workers, PutWalkup(w) PROVE Rows'
  BY <1>6 DEF PutWalkup, Goto
<1>7. ASSUME NEW j \in Orders, MergeCancel(j) PROVE Rows'
  BY <1>7 DEF MergeCancel
<1>8. CASE \/ (\E s \in Sessions : Pay(s) \/ Webhook(s) \/ PollNext(s))
           \/ (\E w \in Workers : ReadJob(w) \/ BookRevenue(w) \/ WrapUp(w) \/ BookWalkup(w)
                                  \/ Raise(w) \/ RaiseOutside(w) \/ RecordPaid(w)
                                  \/ ReleaseClaim(w))
           \/ PollFetch \/ Restart \/ MergeList
           \/ UNCHANGED vars
  BY <1>8 DEF Pay, Webhook, ClaimPayment, PollFetch, PollNext, ReadJob, Goto, BookRevenue,
     WrapUp, BookWalkup, Raise, RaiseOutside, MayRaise, RecordPaid, Propagate, ReleaseClaim,
     Restart, MergeList, vars
<1>9. QED
  BY <1>1, <1>2, <1>3, <1>4, <1>5, <1>6, <1>7, <1>8 DEF Next, PollerThread, WorkerStep

\* The branch taken in ReadJob stays right for the job until the thread is done.
LEMMA BranchesStep == Inv /\ [Next]_vars => Branches'
<1> SUFFICES ASSUME Inv, [Next]_vars PROVE Branches'
  OBVIOUS
<1> USE JobsAssumption, RefAssumption DEF Inv, TypeOK, Branches, StartCalls, Rows, PaidInHand,
   JobIds, Busy, Workers, Running, InTry, OutsideTry, jobVars, stripeVars, workVars, faultVars
<1>1. ASSUME NEW j \in Orders, CreateOrder(j) PROVE Branches'
  BY <1>1 DEF CreateOrder
<1>2. ASSUME NEW s \in Sessions, Webhook(s) PROVE Branches'
  BY <1>2 DEF Webhook, ClaimPayment
<1>3. ASSUME NEW s \in Sessions, PollNext(s) PROVE Branches'
  BY <1>3 DEF PollNext, ClaimPayment
<1>4. ASSUME NEW w \in Workers, ReadJob(w) PROVE Branches'
  <2> DEFINE s == cur[w]
             row == IF s \in Referenced THEN status[JobOf[s]] ELSE "absent"
             next == BranchOf(row, JobOf[s] \in blank)
  <2>1. s \in Sessions /\ s \in paid /\ JobOf[s] \in JobIds
    BY <1>4 DEF ReadJob
  <2>2. next \in {"walkup", "release", "begin", "event"}
    BY DEF BranchOf
  <2>3. next = "walkup" => JobOf[s] \in WalkupIds
    BY <2>1 DEF BranchOf
  <2>4. next = "begin" => JobOf[s] \in Orders
    BY <2>1 DEF BranchOf
  <2>5. pc' = [pc EXCEPT ![w] = next] /\ status' = status /\ cur'[w] \in {s, NoSession}
    BY <1>4 DEF ReadJob, Goto
  <2>6. next # "idle" => cur' = cur
    BY <1>4 DEF ReadJob, Goto
  <2>7. \A v \in Workers \ {w} : pc'[v] = pc[v] /\ cur'[v] = cur[v]
    BY <1>4 DEF ReadJob, Goto
  <2>8. next = "event" => /\ status[JobOf[s]] # "absent"
                          /\ JobOf[s] \in Orders => status[JobOf[s]] # "pending_payment"
    BY <2>1 DEF BranchOf
  <2>9. QED
    BY <2>2, <2>3, <2>4, <2>5, <2>6, <2>7, <2>8
<1>5. ASSUME NEW w \in Workers, BeginJob(w) PROVE Branches'
  BY <1>5 DEF BeginJob, Goto
<1>6. ASSUME NEW w \in Workers, BookRevenue(w) PROVE Branches'
  BY <1>6 DEF BookRevenue, Goto
<1>7. ASSUME NEW w \in Workers, EvaluateClaims(w) PROVE Branches'
  BY <1>7 DEF EvaluateClaims, Goto
<1>8. ASSUME NEW w \in Workers, FinishJob(w) PROVE Branches'
  BY <1>8 DEF FinishJob, Goto
<1>9. ASSUME NEW w \in Workers, WrapUp(w) \/ RecordPaid(w) PROVE Branches'
  BY <1>9 DEF WrapUp, RecordPaid, Goto
<1>10. ASSUME NEW w \in Workers, PutWalkup(w) PROVE Branches'
  BY <1>10 DEF PutWalkup, Goto
<1>11. ASSUME NEW w \in Workers, BookWalkup(w) PROVE Branches'
  BY <1>11 DEF BookWalkup, Goto
<1>12. ASSUME NEW w \in Workers, Raise(w) \/ RaiseOutside(w) PROVE Branches'
  BY <1>12 DEF Raise, RaiseOutside, MayRaise, Propagate, Goto
<1>13. ASSUME NEW w \in Workers, ReleaseClaim(w) PROVE Branches'
  BY <1>13 DEF ReleaseClaim, Propagate, Goto
<1>14. ASSUME Restart PROVE Branches'
  BY <1>14 DEF Restart
<1>15. ASSUME NEW j \in Orders, MergeCancel(j) PROVE Branches'
  BY <1>15 DEF MergeCancel
<1>16. CASE \/ (\E s \in Sessions : OpenSession(s) \/ Pay(s))
           \/ PollFetch \/ MergeList
           \/ UNCHANGED vars
  BY <1>16 DEF OpenSession, Pay, PollFetch, MergeList, vars
<1>17. QED
  BY <1>1, <1>2, <1>3, <1>4, <1>5, <1>6, <1>7, <1>8, <1>9, <1>10, <1>11, <1>12, <1>13, <1>14,
     <1>15, <1>16 DEF Next, PollerThread, WorkerStep

\* Booking is the last thing done to a walk-up before its claim comes to rest.
LEMMA WalkupUnbookedStep == Inv /\ [Next]_vars => WalkupUnbooked'
<1> SUFFICES ASSUME Inv, [Next]_vars PROVE WalkupUnbooked'
  OBVIOUS
<1> USE FailAssumption, JobsAssumption, RefAssumption DEF Inv, TypeOK, WalkupUnbooked, AtWork,
   Branches, StartCalls, ClaimExclusive, JobIds, InHand, Busy, Workers, Running, InTry,
   OutsideTry, jobVars, stripeVars,
   workVars, faultVars
<1>1. ASSUME NEW s \in Sessions, Webhook(s) PROVE WalkupUnbooked'
  BY <1>1 DEF Webhook, ClaimPayment
<1>2. ASSUME NEW s \in Sessions, PollNext(s) PROVE WalkupUnbooked'
  BY <1>2 DEF PollNext, ClaimPayment
<1>3. ASSUME NEW w \in Workers, ReadJob(w) PROVE WalkupUnbooked'
  BY <1>3 DEF ReadJob, Goto, BranchOf
<1>4. ASSUME NEW w \in Workers, BeginJob(w) PROVE WalkupUnbooked'
  BY <1>4 DEF BeginJob, Goto
<1>5. ASSUME NEW w \in Workers, BookRevenue(w) PROVE WalkupUnbooked'
  BY <1>5 DEF BookRevenue, Goto
<1>6. ASSUME NEW w \in Workers, EvaluateClaims(w) PROVE WalkupUnbooked'
  BY <1>6 DEF EvaluateClaims, Goto
<1>7. ASSUME NEW w \in Workers, FinishJob(w) PROVE WalkupUnbooked'
  BY <1>7 DEF FinishJob, Goto
<1>8. ASSUME NEW w \in Workers, WrapUp(w) \/ RecordPaid(w) PROVE WalkupUnbooked'
  BY <1>8 DEF WrapUp, RecordPaid, Goto
<1>9. ASSUME NEW w \in Workers, PutWalkup(w) PROVE WalkupUnbooked'
  BY <1>9 DEF PutWalkup, Goto
<1>10. ASSUME NEW w \in Workers, BookWalkup(w) PROVE WalkupUnbooked'
  BY <1>10 DEF BookWalkup, Goto
<1>11. ASSUME NEW w \in Workers, Raise(w) \/ RaiseOutside(w) PROVE WalkupUnbooked'
  BY <1>11 DEF Raise, RaiseOutside, MayRaise, Propagate, Goto
<1>12. ASSUME NEW w \in Workers, ReleaseClaim(w) PROVE WalkupUnbooked'
  BY <1>12 DEF ReleaseClaim, Propagate, Goto
<1>13. ASSUME Restart PROVE WalkupUnbooked'
  BY <1>13 DEF Restart
<1>14. CASE \/ (\E j \in Orders : CreateOrder(j) \/ MergeCancel(j))
           \/ (\E s \in Sessions : OpenSession(s) \/ Pay(s))
           \/ PollFetch \/ MergeList
           \/ UNCHANGED vars
  BY <1>14 DEF CreateOrder, OpenSession, Pay, PollFetch, MergeList, MergeCancel, vars
<1>15. QED
  BY <1>1, <1>2, <1>3, <1>4, <1>5, <1>6, <1>7, <1>8, <1>9, <1>10, <1>11, <1>12, <1>13, <1>14 DEF
     Next, PollerThread, WorkerStep

\* ledger_add_once looks for any row of the job; a walk-up is booked while its claim
\* is held.
LEMMA RevenueOnceStep == Inv /\ [Next]_vars => RevenueOnce'
<1> SUFFICES ASSUME Inv, [Next]_vars PROVE RevenueOnce'
  OBVIOUS
<1> USE JobsAssumption, RefAssumption DEF Inv, TypeOK, RevenueOnce, WalkupUnbooked, AtWork,
   Branches,
   StartCalls, BookedOn, InHand, Busy, Workers, Running, InTry, OutsideTry, jobVars, stripeVars,
   workVars,
   faultVars
<1>1. ASSUME NEW w \in Workers, BookRevenue(w) PROVE RevenueOnce'
  BY <1>1 DEF BookRevenue, Goto
<1>2. ASSUME NEW w \in Workers, BookWalkup(w) PROVE RevenueOnce'
  BY <1>2 DEF BookWalkup, Goto
<1>3. CASE \/ (\E j \in Orders : CreateOrder(j) \/ MergeCancel(j))
           \/ (\E s \in Sessions : OpenSession(s) \/ Pay(s) \/ Webhook(s) \/ PollNext(s))
           \/ (\E w \in Workers : ReadJob(w) \/ BeginJob(w) \/ EvaluateClaims(w) \/ FinishJob(w)
                                  \/ WrapUp(w) \/ PutWalkup(w) \/ Raise(w) \/ RaiseOutside(w)
                                  \/ RecordPaid(w)
                                  \/ ReleaseClaim(w))
           \/ PollFetch \/ Restart \/ MergeList
           \/ UNCHANGED vars
  BY <1>3 DEF CreateOrder, OpenSession, Pay, Webhook, ClaimPayment, PollFetch, PollNext,
     ReadJob, Goto, BeginJob, EvaluateClaims, FinishJob, WrapUp, PutWalkup, Raise, RaiseOutside,
     MayRaise, RecordPaid, Propagate, ReleaseClaim,
     Restart, MergeList, MergeCancel, vars
<1>4. QED
  BY <1>1, <1>2, <1>3 DEF Next, PollerThread, WorkerStep

\* judge.start is reached only with a paid session of the job in hand.
LEMMA StartNeedsPaymentStep == Inv /\ [Next]_vars => StartNeedsPayment'
<1> SUFFICES ASSUME Inv, [Next]_vars PROVE StartNeedsPayment'
  OBVIOUS
<1> USE DEF Inv, TypeOK, StartNeedsPayment, PaidInHand, Branches, StartCalls, JobIds, Busy,
   Workers, Running, InTry, OutsideTry, jobVars, stripeVars, workVars, faultVars
<1>1. ASSUME NEW s \in Sessions, Pay(s) PROVE StartNeedsPayment'
  BY <1>1 DEF Pay
<1>2. ASSUME NEW w \in Workers, BeginJob(w) PROVE StartNeedsPayment'
  BY <1>2 DEF BeginJob, Goto
<1>3. CASE \/ (\E j \in Orders : CreateOrder(j) \/ MergeCancel(j))
           \/ (\E s \in Sessions : OpenSession(s) \/ Webhook(s) \/ PollNext(s))
           \/ (\E w \in Workers : ReadJob(w) \/ BookRevenue(w) \/ EvaluateClaims(w)
                                  \/ FinishJob(w) \/ WrapUp(w) \/ PutWalkup(w) \/ BookWalkup(w)
                                  \/ Raise(w) \/ RaiseOutside(w) \/ RecordPaid(w)
                                  \/ ReleaseClaim(w))
           \/ PollFetch \/ Restart \/ MergeList
           \/ UNCHANGED vars
  BY <1>3 DEF CreateOrder, OpenSession, Webhook, ClaimPayment, PollFetch, PollNext, ReadJob,
     Goto, BookRevenue, EvaluateClaims, FinishJob, WrapUp, PutWalkup, BookWalkup, Raise,
     RaiseOutside, MayRaise, RecordPaid, Propagate, ReleaseClaim, Restart, MergeList,
     MergeCancel, vars
<1>4. QED
  BY <1>1, <1>2, <1>3 DEF Next, PollerThread, WorkerStep

\* A thread lets go of a claim only with its job started, booked or already past
\* payment.
LEMMA NoStrandedClaimStep == Inv /\ [Next]_vars => NoStrandedClaim'
<1> SUFFICES ASSUME Inv, [Next]_vars PROVE NoStrandedClaim'
  OBVIOUS
<1> USE FailAssumption, JobsAssumption, RefAssumption DEF Inv, TypeOK, NoStrandedClaim,
   Branches, StartCalls, Rows, PaidInHand, ClaimExclusive, JobIds, InHand, Busy, Workers,
   Running, InTry, OutsideTry, jobVars, stripeVars, workVars, faultVars
<1>1. ASSUME NEW j \in Orders, CreateOrder(j) PROVE NoStrandedClaim'
  BY <1>1 DEF CreateOrder
<1>2. ASSUME NEW s \in Sessions, Webhook(s) PROVE NoStrandedClaim'
  BY <1>2 DEF Webhook, ClaimPayment
<1>3. ASSUME NEW s \in Sessions, PollNext(s) PROVE NoStrandedClaim'
  BY <1>3 DEF PollNext, ClaimPayment
<1>4. ASSUME NEW w \in Workers, ReadJob(w) PROVE NoStrandedClaim'
  BY <1>4 DEF ReadJob, Goto, BranchOf
<1>5. ASSUME NEW w \in Workers, BeginJob(w) PROVE NoStrandedClaim'
  BY <1>5 DEF BeginJob, Goto
<1>6. ASSUME NEW w \in Workers, BookRevenue(w) PROVE NoStrandedClaim'
  BY <1>6 DEF BookRevenue, Goto
<1>7. ASSUME NEW w \in Workers, EvaluateClaims(w) PROVE NoStrandedClaim'
  BY <1>7 DEF EvaluateClaims, Goto
<1>8. ASSUME NEW w \in Workers, FinishJob(w) PROVE NoStrandedClaim'
  BY <1>8 DEF FinishJob, Goto
<1>9. ASSUME NEW w \in Workers, WrapUp(w) \/ RecordPaid(w) PROVE NoStrandedClaim'
  BY <1>9 DEF WrapUp, RecordPaid, Goto
<1>10. ASSUME NEW w \in Workers, PutWalkup(w) PROVE NoStrandedClaim'
  BY <1>10 DEF PutWalkup, Goto
<1>11. ASSUME NEW w \in Workers, BookWalkup(w) PROVE NoStrandedClaim'
  BY <1>11 DEF BookWalkup, Goto
<1>12. ASSUME NEW w \in Workers, Raise(w) \/ RaiseOutside(w) PROVE NoStrandedClaim'
  BY <1>12 DEF Raise, RaiseOutside, MayRaise, Propagate, Goto
<1>13. ASSUME NEW w \in Workers, ReleaseClaim(w) PROVE NoStrandedClaim'
  BY <1>13 DEF ReleaseClaim, Propagate, Goto
<1>14. ASSUME Restart PROVE NoStrandedClaim'
  BY <1>14 DEF Restart
<1>15. ASSUME NEW j \in Orders, MergeCancel(j) PROVE NoStrandedClaim'
  BY <1>15 DEF MergeCancel
<1>16. CASE \/ (\E s \in Sessions : OpenSession(s) \/ Pay(s))
           \/ PollFetch \/ MergeList
           \/ UNCHANGED vars
  BY <1>16 DEF OpenSession, Pay, PollFetch, MergeList, vars
<1>17. QED
  BY <1>1, <1>2, <1>3, <1>4, <1>5, <1>6, <1>7, <1>8, <1>9, <1>10, <1>11, <1>12, <1>13, <1>14,
     <1>15, <1>16 DEF Next, PollerThread, WorkerStep

-----------------------------------------------------------------------------
(* The invariant and what it gives.                                        *)

LEMMA InvInit == Init => Inv
<1> SUFFICES ASSUME Init PROVE Inv
  OBVIOUS
<1> USE DEF Init, Busy, Workers
<1>1. TypeOK
  BY DEF TypeOK, Statuses
<1>2. ClaimExclusive /\ PaidInHand /\ RevenueOnce
  BY DEF ClaimExclusive, PaidInHand, RevenueOnce
<1>3. Rows /\ Branches
  BY DEF Rows, Branches, StartCalls, JobIds
<1>4. WalkupUnbooked /\ StartNeedsPayment /\ NoStrandedClaim
  BY DEF WalkupUnbooked, StartNeedsPayment, NoStrandedClaim, JobIds
<1> QED
  BY <1>1, <1>2, <1>3, <1>4 DEF Inv

LEMMA InvAlways == Spec => []Inv
<1>1. Inv /\ [Next]_vars => Inv'
  BY TypeOKStep, ClaimExclusiveStep, PaidInHandStep, RowsStep, BranchesStep, WalkupUnbookedStep,
     RevenueOnceStep, StartNeedsPaymentStep, NoStrandedClaimStep DEF Inv
<1>2. QED
  BY InvInit, <1>1, PTL DEF Spec

\* Every reachable state is well formed.
THEOREM PaymentsTyped == Spec => []TypeOK
  BY InvAlways, PTL DEF Inv

\* payment_claims is a lock: the webhook and the poller never work on one session together.
THEOREM ClaimsAreExclusive == Spec => []ClaimExclusive
  BY InvAlways, PTL DEF Inv

\* A session's money is booked at most once and an order is sold at most once, through every
\* redelivery, race, exception and restart.
THEOREM RevenueIsBookedOnce == Spec => []RevenueOnce
  BY InvAlways, PTL DEF Inv

\* judge.start never runs on an order nobody paid for.
THEOREM OrdersStartOnlyPaid == Spec => []StartNeedsPayment
  BY InvAlways, PTL DEF Inv

\* A claim at rest has moved its order past payment, so that what the duplicate answer tells
\* later deliveries is true, unless a restart, get_job raising between the claim and the try,
\* or release_payment_claim raising let go of it.
THEOREM ClaimsAreNotStranded == Spec => []NoStrandedClaim
  BY InvAlways, PTL DEF Inv

-----------------------------------------------------------------------------
(* Refinement: complete_session implements SaleLedger.                     *)

\* Every step of the threads receives or books one session's money, or leaves the ledger alone.
LEMMA LedgerStep == Inv /\ [Next]_vars => [Ledger!Next]_Ledger!ledgerVars
<1> SUFFICES ASSUME Inv, [Next]_vars PROVE [Ledger!Next]_Ledger!ledgerVars
  OBVIOUS
<1>1. ASSUME NEW s \in Sessions, Pay(s) PROVE Ledger!Receive(s)
  BY <1>1 DEF Pay, Ledger!Receive
<1>2. ASSUME NEW w \in Workers, BookRevenue(w), booked' # booked PROVE Ledger!Book(cur[w])
  <2>1. cur[w] \in Sessions /\ cur[w] \in paid
    BY <1>2 DEF BookRevenue, Inv, TypeOK, PaidInHand, Busy
  <2>2. BookedOn(JobOf[cur[w]]) = {}
    BY <1>2 DEF BookRevenue
  <2>3. \A t \in Sessions : JobOf[t] = JobOf[cur[w]] => booked[t] = 0
    BY <2>2 DEF BookedOn, Inv, TypeOK
  <2>4. booked' = [booked EXCEPT ![cur[w]] = @ + 1] /\ paid' = paid
    BY <1>2 DEF BookRevenue, stripeVars
  <2>5. booked[cur[w]] = 0
    BY <2>1, <2>3
  <2>6. booked' = [booked EXCEPT ![cur[w]] = 1]
    BY <2>4, <2>5
  <2>7. QED
    BY <2>1, <2>3, <2>4, <2>5, <2>6 DEF Ledger!Book
<1>3. ASSUME NEW w \in Workers, BookWalkup(w) PROVE Ledger!Book(cur[w])
  <2>1. cur[w] \in Sessions /\ cur[w] \in paid /\ JobOf[cur[w]] \in WalkupIds
    BY <1>3 DEF BookWalkup, Inv, TypeOK, PaidInHand, Branches, Busy
  <2>2. booked[cur[w]] = 0
    BY <1>3, <2>1 DEF BookWalkup, Inv, WalkupUnbooked, AtWork, Busy
  <2>3. booked' = [booked EXCEPT ![cur[w]] = 1] /\ paid' = paid
    BY <1>3, <2>1, <2>2 DEF BookWalkup, stripeVars, Inv, TypeOK
  <2>4. QED
    BY <2>1, <2>2, <2>3, JobsAssumption DEF Ledger!Book
<1>4. (\E s \in Sessions : Pay(s)) \/ (\E w \in Workers : BookRevenue(w) \/ BookWalkup(w))
      \/ UNCHANGED <<paid, booked>>
  BY DEF Next, PollerThread, WorkerStep, vars, stripeVars, faultVars, CreateOrder, OpenSession,
     Webhook, PollFetch, PollNext, ReadJob, BeginJob, EvaluateClaims, FinishJob, WrapUp,
     PutWalkup, Raise, RaiseOutside, MayRaise, RecordPaid, Propagate, ReleaseClaim, Restart,
     MergeList, MergeCancel, Workers
<1>5. \A w \in Workers : Busy(w) => cur[w] \in Sessions
  BY DEF Inv, TypeOK
<1>6. CASE \E s \in Sessions : Pay(s)
  BY <1>1, <1>6 DEF Ledger!Next
<1>7. CASE \E w \in Workers : BookRevenue(w)
  <2>1. PICK w \in Workers : BookRevenue(w)
    BY <1>7
  <2>2. cur[w] \in Sessions /\ paid' = paid
    BY <2>1, <1>5 DEF BookRevenue, Busy, stripeVars
  <2>3. QED
    BY <1>2, <2>1, <2>2 DEF Ledger!Next, Ledger!ledgerVars
<1>8. CASE \E w \in Workers : BookWalkup(w)
  BY <1>3, <1>5, <1>8 DEF Ledger!Next, BookWalkup, Busy
<1>9. QED
  BY <1>4, <1>6, <1>7, <1>8 DEF Ledger!ledgerVars

\* The two delivery threads implement the ledger the shop promises, for every schedule.
THEOREM PaymentsImplementLedger == Spec => LedgerSpec
<1>1. Init => Ledger!Init
  BY DEF Init, Ledger!Init
<1>2. QED
  BY <1>1, InvAlways, LedgerStep, PTL DEF Spec, LedgerSpec, Ledger!Spec
=============================================================================
