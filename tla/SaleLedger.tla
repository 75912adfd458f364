----------------------------- MODULE SaleLedger -----------------------------
(***************************************************************************)
(* What the shop promises about money, whatever thread delivers a payment  *)
(* and however often: a session's money is booked at most once, only after *)
(* Stripe has it, and an order is sold at most once.                       *)
(***************************************************************************)
EXTENDS Naturals

CONSTANTS
  Sessions,   \* Checkout Sessions
  Orders,     \* the job ids an order was placed for
  JobOf       \* the job id each session pays for

VARIABLES
  paid,       \* the sessions Stripe has the money of
  booked      \* revenue rows per session

ledgerVars == <<paid, booked>>

Init == paid = {} /\ booked = [s \in Sessions |-> 0]

Receive(s) ==
  /\ s \notin paid
  /\ paid' = paid \cup {s}
  /\ booked' = booked

Book(s) ==
  /\ s \in paid /\ booked[s] = 0
  /\ JobOf[s] \in Orders => \A t \in Sessions : JobOf[t] = JobOf[s] => booked[t] = 0
  /\ booked' = [booked EXCEPT ![s] = 1]
  /\ paid' = paid

Next == \E s \in Sessions : Receive(s) \/ Book(s)

Spec == Init /\ [][Next]_ledgerVars
=============================================================================
