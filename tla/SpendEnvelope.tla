---------------------------- MODULE SpendEnvelope ----------------------------
(***************************************************************************)
(* How money for human panels is authorised and spent: the signed envelope *)
(* (policy/envelope.py), the buying half of judge.start and launch_humans, *)
(* and the Terac and Linq panels.  Purchases run in several threads; the   *)
(* envelope is consulted on the list price and again on Terac's quote, and *)
(* the cost row that the daily cap is computed from is only written when   *)
(* the launched panel comes back.  Amounts are in a common integer unit.   *)
(***************************************************************************)
EXTENDS Integers, FiniteSets

CONSTANTS
  Threads,       \* threads that run judge.start or launch_humans
  Arms,          \* voi.DEFAULT_ARMS and local_panel
  ListPrice,     \* price_usd of each arm
  Backend,       \* panels.for_arm: "local", "linq" or "terac"
  AllowedArms, DailyCap, JobCap, UnpaidCap, MarginPct,   \* the signed fields
  Purchases,     \* the purchases that may be made: see Deals
  Quotes,        \* prices Terac may quote
  ModelCosts,    \* what the evaluators of one job may cost
  MaxDeals, MaxDays, MaxFreezes, MaxCrashes   \* bounds

FreeArms == {"ensemble", "local", "local_panel"}

ASSUME ThreadsAssumption == IsFiniteSet(Threads) /\ Threads # {}
ASSUME ArmsAssumption ==
  /\ ListPrice \in [Arms -> Nat]
  /\ Backend \in [Arms -> {"local", "linq", "terac"}]
  /\ AllowedArms \subseteq Arms
  /\ \A a \in Arms \cap FreeArms : Backend[a] = "local"   \* panels.for_arm
ASSUME CapsAssumption ==
  /\ DailyCap \in Nat /\ JobCap \in Nat /\ UnpaidCap \in Nat /\ MarginPct \in 0..100
ASSUME AmountsAssumption ==
  Quotes \subseteq Nat /\ ModelCosts \subseteq Nat
ASSUME BoundsAssumption ==
  MaxDeals \in Nat /\ MaxDays \in Nat /\ MaxFreezes \in Nat /\ MaxCrashes \in Nat

\* Who buys, what they paid (an operator: what they authorise), through which arm, and
\* whether the buyer was sold humans.
Deals == [kind : {"start", "operator"}, paid : Nat, arm : Arms, forced : BOOLEAN]
ASSUME PurchasesAssumption == Purchases \subseteq Deals

VARIABLES
  envelope,   \* the envelope file: "live", "expired" or "absent"
  panelCost,  \* today's cost.terac rows
  modelCost,  \* today's cost.ensemble rows
  pc,         \* per thread: its next call
  deal,       \* per thread: the purchase it is making
  seen,       \* per thread: spent_today() as check() read it
  quote,      \* per thread: Terac's price for its opportunity
  panel,      \* per thread: the backend that serves the job's humans
  cleared,    \* the threads past their last check when the envelope went (history)
  deals, days, freezes, crashes  \* how many so far (bounds)

ledgerVars == <<panelCost, modelCost>>
threadVars == <<pc, deal, seen, quote, panel>>
boundVars == <<deals, days, freezes, crashes>>
vars == <<envelope, ledgerVars, threadVars, cleared, boundVars>>

NoDeal == [kind |-> "none"]
PCs == {"idle", "evaluate", "gateRead", "gate", "invite", "post", "quoteRead", "approve",
        "launch", "book", "close"}

\* (mutant) The sum misses the panels' rows.
SpentOnModels == modelCost
\* spent_today: the cost rows of the day.
Spent == panelCost + modelCost

Init ==
  /\ envelope \in {"live", "expired", "absent"}
  /\ panelCost = 0 /\ modelCost = 0
  /\ pc = [t \in Threads |-> "idle"]
  /\ deal = [t \in Threads |-> NoDeal]
  /\ seen = [t \in Threads |-> 0]
  /\ quote = [t \in Threads |-> 0]
  /\ panel = [t \in Threads |-> "none"]
  /\ cleared = {}
  /\ deals = 0 /\ days = 0 /\ freezes = 0 /\ crashes = 0

Goto(t, p) == pc' = [pc EXCEPT ![t] = p]
ServedBy(t, b) == panel' = [panel EXCEPT ![t] = b]
\* check() returns: its sum is gone with it.
Forget(t) == seen' = [seen EXCEPT ![t] = 0]

-----------------------------------------------------------------------------
\* (mutant) The envelope's signature and date are not looked at.
CheckUnsigned(s, arm, price, paidUsd) ==
  /\ arm \in AllowedArms
  /\ price <= JobCap
  /\ s + price <= DailyCap
  /\ paidUsd <= 0 => price <= UnpaidCap
  /\ paidUsd > 0 => price * 100 <= paidUsd * (100 - MarginPct)

\* envelope.check after spent_today() returned s: is this price allowed?
Check(s, arm, price, paidUsd) ==
  \/ price <= 0 /\ arm \in FreeArms
  \/ /\ envelope = "live"
     /\ arm \in AllowedArms
     /\ price <= JobCap
     /\ s + price <= DailyCap
     /\ paidUsd <= 0 => price <= UnpaidCap
     /\ paidUsd > 0 => price * 100 <= paidUsd * (100 - MarginPct)

\* (mutant) The list price is judged a second time instead of the quote.
ApprovedAtList(t) ==
  /\ Check(seen[t], deal[t].arm, ListPrice[deal[t].arm], deal[t].paid)
  /\ deal[t].kind = "operator" => ListPrice[deal[t].arm] <= deal[t].paid

\* The approve callback of the deal: the envelope, and for an operator the authorised sum.
Approved(t) ==
  /\ Check(seen[t], deal[t].arm, quote[t], deal[t].paid)
  /\ deal[t].kind = "operator" => quote[t] <= deal[t].paid

-----------------------------------------------------------------------------
\* A job is judged and its decision says buy, or an operator buys a panel for a job.
Begin(t, d) ==
  /\ pc[t] = "idle" /\ deals < MaxDeals
  /\ deals' = deals + 1
  /\ deal' = [deal EXCEPT ![t] = d]
  /\ \/ d.kind = "start" /\ Goto(t, "evaluate")
     \/ /\ d.kind = "operator"
        /\ Goto(t, CASE Backend[d.arm] = "local" -> "close"
                     [] Backend[d.arm] = "linq" -> "invite"
                     [] Backend[d.arm] = "terac" -> "post")
  /\ UNCHANGED <<envelope, ledgerVars, seen, quote, panel, cleared, days, freezes, crashes>>

\* The evaluators' cost is written whatever the caps say.
Evaluate(t) ==
  /\ pc[t] = "evaluate"
  /\ \E c \in ModelCosts : modelCost' = modelCost + c
  /\ Goto(t, "gateRead")
  /\ UNCHANGED <<envelope, panelCost, deal, seen, quote, panel, cleared, boundVars>>

\* spent_today(), the first half of check().
SpentToday(t) ==
  /\ pc[t] \in {"gateRead", "quoteRead"}
  /\ seen' = [seen EXCEPT ![t] = Spent]
  /\ Goto(t, IF pc[t] = "gateRead" THEN "gate" ELSE "approve")
  /\ UNCHANGED <<envelope, ledgerVars, deal, quote, panel, cleared, boundVars>>

\* gate_panel_launch on the list price.  A denied buyer who was sold humans gets the free page.
Gate(t) ==
  /\ pc[t] = "gate"
  /\ LET d == deal[t]
     IN  IF Check(seen[t], d.arm, ListPrice[d.arm], d.paid)
           THEN CASE Backend[d.arm] = "local" -> ServedBy(t, "local") /\ Goto(t, "close")
                  [] Backend[d.arm] = "linq" -> panel' = panel /\ Goto(t, "invite")
                  [] Backend[d.arm] = "terac" -> panel' = panel /\ Goto(t, "post")
           ELSE /\ ServedBy(t, IF d.forced THEN "local" ELSE "none")
                /\ Goto(t, "close")
  /\ Forget(t)
  /\ UNCHANGED <<envelope, ledgerVars, deal, quote, cleared, boundVars>>

\* (mutant) No free page when a paid backend recruits nobody.
GiveUpQuietly(t) == ServedBy(t, "none") /\ Goto(t, "close")

\* No one recruited: judge.start falls back to the free page, launch_humans gives up.
GiveUp(t) ==
  /\ ServedBy(t, IF deal[t].kind = "start" THEN "local" ELSE "none")
  /\ Goto(t, "close")

\* LinqPanel.launch: texts to enrolled raters, at no price and without asking the envelope.
Invite(t) ==
  /\ pc[t] = "invite"
  /\ \/ ServedBy(t, "linq") /\ Goto(t, "close")
     \/ GiveUp(t)
  /\ UNCHANGED <<envelope, ledgerVars, deal, seen, quote, cleared, boundVars>>

\* TeracPanel.launch: POST /opportunities returns a quote, or there is no key or an error.
Post(t) ==
  /\ pc[t] = "post"
  /\ \/ /\ \E q \in Quotes : quote' = [quote EXCEPT ![t] = q]
        /\ panel' = panel /\ Goto(t, "quoteRead")
     \/ GiveUp(t) /\ quote' = quote
  /\ UNCHANGED <<envelope, ledgerVars, deal, seen, cleared, boundVars>>

\* approve(price), with the quote.
Approve(t) ==
  /\ pc[t] = "approve"
  /\ IF Approved(t) THEN Goto(t, "launch") /\ panel' = panel ELSE GiveUp(t)
  /\ Forget(t)
  /\ UNCHANGED <<envelope, ledgerVars, deal, quote, cleared, boundVars>>

\* POST /opportunities/{id}/launch.  An error may hide a launch that took effect.
Launch(t) ==
  /\ pc[t] = "launch"
  /\ \/ ServedBy(t, "terac") /\ Goto(t, "book")
     \/ GiveUp(t)
  /\ UNCHANGED <<envelope, ledgerVars, deal, seen, quote, cleared, boundVars>>

\* ledger_add("cost.terac", price).
Book(t) ==
  /\ pc[t] = "book"
  /\ panelCost' = panelCost + quote[t]
  /\ Goto(t, "close")
  /\ UNCHANGED <<envelope, modelCost, deal, seen, quote, panel, cleared, boundVars>>

\* The thread is done with its purchase.
Leave(t) ==
  /\ Goto(t, "idle")
  /\ deal' = [deal EXCEPT ![t] = NoDeal]
  /\ quote' = [quote EXCEPT ![t] = 0]
  /\ ServedBy(t, "none")
  /\ UNCHANGED <<envelope, ledgerVars, seen, cleared, boundVars>>

\* The last put_job of the purchase.
Close(t) == pc[t] = "close" /\ Leave(t)

\* An exception that is not httpx.HTTPError (a reply that is no JSON) goes through the
\* panel's launch and its caller: no fallback, no cost row, and a job of judge.start is left
\* "evaluating".
Raise(t) == pc[t] \in {"invite", "post", "launch"} /\ Leave(t)

-----------------------------------------------------------------------------
InFlight(t) == pc[t] \in {"launch", "book"}

\* The operator deletes the file, or its date passes.
Withdraw ==
  /\ envelope = "live" /\ freezes < MaxFreezes
  /\ freezes' = freezes + 1
  /\ envelope' \in {"absent", "expired"}
  /\ cleared' = {t \in Threads : InFlight(t)}
  /\ UNCHANGED <<ledgerVars, threadVars, deals, days, crashes>>

\* The operator signs an envelope.
Sign ==
  /\ envelope # "live"
  /\ envelope' = "live" /\ cleared' = {}
  /\ UNCHANGED <<ledgerVars, threadVars, boundVars>>

\* UTC midnight: spent_today() sums the new day's rows.
Midnight ==
  /\ days < MaxDays
  /\ days' = days + 1
  /\ panelCost' = 0 /\ modelCost' = 0
  /\ UNCHANGED <<envelope, threadVars, cleared, deals, freezes, crashes>>

\* The instance restarts: purchases are dropped where they are, and bootstrap signs the
\* example if there is no file.
Restart ==
  /\ crashes < MaxCrashes
  /\ crashes' = crashes + 1
  /\ envelope' \in IF envelope = "absent" THEN {"live", "expired"} ELSE {envelope}
  /\ pc' = [t \in Threads |-> "idle"]
  /\ deal' = [t \in Threads |-> NoDeal]
  /\ seen' = [t \in Threads |-> 0] /\ quote' = [t \in Threads |-> 0]
  /\ panel' = [t \in Threads |-> "none"]
  /\ cleared' = {}
  /\ UNCHANGED <<ledgerVars, deals, days, freezes>>

-----------------------------------------------------------------------------
Step(t) ==
  \/ Evaluate(t) \/ SpentToday(t) \/ Gate(t) \/ Invite(t) \/ Post(t)
  \/ Approve(t) \/ Launch(t) \/ Book(t) \/ Close(t) \/ Raise(t)

Next ==
  \/ \E t \in Threads : Step(t) \/ \E d \in Purchases : Begin(t, d)
  \/ Withdraw \/ Sign \/ Midnight \/ Restart

Spec == Init /\ [][Next]_vars

-----------------------------------------------------------------------------
(* Correctness.                                                            *)

TypeOK ==
  /\ envelope \in {"live", "expired", "absent"}
  /\ panelCost \in Nat /\ modelCost \in Nat
  /\ pc \in [Threads -> PCs]
  /\ deal \in [Threads -> Purchases \cup {NoDeal}]
  /\ \A t \in Threads : pc[t] # "idle" => deal[t] \in Purchases
  /\ seen \in [Threads -> Nat] /\ quote \in [Threads -> Nat]
  /\ panel \in [Threads -> {"none", "local", "linq", "terac"}]
  /\ cleared \subseteq Threads
  /\ deals \in Nat /\ days \in Nat /\ freezes \in Nat /\ crashes \in Nat

\* The caps bind what Terac charges, not what an arm was listed at: no launch is made above
\* the per-job cap, below the margin of a paid job, above an operator's authorisation, or
\* (beyond the allowance) for someone who paid nothing.
WithinTerms ==
  \A t \in Threads : InFlight(t) =>
    LET d == deal[t]  price == quote[t]
    IN  /\ d.arm \in AllowedArms /\ price <= JobCap
        /\ IF d.paid = 0 THEN price <= UnpaidCap
                         ELSE price * 100 <= d.paid * (100 - MarginPct)
        /\ d.kind = "operator" => price <= d.paid

\* The daily cap is checked long before the cost row it is computed from exists: each further
\* thread may exceed it by one job, and no sequence of purchases by more than that.
OverspendBounded == panelCost <= DailyCap + (Cardinality(Threads) - 1) * JobCap

\* Withdrawing the envelope stops every purchase that has not passed its last check: only the
\* launches under way at that moment are carried out, whatever is in any thread's hands.
FreezeHolds == envelope # "live" => \A t \in Threads : InFlight(t) => t \in cleared

\* A purchase that is closed for a buyer who was sold humans has at least the free page,
\* whichever of the gates, the recruiting backends or the launch failed over HTTP; one that
\* an exception of another kind took out of judge.start is never closed.
HumansSold ==
  \A t \in Threads :
    pc[t] = "close" /\ deal[t].kind = "start" /\ deal[t].forced => panel[t] # "none"
=============================================================================
