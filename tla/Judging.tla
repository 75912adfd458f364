------------------------------- MODULE Judging -------------------------------
(***************************************************************************)
(* judge.start between the order and the first row of the job: the         *)
(* evaluators' votes become a consensus per claim (core/consensus.py,      *)
(* judge._claim_row), the most disputed claim is weighed against the price *)
(* of evidence (core/voi.py), the evidence standard that was sold          *)
(* overrules the outcome (judge._apply_standard), and the panel that is    *)
(* launched is the arm's, or the free page when the envelope or the        *)
(* backend refuses.  Probabilities are whole numbers of 1/Unit.            *)
(***************************************************************************)
EXTENDS EvaluatorBatch

CONSTANTS
  Unit,         \* 1 in the arithmetic of probabilities
  Price,        \* of each arm, in cents
  Latency,      \* of each arm, in minutes
  PriorGain,    \* of each arm, in percent
  Measured,     \* gains, in percent, that settled jobs may have shown
  Wired,        \* the recruiting backends that are registered
  Requests      \* see Request

\* voi.DEFAULT_ARMS, in this order, and judge.HUMAN_ARMS, EXPERT_ARMS.
DefaultArms == <<"ensemble", "linq_panel", "terac_general", "terac_expert">>
ArmNames == {DefaultArms[k] : k \in DOMAIN DefaultArms}
HumanArms == <<"linq_panel", "terac_general", "terac_expert">>
ExpertArms == <<"terac_expert">>
TeracArms == {"terac_general", "terac_expert"}
Standards == {"voi_routed", "human_backed", "expert_backed"}
NoDeadline == -1

\* What the buyer sends: a standard or "unset", the force_humans flag, whether the SKU has a
\* standard of its own (all but custom do), the stake in dollars, the budget in cents, and the
\* minutes to RC_DEADLINE_ISO.
Request == [given : Standards \cup {"unset"}, force : BOOLEAN, room : BOOLEAN,
            stake : Nat, budget : Nat, deadline : Nat \cup {NoDeadline}]

ASSUME UnitAssumption ==
  /\ Unit \in Nat \ {0} /\ Unit % 2 = 0
  /\ \A b \in DOMAIN Seats : \A n \in 1..Seats[b] : Unit % n = 0
ASSUME ArmsAssumption ==
  /\ Price \in [ArmNames -> Nat] /\ Latency \in [ArmNames -> Nat]
  /\ PriorGain \in [ArmNames -> 0..100] /\ Measured \subseteq 0..100
  /\ Wired \subseteq {"linq", "terac"}
ASSUME RequestsAssumption == Requests \subseteq Request

VARIABLES
  rows,       \* per claim of the rubric: its consensus
  step,       \* the next step of judge.start after the evaluation
  request,    \* the buyer's request, normalised
  gain,       \* learning.arms: the gain of each arm
  pick,       \* voi.decide's decision (history)
  decision,   \* what is bought
  free,       \* use_free_panel
  panel,      \* the source of the panel that was launched
  armUsed     \* state["arm_used"]

buyVars == <<step, request, gain, pick, decision, free, panel, armUsed>>
vars == <<batchVars, rows, buyVars>>

NoBuy == [buy |-> FALSE, arm |-> "none"]
Buy(arm) == [buy |-> TRUE, arm |-> arm]
NoRequest == [standard |-> "none"]

-----------------------------------------------------------------------------
(* Consensus of one claim.  The p of a vote is 1, 0 or 1/2 with its side    *)
(* yes, no or skip (evaluators._P_BY_VERDICT), so that the two sides are    *)
(* always further apart than consensus.DISSENT_THRESHOLD.                   *)

Count(vs, side) == Cardinality({k \in DOMAIN vs : vs[k].side = side})
Larger(a, b) == IF a > b THEN a ELSE b

\* consensus.evaluate: the majority among those who took a side.
Side(vs) ==
  IF Count(vs, "yes") > Count(vs, "no") THEN "yes"
  ELSE IF Count(vs, "no") > Count(vs, "yes") THEN "no" ELSE "skip"

\* (mutant) Those who skipped count as voters.
AgreementOfAll(vs) == (Unit * Larger(Count(vs, "yes"), Count(vs, "no"))) \div Len(vs)

\* The share of the side that won, or tied, among those who took one.
Agreement(vs) ==
  LET active == Count(vs, "yes") + Count(vs, "no")
  IN  IF active = 0 THEN 0 ELSE (Unit * Larger(Count(vs, "yes"), Count(vs, "no"))) \div active

Dissent(vs) ==
  LET d == (Unit - Agreement(vs)) + (IF Side(vs) = "skip" THEN Unit \div 2 ELSE 0)
  IN  IF d > Unit THEN Unit ELSE d

\* A claim's row.  voices, the sides that evaluators took, is history.
ClaimRow(vs, voices) ==
  [side |-> Side(vs), judged |-> TRUE, dissent |-> Dissent(vs), voices |-> voices,
   p |-> CASE Side(vs) = "yes" -> Unit [] Side(vs) = "no" -> 0 [] OTHER -> Unit \div 2]
\* An objective claim: only a probe will have something to say about it.
ObjectiveRow ==
  [side |-> "unknown", judged |-> FALSE, dissent |-> 0, voices |-> {}, p |-> Unit \div 2]

Voices(claim) == {h[3] : h \in {h \in heard : h[2] = claim}} \ {"skip"}

-----------------------------------------------------------------------------
(* The value of information.  4 * Unit * Unit is 1 in probabilities of      *)
(* being wrong; a gain is a percentage and a stake is in dollars, so that   *)
(* cents come out.                                                          *)

Whole == 4 * Unit * Unit
MarginCents == 25

\* p_wrong_without.
WrongWithout(p, d) ==
  LET base == Unit - Larger(p, Unit - p) IN 4 * Unit * base + d * (Unit - 2 * base)

\* p_wrong_without <= 1 - CONFIDENCE_FLOOR.
BelowFloor(pw) == 100 * pw <= 45 * Whole

InTime(arm, deadline) == deadline = NoDeadline \/ Latency[arm] <= deadline
Net(arm, pw, stake, g) == pw * g[arm] * stake - (Price[arm] + MarginCents) * Whole

Affordable(req) ==
  {k \in DOMAIN DefaultArms :
     Price[DefaultArms[k]] <= req.budget /\ InTime(DefaultArms[k], req.deadline)}

\* The first arm of the greatest net value.
BestOf(ks, pw, req, g) ==
  CHOOSE k \in ks : \A j \in ks :
    LET nk == Net(DefaultArms[k], pw, req.stake, g)
        nj == Net(DefaultArms[j], pw, req.stake, g)
    IN  nj < nk \/ (nj = nk /\ k <= j)

\* voi.decide on a row.
Decide(row, req, g) ==
  LET pw == WrongWithout(row.p, row.dissent)
      ks == Affordable(req)
      best == DefaultArms[BestOf(ks, pw, req, g)]
  IN  IF BelowFloor(pw) /\ row.dissent = 0 THEN NoBuy
      ELSE IF ks = {} THEN NoBuy
      ELSE IF Net(best, pw, req.stake, g) <= 0 THEN NoBuy ELSE Buy(best)

\* (mutant) The first claim stands for the job.
FirstClaim == 1
\* The first of the rows with the greatest dissent.
Worst ==
  CHOOSE i \in DOMAIN rows : \A j \in DOMAIN rows :
    rows[j].dissent < rows[i].dissent \/ (rows[j].dissent = rows[i].dissent /\ i <= j)

-----------------------------------------------------------------------------
(* The evidence standard.                                                   *)

\* models._normalise_claims and skus.default_standard.
StandardOf(r) ==
  IF r.given # "unset" THEN r.given
  ELSE IF r.force \/ r.room THEN "human_backed" ELSE "voi_routed"
Normalised(r) ==
  [standard |-> StandardOf(r), stake |-> r.stake, budget |-> r.budget, deadline |-> r.deadline]
\* What the validator makes of force_humans.
ForceHumans == request.standard # "voi_routed"

\* (mutant) Any panel of people serves an expert standard.
NeedAnyHumans(standard) == HumanArms
Need(standard) == IF standard = "expert_backed" THEN ExpertArms ELSE HumanArms
Serves(arm, need) == \E k \in DOMAIN need : need[k] = arm

\* _apply_standard.
ApplyStandard(standard, d, deadline) ==
  LET need == Need(standard)
      timely == {k \in DOMAIN need : InTime(need[k], deadline)}
  IN  IF standard = "voi_routed" \/ (d.buy /\ Serves(d.arm, need)) THEN d
      ELSE IF timely = {} THEN Buy("local_panel")
      ELSE Buy(need[CHOOSE k \in timely : \A j \in timely : k <= j])

-----------------------------------------------------------------------------
JInit ==
  /\ Init
  /\ rows = [i \in 1..NClaims |-> ObjectiveRow]
  /\ step = "route" /\ request = NoRequest /\ gain = PriorGain
  /\ pick = NoBuy /\ decision = NoBuy /\ free = FALSE
  /\ panel = "none" /\ armUsed = "none"

\* A batch is judged: its claims get their rows.
Row ==
  /\ NextBatch
  /\ rows' = [c \in 1..NClaims |->
                LET is == {i \in DOMAIN votes : Batches[batch][i] = c}
                IN  IF is = {} THEN rows[c]
                    ELSE ClaimRow(votes[CHOOSE i \in is : TRUE], Voices(c))]
  /\ UNCHANGED buyVars

\* The price of evidence against the most disputed claim, then the standard.  The request and
\* the gains matter from here on only; an arm with MIN_SETTLED jobs has a measured gain.
Route ==
  /\ pc = "done" /\ step = "route"
  /\ \E r \in Requests, live \in SUBSET ArmNames, m \in Measured :
       /\ request' = Normalised(r)
       /\ gain' = [a \in ArmNames |-> IF a \in live THEN m ELSE PriorGain[a]]
  /\ pick' = Decide(rows[Worst], request', gain')
  /\ decision' = ApplyStandard(request'.standard, pick', request'.deadline)
  /\ step' = "gate"
  /\ UNCHANGED <<batchVars, rows, free, panel, armUsed>>

\* The envelope has the last word: without it a paid arm becomes the free page for a buyer who
\* was sold humans, and nothing for the others.  The free page passes on its own.
Gate ==
  /\ step = "gate"
  /\ \E allowed \in BOOLEAN :
       /\ decision.arm \in {"none", "local_panel"} => allowed
       /\ free' = (~allowed /\ ForceHumans)
       /\ decision' = IF allowed \/ ForceHumans THEN decision
                                                ELSE [decision EXCEPT !.buy = FALSE]
  /\ step' = IF decision'.buy THEN "launch" ELSE "settled"
  /\ UNCHANGED <<batchVars, rows, request, gain, pick, panel, armUsed>>

\* panels.for_arm.
Backend(arm) ==
  LET b == IF arm = "linq_panel" THEN "linq" ELSE IF arm \in TeracArms THEN "terac" ELSE "local"
  IN  IF b \in Wired THEN b ELSE "local"

\* learning is told which arm recruited.
ArmOf(source) ==
  CASE source = "local" -> "local_panel"
    [] source = "linq" -> "linq_panel"
    [] source = "terac" -> IF decision.arm \in TeracArms THEN decision.arm ELSE "terac_general"

\* A backend that recruits nobody, or is not paid, leaves the job to the free page.
Launch ==
  /\ step = "launch"
  /\ \E recruited \in BOOLEAN :
       panel' = IF free \/ ~recruited THEN "local" ELSE Backend(decision.arm)
  /\ armUsed' = ArmOf(panel')
  /\ step' = "awaiting_humans"
  /\ UNCHANGED <<batchVars, rows, request, gain, pick, decision, free>>

JNext == (Judge /\ UNCHANGED <<rows, buyVars>>) \/ Row \/ Route \/ Gate \/ Launch
Spec == JInit /\ [][JNext]_vars

-----------------------------------------------------------------------------
(* Correctness.                                                            *)

Decisions == [buy : BOOLEAN, arm : ArmNames \cup {"none", "local_panel"}]
TypeOK ==
  /\ BatchTypeOK
  /\ rows \in [1..NClaims -> [side : Sides \cup {"unknown"}, judged : BOOLEAN, dissent : 0..Unit,
                              voices : SUBSET {"yes", "no"}, p : {0, Unit \div 2, Unit}]]
  /\ step \in {"route", "gate", "launch", "settled", "awaiting_humans"}
  /\ step # "route" => request.standard \in Standards
  /\ gain \in [ArmNames -> 0..100]
  /\ pick \in Decisions /\ decision \in Decisions /\ free \in BOOLEAN
  /\ panel \in {"none", "local", "linq", "terac"}
  /\ armUsed \in ArmNames \cup {"none", "local_panel"}

Routed == step # "route"

\* The one claim that is weighed decides for all of them: if voi_routed buys nothing, no claim
\* that models judged would have bought anything by itself.
WorstDecides ==
  Routed /\ ~pick.buy =>
    \A i \in DOMAIN rows : rows[i].judged => ~Decide(rows[i], request, gain).buy

\* Evaluators who agree cost the buyer nothing: with a judged claim first, a voi_routed job on
\* which no two evaluators took opposite sides, and somebody took one on every judged claim,
\* settles without people, whoever was silent and whatever the stake.
UnanimityIsFree ==
  /\ Routed /\ request.standard = "voi_routed" /\ rows[1].judged
  /\ \A i \in DOMAIN rows : rows[i].judged => Cardinality(rows[i].voices) = 1
  => ~decision.buy

\* Whoever was sold people, by any of the flags and defaults, waits for people: experts if
\* experts were sold, unless none can be there in time or the envelope or the backend refused,
\* and nobody who was recruited can come too late.
StandardHolds ==
  /\ step = "settled" => request.standard = "voi_routed"
  /\ step = "awaiting_humans" /\ request.standard # "voi_routed" =>
       /\ panel # "none"
       /\ decision.arm = "local_panel" \/ Serves(decision.arm, Need(request.standard))
       /\ request.standard = "expert_backed" => armUsed \in {"terac_expert", "local_panel"}
  /\ panel \notin {"none", "local"} => InTime(decision.arm, request.deadline)
=============================================================================
