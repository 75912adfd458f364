--------------------------- MODULE EvidenceReport ---------------------------
(***************************************************************************)
(* What a claim of the rubric is worth in the report (judge.verdict,       *)
(* report.build) as its evidence comes in: the models' consensus is there, *)
(* the probe thread of ProbeRun stores its result when it is done, and     *)
(* humans answer before and after it.                                      *)
(***************************************************************************)
EXTENDS ProbeRun

CONSTANTS
  ReportClaims,
  CheckOf,    \* the checks of a claim (lenses.Claim.check), {} for one without
  Gap,        \* report._LENS_GAP of the claim's lens
  Consensus,  \* [side, p] of its models; "unknown" for an objective claim
  MaxVotes    \* bound on the answers of humans

ASSUME ReportBoundsAssumption == MaxVotes \in Nat /\ IsFiniteSet(ReportClaims)
ASSUME CheckOfAssumption == \A c \in ReportClaims : CheckOf[c] \subseteq DOMAIN Space

\* Every check of a claim that is in a namespace of the probes is one they make.
ASSUME NamespaceAssumption ==
  \A c \in ReportClaims : \A k \in CheckOf[c] :
    Space[k] \in {"audit", "live", "agentready"} => k \in Checks

VARIABLES
  stored,     \* the probe result is in the job's state
  votes       \* human_answers per claim: [yes, no]

reportVars == <<probeVars, stored, votes>>

ReportInit == ProbesInit /\ stored = FALSE /\ votes = [c \in ReportClaims |-> [yes |-> 0, no |-> 0]]

StoreProbes ==
  /\ phase = "done" /\ ~stored /\ stored' = TRUE
  /\ UNCHANGED <<probeVars, votes>>

N(c) == votes[c].yes + votes[c].no
Cast == MapThenSumSet(N, ReportClaims)
Vote(c, yes) ==
  /\ Cast < MaxVotes
  /\ votes' = [votes EXCEPT ![c][IF yes THEN "yes" ELSE "no"] = @ + 1]
  /\ UNCHANGED <<probeVars, stored>>

ReportNext ==
  \/ ProbesNext /\ UNCHANGED <<stored, votes>>
  \/ StoreProbes
  \/ \E c \in ReportClaims, yes \in BOOLEAN : Vote(c, yes)

ReportSpec == ReportInit /\ [][ReportNext]_reportVars

-----------------------------------------------------------------------------
(* judge.verdict, claim by claim.  Probabilities are percentages.          *)

Fetched == stored /\ spaces # {}
Produced(c) == CheckOf[c] # {} /\ \A k \in CheckOf[c] : Space[k] \in spaces

\* (mutant) A check without a response is no finding, so it passed.
ProbedAnyway(c) == Fetched /\ Produced(c)
\* The probes decide a claim when every check of it ran and got its answer.
Probed(c) == Fetched /\ Produced(c) /\ CheckOf[c] \cap unknown = {}

Fails(c) == \E k \in CheckOf[c] \cap Checks : Capped[k] > 0

\* _majority, or the models' consensus.
Voted(c) == IF votes[c].yes > votes[c].no THEN "yes"
            ELSE IF votes[c].no > votes[c].yes THEN "no" ELSE "undecided"

Side(c) == IF Probed(c) THEN IF Fails(c) THEN "no" ELSE "yes"
           ELSE IF N(c) > 0 THEN Voted(c)
           ELSE IF Consensus[c].side = "unknown" THEN "undecided" ELSE Consensus[c].side

State(c) == IF N(c) > 0 THEN "human" ELSE IF Probed(c) THEN "probe"
            ELSE IF Consensus[c].side = "unknown" THEN "none" ELSE "model"

\* (mutant) The probe's certainty hides the humans' doubt.
PInternal(c) == IF Probed(c) THEN IF Fails(c) THEN 5 ELSE 95
                ELSE IF N(c) > 0 THEN (100 * votes[c].yes) \div N(c) ELSE Consensus[c].p
\* p_humans where there are humans, else p_internal: a probe moves the side of a
\* claim but not what the humans said of it.
P(c) == IF N(c) > 0 THEN (100 * votes[c].yes) \div N(c)
        ELSE IF Probed(c) THEN IF Fails(c) THEN 5 ELSE 95
        ELSE Consensus[c].p

-----------------------------------------------------------------------------
(* report.build.                                                           *)

\* _claim_status.
Status(c) ==
  IF State(c) = "none" THEN "unknown"
  ELSE IF Side(c) = "yes" /\ P(c) >= 60 THEN "pass"
  ELSE IF Side(c) = "no" /\ P(c) <= 40 THEN "fail"
  ELSE "partial"

Core == {"payer", "take_money"}

\* _business_stamp: partial and unknown claims do not count against it.
FailingGaps == {g \in Core : \E c \in ReportClaims : Gap[c] = g /\ Status(c) = "fail"}
Stamp == IF FailingGaps = {} THEN "ready_to_charge"
         ELSE IF Cardinality(FailingGaps) = 1 THEN "one_gap_away" ELSE "not_yet"

-----------------------------------------------------------------------------
(* Properties.                                                             *)

ReportTypeOK ==
  /\ ProbesTypeOK
  /\ stored \in BOOLEAN
  /\ votes \in [ReportClaims -> [yes : 0 .. MaxVotes, no : 0 .. MaxVotes]]

\* "A check that never got a response is not evidence either way" (judge.verdict):
\* when the probes decide a claim, each check of it was answered, and the claim
\* fails exactly when an answer showed a flaw.  A category the agent-readiness scan
\* leaves out is the exception: its answer is taken to cover all.
ProbedIsSeen ==
  \A c \in ReportClaims : Probed(c) =>
    /\ CheckOf[c] \subseteq seen \cup ScanChecks
    /\ Side(c) = "no" <=> CheckOf[c] \cap flawed # {}

\* Praise is uncontested.  A claim passes in the report only if nobody with evidence
\* says otherwise, neither a flaw the probes saw nor the humans who answered
\* (judge.verdict, _claim_status); and "ready_to_charge" is not given over a flaw they
\* saw in a claim of payer or take_money unless humans spoke for it (_business_stamp).
PassIsUncontested ==
  \A c \in ReportClaims :
    LET flawSeen == Probed(c) /\ CheckOf[c] \cap flawed # {}
    IN  /\ flawSeen \/ 10 * votes[c].yes < 6 * N(c) => Status(c) # "pass"
        /\ flawSeen /\ Gap[c] \in Core /\ 10 * votes[c].yes <= 4 * N(c) => Stamp # "ready_to_charge"
=============================================================================
