--------------------------- MODULE HackathonStamp ---------------------------
(***************************************************************************)
(* hackathon.evaluate: the bundle is judged section by section, one model  *)
(* call per persona, and two stamps are drawn from the grades.  A call may *)
(* raise (its section is unknown) or come back with claims skipped at even *)
(* odds.  The messaging and technical sections are graded the same way and *)
(* are in no stamp.  Probabilities are percentages.                        *)
(***************************************************************************)
EXTENDS Naturals, FiniteSets, FiniteSetsExt

CONSTANTS
  Judging,      \* items; those of weight 3 and more are Heavy
  Heavy,
  Sponsors, Required,
  Autonomy,     \* failure modes
  ItemClaims,   \* the claims of an item
  Capabilities, \* how many capabilities a sponsor's signature has
  Personas,     \* how many are asked
  Odds          \* what a model may answer; 50 is also what a skip counts as

Graded == Judging \cup Sponsors \cup Autonomy
SectionItems == [judging |-> Judging, sponsors |-> Sponsors, autonomy |-> Autonomy]

ASSUME HackathonAssumption ==
  /\ Heavy \subseteq Judging /\ Required \subseteq Sponsors
  /\ \A i \in Graded : ItemClaims[i] # {} /\ IsFiniteSet(ItemClaims[i])
  /\ IsFiniteSet(Autonomy)
  /\ Personas \in Nat \ {0} /\ Odds \subseteq 0 .. 100 /\ Capabilities \in Nat

VARIABLES
  section,   \* the section in hand, "begin" or "stamped"
  asked,     \* personas asked in it
  sum,       \* per claim of the section, the probabilities so far
  depth,     \* depth of use of each sponsor
  grade,     \* per item: "none" until its section is done
  strong,    \* sponsors most of whose claims hold
  backed     \* items of whose claims some model said more than even (history)

stampVars == <<section, asked, sum, depth, grade, strong, backed>>

ClaimsIn(items) == UNION {ItemClaims[i] : i \in items}
NoSums == [c \in ClaimsIn(Graded) |-> 0]

StampInit ==
  /\ section = "begin" /\ asked = 0 /\ sum = NoSums
  /\ depth = [s \in Sponsors |-> 0] /\ grade = [i \in Graded |-> "none"]
  /\ strong = {} /\ backed = {}

\* (mutant) The ladder goes on with every capability.
DepthByHits(code, text, hits) == IF code THEN 2 + hits ELSE IF text THEN 1 ELSE 0
\* sponsors.detect_one: by what the bundle has of the sponsor's signature.
Depth(code, text, hits) ==
  IF ~code THEN IF text THEN 1 ELSE 0
  ELSE IF hits = 0 THEN 2 ELSE IF 2 * hits >= Capabilities THEN 4 ELSE 3

Detect(hit) ==
  /\ section = "begin" /\ section' = "judging"
  /\ depth' = [s \in Sponsors |-> Depth(hit[s].code, hit[s].text, hit[s].hits)]
  /\ UNCHANGED <<asked, sum, grade, strong, backed>>

Following == CASE section = "judging" -> "sponsors" [] section = "sponsors" -> "autonomy"
               [] OTHER -> "stamped"
Items == SectionItems[section]

\* evaluate_batch for one persona.
Ask(p) ==
  /\ section \in DOMAIN SectionItems /\ asked < Personas
  /\ asked' = asked + 1
  /\ sum' = [c \in DOMAIN sum |-> IF c \in DOMAIN p THEN sum[c] + p[c] ELSE sum[c]]
  /\ backed' = backed \cup {i \in Items : \E c \in ItemClaims[i] : p[c] > 50}
  /\ UNCHANGED <<section, depth, grade, strong>>

\* One persona's call raises: the whole section is unknown.
AskRaises ==
  /\ section \in DOMAIN SectionItems /\ asked < Personas
  /\ grade' = [i \in Graded |-> IF i \in Items THEN "unknown" ELSE grade[i]]
  /\ section' = Following /\ asked' = 0 /\ sum' = NoSums
  /\ backed' = backed \ Items
  /\ UNCHANGED <<depth, strong>>

Likely(c) == sum[c] \div Personas
Mean(i) == MapThenSumSet(Likely, ItemClaims[i]) \div Cardinality(ItemClaims[i])
Grade(i) == IF Mean(i) >= 70 THEN "pass" ELSE IF Mean(i) >= 40 THEN "partial" ELSE "fail"
Majority(i) == 2 * Cardinality({c \in ItemClaims[i] : Likely(c) >= 60}) > Cardinality(ItemClaims[i])

GradeSection ==
  /\ section \in DOMAIN SectionItems /\ asked = Personas
  /\ grade' = [i \in Graded |-> IF i \in Items THEN Grade(i) ELSE grade[i]]
  /\ strong' = IF section = "sponsors" THEN {i \in Sponsors : Majority(i)} ELSE strong
  /\ section' = Following /\ asked' = 0 /\ sum' = NoSums
  /\ UNCHANGED <<depth, backed>>

Hits == [code : BOOLEAN, text : BOOLEAN, hits : 0 .. Capabilities]
StampNext ==
  \/ \E hit \in [Sponsors -> Hits] : Detect(hit)
  \/ section \in DOMAIN SectionItems /\ \E p \in [ClaimsIn(Items) -> Odds] : Ask(p)
  \/ AskRaises \/ GradeSection

StampSpec == StampInit /\ [][StampNext]_stampVars

-----------------------------------------------------------------------------
(* _sponsor_bucket and the stamps.                                         *)

\* (mutant) A name in the text is enough to qualify.
QualifiesByName == {s \in Sponsors : depth[s] > 0 /\ s \in strong /\ grade[s] # "unknown"}
Qualifies == {s \in Sponsors : depth[s] > 2 /\ s \in strong /\ grade[s] # "unknown"}
Claimed == {s \in Sponsors : depth[s] > 0}

\* _stamp; the cap on cheapest_to_add moves an entry to not_used, not out of the lists.
Stamped ==
  IF Heavy # {} /\ (\A i \in Heavy : grade[i] = "pass") /\ Required \subseteq Qualifies THEN "contender"
  ELSE IF (\A i \in Heavy : grade[i] \notin {"fail", "unknown"}) /\ Required \subseteq Claimed THEN "fixable_by_1830"
  ELSE "not_yet"

With(items, status) == Cardinality({i \in items : grade[i] = status})

\* All held but one, and none failed; an unknown item is neither.
AutonomyStamp ==
  IF Autonomy = {} THEN "not_run"
  ELSE IF With(Autonomy, "fail") = 0 /\ With(Autonomy, "pass") + 1 >= Cardinality(Autonomy) THEN "autonomous"
  ELSE IF With(Autonomy, "fail") <= 2 THEN "human_in_the_loop" ELSE "not_autonomous"

-----------------------------------------------------------------------------
(* Properties.                                                             *)

StampTypeOK ==
  /\ section \in DOMAIN SectionItems \cup {"begin", "stamped"} /\ asked \in 0 .. Personas
  /\ sum \in [ClaimsIn(Graded) -> 0 .. 100 * Personas] /\ depth \in [Sponsors -> 0 .. 4]
  /\ grade \in [Graded -> {"none", "pass", "partial", "fail", "unknown"}]
  /\ strong \subseteq Sponsors /\ backed \subseteq Graded

\* An outage never earns one of the two upper stamps.  Behind a contender, every heavy
\* item has a model that answered, and every required sponsor one and its code in the
\* bundle (_stamp, _sponsor_bucket); who is "autonomous" has a model behind all items
\* but one ("fail closed").  The stamps below these an outage does earn: skipped claims
\* are at even odds, which is "partial" and enough for "fixable_by_1830", and an autonomy
\* section that raised has nothing failed, which is "human_in_the_loop".
StampIsJudged ==
  section = "stamped" =>
    /\ Stamped = "contender"
         => Heavy \cup Required \subseteq backed /\ \A s \in Required : depth[s] > 2
    /\ AutonomyStamp = "autonomous"
         => Cardinality(Autonomy \cap backed) + 1 >= Cardinality(Autonomy)
=============================================================================
