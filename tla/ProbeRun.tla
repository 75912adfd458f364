------------------------------ MODULE ProbeRun ------------------------------
(***************************************************************************)
(* probes.run: one budgeted visit to a live page, fetch by fetch, and      *)
(* agentready.scan at its end.  A site answers each fetch as it likes:     *)
(* with or without a flaw, or not at all (blocked, refused, timed out).    *)
(***************************************************************************)
EXTENDS Naturals, Sequences, FiniteSets, FiniteSetsExt, SequencesExt

CONSTANTS
  HeadChecks,   \* judged on the homepage's answer alone (live/*, audit/tracker-*)
  PageChecks,   \* judged on every page that was read (_page_checks)
  LinkCheck,    \* audit/broken-link
  AuxOrder,     \* the checks with a fetch of their own, in order
  Linkable,     \* those a link on the homepage settles (privacy, terms, contact)
  ScanChecks,   \* the categories of the agent-readiness scan
  Space,        \* the namespace of each check: "audit", "live", "agentready"
  Budget,       \* the time budget in steps: 0 is remaining() <= 0.3, 1 is <= 0.5
  MaxPages, MaxLinks,   \* pages read, links followed
  PerId         \* FINDINGS_PER_ID_CAP

AuxChecks == ToSet(AuxOrder)
Checks == HeadChecks \cup PageChecks \cup {LinkCheck} \cup AuxChecks \cup ScanChecks

ASSUME ProbeAssumption == Linkable \subseteq AuxChecks /\ Checks \subseteq DOMAIN Space
ASSUME AuxAssumption == AuxOrder \in Seq(DOMAIN Space)
ASSUME ProbeBoundsAssumption == {Budget, MaxPages, MaxLinks, PerId} \subseteq Nat

VARIABLES
  phase,        \* "root", "pages", "links", "aux", "scan", "done", or "dead"
  left,         \* what is left of the budget
  at,           \* the next link, or the next of AuxOrder
  links,        \* how many same-origin links the homepage has
  linkedTo,     \* the Linkable checks the homepage has a link for
  pages,        \* pages read
  found,        \* findings per check
  unknown,      \* the checks that got no response
  spaces,       \* result["namespaces"]
  seen, flawed  \* checks with an answer, checks whose answer showed a flaw (history)

probeVars == <<phase, left, at, links, linkedTo, pages, found, unknown, spaces, seen, flawed>>

ProbesInit ==
  /\ phase = "root" /\ left = Budget /\ at = 1 /\ links = 0 /\ linkedTo = {} /\ pages = 0
  /\ found = [c \in Checks |-> 0]
  /\ unknown = {} /\ spaces = {} /\ seen = {} /\ flawed = {}

Finds(checks) ==
  /\ found' = [c \in Checks |-> found[c] + (IF c \in checks THEN 1 ELSE 0)]
  /\ flawed' = flawed \cup checks

\* A blocked host, a timeout or an error: nothing was fetched and nothing is said.
RootFails ==
  /\ phase = "root" /\ phase' = "done"
  /\ UNCHANGED <<left, at, links, linkedTo, pages, found, unknown, spaces, seen, flawed>>

RootAnswers(rest, n, linked, flaws) ==
  /\ phase = "root" /\ phase' = "pages"
  /\ left' = rest /\ links' = n /\ linkedTo' = linked
  /\ pages' = 1 /\ spaces' = {"audit", "live"}
  /\ Finds(flaws) /\ seen' = HeadChecks \cup PageChecks
  /\ UNCHANGED <<at, unknown>>

MayFetch == left > 0

\* The homepage's links are read as pages while there is budget; what is not read
\* leaves no trace in the result.
ReadPage(rest, answered, flaws) ==
  /\ phase = "pages" /\ at <= links /\ pages < MaxPages /\ MayFetch
  /\ left' = rest /\ at' = at + 1
  /\ IF answered THEN pages' = pages + 1 /\ Finds(flaws) ELSE UNCHANGED <<pages, found, flawed>>
  /\ UNCHANGED <<phase, links, linkedTo, unknown, spaces, seen>>

PagesEnd ==
  /\ phase = "pages" /\ (at > links \/ pages >= MaxPages \/ ~MayFetch)
  /\ phase' = "links" /\ at' = 1
  /\ UNCHANGED <<left, links, linkedTo, pages, found, unknown, spaces, seen, flawed>>

\* A link without an answer is unknown, not broken.
FollowLink(rest, answer) ==
  /\ phase = "links" /\ at <= links /\ MayFetch
  /\ left' = rest /\ at' = at + 1
  /\ Finds(IF answer = "flaw" THEN {LinkCheck} ELSE {})
  /\ unknown' = IF answer = "none" THEN unknown \cup {LinkCheck} ELSE unknown
  /\ UNCHANGED <<phase, links, linkedTo, pages, spaces, seen>>

LinksEnd ==
  /\ phase = "links" /\ (at > links \/ ~MayFetch)
  /\ phase' = "aux" /\ at' = 1
  /\ unknown' = IF at > links THEN unknown ELSE unknown \cup {LinkCheck}
  /\ seen' = seen \cup ({LinkCheck} \ unknown')
  /\ UNCHANGED <<left, links, linkedTo, pages, found, spaces, flawed>>

\* robots.txt, sitemap, ..., /.env, the soft 404: a finding needs an answer
\* (any status but 200 counts as absence); none, or no budget, is unknown.
FetchAux(rest, answer) ==
  LET c == AuxOrder[at] IN
  /\ phase = "aux" /\ at <= Len(AuxOrder)
  /\ at' = at + 1
  /\ IF c \in linkedTo
     THEN seen' = seen \cup {c} /\ UNCHANGED <<left, found, unknown, flawed>>
     ELSE IF ~MayFetch \/ answer = "none"
     THEN /\ left' = (IF MayFetch THEN rest ELSE left)
          /\ unknown' = unknown \cup {c} /\ UNCHANGED <<found, seen, flawed>>
     ELSE /\ left' = rest /\ seen' = seen \cup {c} /\ UNCHANGED unknown
          /\ Finds(IF answer = "flaw" THEN {c} ELSE {})
  /\ UNCHANGED <<phase, links, linkedTo, pages, spaces>>

AuxEnd ==
  /\ phase = "aux" /\ at > Len(AuxOrder) /\ phase' = "scan"
  /\ UNCHANGED <<left, at, links, linkedTo, pages, found, unknown, spaces, seen, flawed>>

\* The scan names the categories that fail; one it leaves out does not fail.  When
\* it does not answer, or there is no budget for it, it is no namespace of the run.
Scan(answered, covered, flaws) ==
  /\ phase = "scan" /\ phase' = "done"
  /\ IF left > 1 /\ answered
     THEN /\ spaces' = spaces \cup {"agentready"}
          /\ Finds(flaws) /\ seen' = seen \cup covered
     ELSE UNCHANGED <<spaces, found, seen, flawed>>
  /\ UNCHANGED <<left, at, links, linkedTo, pages, unknown>>

\* The instance restarts; nothing starts the thread again.
ProbesDie ==
  /\ phase \notin {"done", "dead"} /\ phase' = "dead"
  /\ UNCHANGED <<left, at, links, linkedTo, pages, found, unknown, spaces, seen, flawed>>

Fetching(rest) ==
  \/ \E n \in 0 .. MaxLinks, linked \in SUBSET Linkable, flaws \in SUBSET (HeadChecks \cup PageChecks) :
       RootAnswers(rest, n, linked, flaws)
  \/ \E answered \in BOOLEAN, flaws \in SUBSET PageChecks : ReadPage(rest, answered, flaws)
  \/ \E answer \in {"ok", "flaw", "none"} : FollowLink(rest, answer) \/ FetchAux(rest, answer)

ProbesNext ==
  \/ \E rest \in 0 .. left : Fetching(rest)
  \/ RootFails \/ PagesEnd \/ LinksEnd \/ AuxEnd \/ ProbesDie
  \/ \E answered \in BOOLEAN, covered \in SUBSET ScanChecks : \E flaws \in SUBSET covered :
       Scan(answered, covered, flaws)

\* _cap_findings: a summary stands for what is over the cap.
Capped == [c \in Checks |-> IF found[c] > PerId THEN PerId + 1 ELSE found[c]]

ProbesTypeOK ==
  /\ phase \in {"root", "pages", "links", "aux", "scan", "done", "dead"}
  /\ left \in 0 .. Budget /\ links \in 0 .. MaxLinks /\ at \in 1 .. 1 + Max({MaxLinks, Len(AuxOrder)})
  /\ linkedTo \subseteq Linkable /\ pages \in 0 .. Max({1, MaxPages})
  /\ found \in [Checks -> Nat]
  /\ unknown \subseteq Checks /\ seen \subseteq Checks /\ flawed \subseteq seen \cup {LinkCheck}
  /\ spaces \subseteq {"audit", "live", "agentready"}
=============================================================================
