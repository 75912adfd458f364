---------------------------- MODULE RatingPages -----------------------------
(***************************************************************************)
(* The forms humans send (api.rate_submit, rate_v2.submit) for a job and   *)
(* for its revised version, and the pre-registered comparison of the two   *)
(* (before_after.lock, before_after.compare).  Submissions run on the      *)
(* event loop, one at a time from the second read of the job on; lock and  *)
(* compare run in request threads, and a restart may hit between any two   *)
(* store calls.  store.now() counts seconds: a lock is later than an       *)
(* answer only if a second began between them.                             *)
(***************************************************************************)
EXTENDS Naturals, FiniteSets

CONSTANTS
  Respondents,   \* identities: a Terac id, a Linq hash or a cookie
  Sources,       \* the src field of a form: where its link came from
  LastClaim,     \* a form answers the claims 0 .. LastClaim
  Extras,        \* what a verdict may hold besides the answers
  MaxForms, MaxPageRestarts   \* bounds

Jobs == {"before", "after"}
Claims == 0 .. LastClaim

ASSUME LastClaimAssumption == LastClaim \in Nat
ASSUME ExtrasAssumption == Extras # {}
ASSUME PageBoundsAssumption == MaxForms \in Nat /\ MaxPageRestarts \in Nat

VARIABLES
  brief,        \* the jobs are full_reality_check and use the v2 page (never changes)
  briefs,       \* rows of human_briefs: <<job, respondent>>
  answers,      \* rows of human_answers: <<job, source, respondent, claim>>
  firstAfter,   \* the first answer to the after job came: "never", in this second, or "earlier"
  form,         \* the submission in hand: [pc, job, src, who, claim, new]
  extras,       \* of the before job: what its verdict holds besides the answers
  locked,       \* the latest before_after.locked event: [is, v, late]
  locking,      \* a lock between its read and its event: [pc, v]
  comparing,    \* a comparison between its reads: [pc, v, lk, crossed, moved]
  cut,          \* <<job, respondent>>: a restart cut the submission short (history)
  forms, pageRestarts   \* how many so far (bounds)

rowVars == <<briefs, answers, firstAfter, extras>>
compareVars == <<locked, locking, comparing>>
pageVars == <<brief, rowVars, form, compareVars, cut, forms, pageRestarts>>

\* A verdict of the before job.  Its answers are only ever added, so their number tells
\* two verdicts' answers apart; the rest of it may change and change back.
Verdicts == [n : Nat, extras : Extras]
SomeExtras == CHOOSE e \in Extras : TRUE
NoVerdict == [n |-> 0, extras |-> SomeExtras]
NoForm == [pc |-> "idle", job |-> "before", src |-> "", who |-> "", claim |-> 0, new |-> FALSE]
NoLock == [is |-> FALSE, v |-> NoVerdict, late |-> FALSE]
NotLocking == [pc |-> "idle", v |-> NoVerdict]
NotComparing == [pc |-> "idle", v |-> NoVerdict, lk |-> NoLock, crossed |-> FALSE, moved |-> FALSE]

PagesInit ==
  /\ brief \in BOOLEAN
  /\ briefs = {} /\ answers = {} /\ firstAfter = "never" /\ extras = SomeExtras
  /\ form = NoForm
  /\ locked = NoLock /\ locking = NotLocking /\ comparing = NotComparing
  /\ cut = {} /\ forms = 0 /\ pageRestarts = 0

ClaimsFrom(j, s, r) == {c \in Claims : <<j, s, r, c>> \in answers}
ClaimsOf(j, r) == UNION {ClaimsFrom(j, s, r) : s \in Sources}
Counted(j) == {r \in Respondents : ClaimsOf(j, r) # {}}

-----------------------------------------------------------------------------
(* A form.                                                                 *)

\* rate_submit: a respondent of the previous version is turned away.
FreshEyes(j, r) == j = "after" => r \notin Counted("before")

Submit(j, s, r) ==
  /\ form.pc = "idle" /\ FreshEyes(j, r) /\ forms < MaxForms
  /\ forms' = forms + 1
  /\ form' = [NoForm EXCEPT !.pc = IF brief THEN "brief" ELSE "answers", !.job = j, !.src = s, !.who = r]
  /\ UNCHANGED <<brief, rowVars, compareVars, cut, pageRestarts>>

\* rate_v2.submit: the brief's row, of a job and a respondent, is the duplicate guard.
BriefTaken == form.pc = "brief" /\ <<form.job, form.who>> \in briefs

AddBrief ==
  /\ form.pc = "brief"
  /\ briefs' = briefs \cup {<<form.job, form.who>>}
  /\ form' = IF BriefTaken THEN NoForm ELSE [form EXCEPT !.pc = "answers", !.new = TRUE]
  /\ UNCHANGED <<brief, answers, firstAfter, extras, compareVars, cut, forms, pageRestarts>>

\* (mutant) A respondent who has a row is a duplicate.
FirstRow == form.who \notin Counted(form.job)
\* UNIQUE(job_id, source, respondent, claim_idx): a row is accepted unless it is there.
Accepted == form.claim \notin ClaimsFrom(form.job, form.src, form.who)
\* The v1 page: a form none of whose rows is accepted is a duplicate.
NoneAccepted == form.pc = "answers" /\ form.claim = LastClaim /\ ~form.new /\ ~Accepted

\* One add_human_answer per claim, in order.
AddAnswer ==
  /\ form.pc = "answers"
  /\ IF Accepted
     THEN /\ answers' = answers \cup {<<form.job, form.src, form.who, form.claim>>}
          /\ firstAfter' = IF form.job = "after" /\ firstAfter = "never" THEN "now" ELSE firstAfter
     ELSE UNCHANGED <<answers, firstAfter>>
  /\ form' = IF form.claim = LastClaim THEN NoForm
             ELSE [form EXCEPT !.claim = @ + 1, !.new = @ \/ Accepted]
  /\ UNCHANGED <<brief, briefs, extras, compareVars, cut, forms, pageRestarts>>

\* judge.verdict: probes that decide a claim, the claims humans flipped, the time-out, the
\* counts of Replay, the costs on the ledger.  A reset, a poll or a stale put of the row
\* takes any of them back.
ExtrasChange(e) ==
  /\ e # extras /\ extras' = e
  /\ comparing' = [comparing EXCEPT !.moved = @ \/ comparing.pc \in {"lock", "hash"}]
  /\ UNCHANGED <<brief, briefs, answers, firstAfter, form, locked, locking, cut, forms, pageRestarts>>

-----------------------------------------------------------------------------
(* Lock and compare.                                                       *)

\* What _vhash hashes of the before job: all of the verdict but the status.
VHash == [n |-> Cardinality({a \in answers : a[1] = "before"}), extras |-> extras]

LockRead ==
  /\ locking.pc = "idle"
  /\ locking' = [pc |-> "event", v |-> VHash]
  /\ UNCHANGED <<brief, rowVars, form, locked, comparing, cut, forms, pageRestarts>>

LockEvent ==
  /\ locking.pc = "event"
  /\ locked' = [is |-> TRUE, v |-> locking.v, late |-> firstAfter = "earlier"]
  /\ locking' = NotLocking
  /\ comparing' = [comparing EXCEPT !.crossed = @ \/ comparing.pc = "lock"]
  /\ UNCHANGED <<brief, rowVars, form, cut, forms, pageRestarts>>

\* compare reads the verdicts, then the lock, then the hash again, then the rest; once
\* it is known to be invalid what it still reads does not matter.
Reading(pc) == /\ comparing.pc = pc
               /\ UNCHANGED <<brief, rowVars, form, locked, locking, cut, forms, pageRestarts>>

CompareVerdicts ==
  /\ Reading("idle") /\ \E r \in Respondents : 0 \in ClaimsOf("after", r)
  /\ comparing' = [NotComparing EXCEPT !.pc = "lock", !.v = VHash]

CompareLock ==
  /\ Reading("lock")
  /\ comparing' = IF locked.is THEN [comparing EXCEPT !.pc = "hash", !.lk = locked] ELSE NotComparing

\* (mutant) A lock is taken for a lock of this verdict.
CompareHashIsThere == Reading("hash") /\ comparing' = [comparing EXCEPT !.pc = "decide"]

CompareHash ==
  /\ Reading("hash")
  /\ comparing' = IF comparing.lk.v = VHash THEN [comparing EXCEPT !.pc = "decide"] ELSE NotComparing

\* Respondents with an answer to either version.
Shared == Counted("before") \cap Counted("after")

\* The decision, for two jobs with different inputs and the same sku, claims and
\* personas: the lock is there and of this verdict, it is no later (to the second) than
\* the first answer, and other people answered.
Measured ==
  comparing.pc = "decide" /\ ~comparing.lk.late /\ Shared = {}

CompareDecide == Reading("decide") /\ comparing' = NotComparing

-----------------------------------------------------------------------------
Second ==
  /\ firstAfter = "now"
  /\ firstAfter' = "earlier"
  /\ UNCHANGED <<brief, briefs, answers, extras, form, compareVars, cut, forms, pageRestarts>>

RestartPages ==
  /\ pageRestarts < MaxPageRestarts
  /\ pageRestarts' = pageRestarts + 1
  /\ cut' = IF form.pc = "idle" THEN cut ELSE cut \cup {<<form.job, form.who>>}
  /\ form' = NoForm /\ locking' = NotLocking /\ comparing' = NotComparing
  /\ UNCHANGED <<brief, rowVars, locked, forms>>

PagesNext ==
  \/ \E j \in Jobs, s \in Sources, r \in Respondents : Submit(j, s, r)
  \/ AddBrief \/ AddAnswer \/ \E e \in Extras : ExtrasChange(e)
  \/ LockRead \/ LockEvent
  \/ CompareVerdicts \/ CompareLock \/ CompareHash \/ CompareDecide
  \/ Second \/ RestartPages

PagesSpec == PagesInit /\ [][PagesNext]_pageVars

-----------------------------------------------------------------------------
(* Properties.                                                             *)

\* Every variable has its type.
PagesTypeOK ==
  /\ brief \in BOOLEAN /\ extras \in Extras
  /\ firstAfter \in {"never", "now", "earlier"}
  /\ briefs \subseteq Jobs \X Respondents /\ cut \subseteq Jobs \X Respondents
  /\ answers \subseteq Jobs \X Sources \X Respondents \X Claims
  /\ form \in [pc : {"idle", "brief", "answers"}, job : Jobs, src : Sources \cup {""},
               who : Respondents \cup {""},
               claim : Claims, new : BOOLEAN]
  /\ \A l \in {locked, comparing.lk} : l \in [is : BOOLEAN, v : Verdicts, late : BOOLEAN]
  /\ locking \in [pc : {"idle", "event"}, v : Verdicts]
  /\ comparing.pc \in {"idle", "lock", "hash", "decide"} /\ comparing.v \in Verdicts
  /\ forms \in 0 .. MaxForms /\ pageRestarts \in 0 .. MaxPageRestarts

\* A form that was taken in full: it is not in hand and no restart cut it.
Finished(j, r) ==
  /\ IF brief THEN <<j, r>> \in briefs ELSE ClaimsOf(j, r) # {}
  /\ <<j, r>> \notin cut /\ ~(form.pc # "idle" /\ form.who = r)

\* A measured comparison is one.  Nobody's forms judged both versions (api.rate_submit
\* turns them away, before_after.compare looks again).  And the before verdict it reports
\* has the answers of the locked one, although verdict, lock and hash are read one after
\* the other: answers are never taken back, so only a lock written between the first two
\* can split them.  It is the locked verdict in all else too unless something changed and
\* changed back between verdict and hash, which no hash can tell.
ComparisonIsMeasured ==
  Measured =>
    /\ \A r \in Respondents : ~(Finished("before", r) /\ Finished("after", r))
    /\ ~comparing.crossed => /\ comparing.v.n = comparing.lk.v.n
                             /\ comparing.moved \/ comparing.v = comparing.lk.v

\* A respondent counts, once.  Who is told "Already counted" has an answer to every
\* claim on record, unless a restart cut the brief from its answers (rate_v2.submit);
\* and a brief's answers came with one form, whatever link it was sent from and whatever
\* a restart cut (store.add_human_brief).  The v1 page has no such guard: a row there is
\* new for every src.
CountedOnce ==
  /\ BriefTaken \/ NoneAccepted
       => ClaimsOf(form.job, form.who) = Claims \/ <<form.job, form.who>> \in cut
  /\ brief => \A j \in Jobs, r \in Respondents :
                Cardinality({s \in Sources : ClaimsFrom(j, s, r) # {}}) <= 1
=============================================================================
