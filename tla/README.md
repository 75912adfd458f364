# Verification of Reality Check

TLA+ models of Reality Check (the Python program under `src/reality_check/`), the TLC configurations
that check them on small instances, and TLAPS proofs of their main safety properties for every
instance. File names below are relative to `src/reality_check/` unless they end in `.tla` or `.cfg`.

Reality Check sells judgments. A buyer orders by HTTP or by text message, pays through a Stripe Payment
Link, and gets each of their claims judged by language-model evaluators, by people when a
value-of-information gate says that people are worth their price, and by probes of their web site. It
is one FastAPI process with one SQLite file, but not a sequential program:

| thread | runs | entered at |
|---|---|---|
| event loop | async handlers, one to its end or its `await` at a time: `/stripe/webhook`, `/linq/webhook`, `/order`, `POST /rate` | `api.py`, `stripe_webhook.py:128` |
| thread pool | sync handlers (`GET /judge`, `/order/{id}`, `/report`, `/`, `/jobs`: each calls `judge.verdict`), `POST /admin/*`, `/redeploy`, lock and compare, and `judge.start` of `POST /judge` | `api.py:72,116,251,277,325,356,388,420` |
| Stripe poller | `poll_once` and text nudges, forever | `stripe_poll.py:45` |
| per-job daemons | probes, hackathon rubric, sweep | `judge.py:135` |

They share the database, whose single calls are atomic (`store._lock` and SQLite), and nothing else
orders them. Most code reads a job's whole JSON state, works for seconds or minutes (HTTP, models), and
puts the whole state back. The host restarts the process at will; threads are lost, tables are not.

## Inventory

| component | state it keeps | operations | what makes it correct | modelled in |
|---|---|---|---|---|
| Payments: `stripe_webhook.py`, `stripe_poll.py` | `payment_claims`; `jobs.status` up to `evaluating`; `revenue` rows | `create_order`, webhook, `poll_once`, `complete_session`, claim and release | a session is worked on by one thread; money is booked once; no order starts unpaid; a paid session is fulfilled through failures | `SaleLedger`, `Payments` |
| Job lifecycle: `judge.py` | `jobs.status`, the JSON state, `human_answers` | `on_human_answer`, `_settle_against_humans`, `settle_on_timeout`, `verdict`, `_notify`, `launch_humans`; `patch_job_state` by the daemons | a job settles, for a stated reason, on answers people gave; later answers count until the target; background results survive (they do not); one text per buyer (two threads send two) | `JobLifecycle` |
| Judging: `judge.start`, `_apply_standard`, `reset_sources` | the first state of a job | evaluate, decide, buy, fall back | humans who were sold are served, in time and of the kind sold; the claim that is weighed speaks for all | `Judging`; threads under one envelope in `SpendEnvelope`, writes of the row in `Payments`; `reset_sources` in `SourceCache` (sources, probes), `TextIntake` (the request) and `TextReport` (the regrade) |
| Spend envelope: `policy/envelope.py`; panels: `panels.py`, `terac_client.py`, `LinqPanel` | the signed file; `cost.*` rows | `check` on list price and on quote, recruit, launch, book, sign, bootstrap | no launch outside the signed terms; a freeze freezes; the daily cap | `SpendEnvelope` |
| Store: `store.py` | the SQLite tables | single calls | each is one atomic step | steps of the modules above |
| Text intake and delivery: `textflow.py` | `text_threads`, `text_*` keys of the state | `handle_text`, attach, pay link, RERUN, nudges, report delivery, merge of open orders | one open order per thread, no lost link, one nudge, one final report with humans in it, no buyer who waits for ever | `TextIntake`, `TextReport`; `merge_open_jobs` against payments in `Payments` |
| Messaging and raters: `linq_client.py` | `raters` | enrol, opt out, pick, send | nobody who opted out is put on a list | `RaterList` |
| Rating pages: `rate_v2.py`, `/rate` in `api.py` | `human_briefs`, `human_answers`, the `sources` key | submit once per rater, fill in the stimulus | one answer per person, all of it stored; raters see the page that was asked about | `RatingPages`, `SourceCache`; what an answer does to the job in `JobLifecycle` |
| Gate: `core/voi.py` | - | `decide` | best net value within budget, deadline; refuses below the floor | `Judging` |
| Consensus: `core/consensus.py`, `core/brier.py` | - | `evaluate`, scores | majorities, skips and ties | `Judging`; the scores not |
| Learning: `policy/learning.py` | - (reads settled jobs) | `arm_stats`, `swarm_check` | measured gains only from enough settled jobs, credited to who recruited (they are not always: `policy/learning.py:95`) | not modelled |
| Admission: `policy/protocol.py` | nonce events | `replay_guard`, `admit` | a request is admitted once, and does not pay by saying so | `Admission` |
| Evaluators: `evaluators.py` | - | batch, map back, fall back, repair | answers attached to the right claims, none lost | `EvaluatorBatch` |
| Probes and sources: `probes.py`, `sources.py`, `agentready.py` | the `probes` and `sources` keys | `run`, `normalize` | no response is not evidence; evidence is about the page that was asked about | `ProbeRun`, `EvidenceReport`, `SourceCache` |
| Rubric: `hackathon.py`, `lenses.py`, `sponsors.py` | the `hackathon` key | `evaluate` | the two upper stamps follow what was judged, not an outage | `HackathonStamp`; its thread and the patch of the row in `TextReport` |
| Replay QA: `replay_client.py` | the handle in the state | `launch`, `refresh`, `record_version` | a change of the counts that is shown for a version was counted on it | `ReplayQA`; the poll beside the answers in `JobLifecycle` |
| Report: `report.py` | - | `build` | a claim passes only if nobody with evidence objects | `EvidenceReport` |
| Before/after: `before_after.py` | lock events | `lock`, `compare` | the answers of the locked verdict are those compared; fresh eyes | `RatingPages` |
| Intake, redeploy, sweep: `intake.py`, `sweep.py` | the handle in the state | `submit`, `redeploy` | no version and no settled job is lost (a stale put loses them) | `ReplayQA`; `sweep` not |
| Requests and SKUs: `core/models.py`, `skus.py` | - | validation, defaults | the standard that was sold is the one applied | the standard, in `Judging` |
| Bandit: `core/bandit.py` | - | - | nothing imports it | not modelled |
| Scripts, demo buyer | - | one-shot command lines | - | not modelled |

How they meet: `complete_session` calls `judge.start` (the webhook on the event loop, the poller in its
own thread); `judge.start` calls the gate, the envelope and a panel, and starts the daemons; an answer
on a rating page calls `on_human_answer`; every read calls `verdict`, which may settle the job and text
the buyer; settling calls `_notify`, which for a text thread calls `textflow`. None of these hold a lock
across two database calls. The hard behaviour is therefore: two deliveries of one payment; a delivery
that fails half-way and is retried; a restart in the middle; whole-state puts from stale reads; a
timeout against a late answer; the interval between a check of the ledger and the row that it should
have seen. `PROJECT.json` lists each such place, at its line, with the properties that watch it.

## Modules

| module | what it is |
|---|---|
| `SaleLedger` | abstract: sessions are received and booked, an order is sold once |
| `Payments` | the two delivering threads, call by call, and the operator's merge |
| `MCPayments` | which session pays for what, for TLC |
| `PaymentsProofs` | type correctness, four invariants, and the refinement of `SaleLedger` |
| `JobLifecycle` | one job's row, the event loop, readers, operators, patchers |
| `JobLifecycleProofs` | type correctness, two invariants, and one more for the event loop by itself |
| `TextReport` | the texts that a text order leads to, and the flags that gate them |
| `TextReportProofs` | type correctness, two invariants and an action property |
| `TextIntake` | a phone's thread from its first text to a started job |
| `MCTextIntake` | two orders, four kinds of text and one reset, for TLC |
| `TextIntakeProofs` | type correctness and three invariants |
| `SpendEnvelope` | purchases in several threads under one envelope |
| `MCSpendEnvelope` | arms, prices and purchases, for TLC |
| `SpendEnvelopeProofs` | type correctness and four invariants |
| `EvaluatorBatch` | a panel of model evaluators over a rubric, call by call |
| `Judging` | composes it with consensus, the gate, the standard and the launch of a panel |
| `MCJudging` | a small rubric, the arms of `core/voi.py`, requests, for TLC |
| `JudgingProofs` | type correctness and five invariants |
| `RaterList` | the opt-in list against panels being texted |
| `SourceCache` | the stored page and probes of a job against resets |
| `ReplayQA` | the Replay handle in a job's row |
| `Admission` | how a request gets in |
| `ProbeRun` | one visit of the probes to a page |
| `EvidenceReport` | extends it: what probes, models and people make of a claim and of the business stamp |
| `HackathonStamp` | the event rubric and its two stamps |
| `RatingPages` | forms, briefs, and the comparison of two versions |
| `MCParts` | the instance of the seven components above for TLC, one of which moves |
| `EvidenceProofs` | what verdicts rest on: `SourceCache`, `ReplayQA`, `ProbeRun` with `EvidenceReport`, `HackathonStamp`; for each type correctness and one or two invariants |
| `PeopleProofs` | whom the service hears: `RaterList`, `Admission`, `RatingPages`, likewise; and the parts side by side |

`PROJECT.json` maps every definition to the lines it stands for. Definitions marked `(mutant)` in the
modules are planted faults: each is the definition below it with a plausible bug, and no `Next` uses
it. For each property of each passing run one of them is substituted for the real definition, and the
property must then fail; that is how we know the property looks at the code it is about.

### Payments

A worker (`webhook`, `poller`) is inside `complete_session`: `pc` names its next database call,
`cur` the session it holds. One action is one call, so the other worker, a buyer, Stripe, the
operator and a restart run between any two. `ReadJob` is the branch on the job row (an order, a
placeholder, a row that has started, none); `BeginJob` to `WrapUp` are the writes of `judge.start`;
`PutWalkup` and `BookWalkup` the placeholder of an unknown reference. Exceptions come at any call listed in `FailPoints`. `Raise` is one
inside the `try`, followed by `ReleaseClaim`. `RaiseOutside` is one that no handler sees: `store.get_job`, which stands between the
claim and the `try` (`stripe_webhook.py:62-65`), the release in the handler, or the last event (`RecordPaid`); the first two leave the claim behind, and with it
an order that every later delivery calls a duplicate. In the poller an exception also ends the page. `Restart`
keeps the tables and drops threads. The page of the poller is computed as the code does it: newest
`PageSize` sessions first, then the paid ones among them. Merging lists the open orders, then cancels
one after the other without looking again. `interrupted` (the sessions whose claim a restart or such an exception left behind) and
`starts` are history; `blank` stands for the stored request of a placeholder.

Left out: signatures, pay-link texts, the arithmetic of cents, and that an order comes with a text
thread. `"judged"` stands for `settled` and `awaiting_humans`, which `JobLifecycle` tells apart.

### JobLifecycle

It begins with the row that `judge.start` leaves: awaiting humans of a local or a paid panel, or settled
on the models' consensus. A thread carries `snap`, the row as it read it, up to the put that ends
its use, because that is what the code does; `inner` is the row read by the `verdict()` inside
`_notify` or a read. `Submit`, `OnHumanAnswer` and `Settle` are the event loop's handling of an answer;
`CheckTimeout`, `CountAnswers`, `Expire` are `settle_on_timeout`; `View` and `StoreRefresh` the rest
of `verdict`, with the Replay poll and its write-back; `NotifyRead` to `Mark` are `_notify`, which
`settle_on_timeout` reaches twice. `LaunchRead` to `LaunchPut` are `launch_humans`. `Patch` is
`patch_job_state`, which does merge under a lock.

Abstractions: one claim (claim 0, on which `settled_n_humans` is counted) stands for all, its scores
for `brier_vs_humans` and `humans_flipped_verdict`; deadlines are a set of overdue launches; a buyer
is a web buyer with or without a phone (`_notify` of a text thread is in `TextReport`);
`launch_humans` is not run while a job is still evaluating; the `verdict()` inside `_notify` does not
settle the job that was just settled.

### TextReport

It begins when `judge.start` has stored a text order with a panel and started the rubric thread. The row
holds what delivery looks at: the rubric, the three `text_*_sent` flags, the stage, and whether the
order is a text thread, that is, was paid by text; a free one is not. `Merged` is the rule
of `put_job` for the `text_*` keys. The event loop takes an answer (`Submit`), may settle, runs `verdict`
and then `on_humans_ready`; a reader runs `verdict`; the rubric's thread lands its result (`Land`) and
runs `on_report_ready`. `back` holds where a nested call returns to: `settle_on_timeout` reaches `_notify`
twice when humans answered. Reading the row and testing a flag is one action, the text (`Say`) the next, the mark
(`Mark`) a third, `text_stage` (`Deliver`) a fourth, since each is a call of its own and `report.build` and an HTTP
request lie between the first two. `on_humans_ready` reads the row and then the answers; it is one
step because every caller has already seen an answer. `Regrade` is an operator's `reset_sources`.

Abstractions: counts and majorities are in `JobLifecycle`, so a later answer settles again or
not, freely; an operator's `launch_humans` and the Replay polls of team orders are there as well; Linq accepts
every text; the request and its phone number do not change.

### SpendEnvelope

A thread makes one purchase at a time: `judge.start` after a decision to buy (`kind = "start"`), or
`launch_humans` (`"operator"`, where `paid` is the sum authorised). It passes `check` on the list price
(`SpentToday`, then `Gate`), the backend of its arm (`Invite` for Linq, `Post` for Terac), `check` again
on Terac's quote (`SpentToday`, then `Approve`), `Launch`, and the cost row (`Book`). `check` is two
steps because the code reads the ledger first and the envelope file after it. A backend may be
dry, refuse or fail over HTTP at each of its calls (`GiveUp`). An exception of another kind out of a panel's launch, such as a reply that is no
JSON, goes through `judge.start`: the purchase ends where it is (`Raise`), with no fallback, no cost row and the job left `evaluating`. The operator deletes the envelope or its date passes
(`Withdraw`), signs it (`Sign`); `Midnight` begins a day's sum; `Restart` drops every thread and runs
`bootstrap`, which signs the example if there is no file.

Abstractions: the envelope is `"live"`, `"expired"` or `"absent"` (a bad signature or an
unreadable file is refused just as an expired one is); amounts are integers in one unit, the margin a
percentage; what decides to buy (`voi.decide`, `_apply_standard`) is an input; caps do not change when
an envelope is signed again.

### EvaluatorBatch and Judging

One `judge.start`, from the rubric to the panel, over what `evaluate_many` returns. In `EvaluatorBatch` a seat shuffles
the batch (`Shuffle`), and its places are asked in windows of `MAX_CLAIMS_PER_CALL`: `asked` says which
places of the window the current prompt lists, which is all of it at first and the rest in a repair. A call raises,
and the next provider of the seat is tried (`Raise`); it answers (`Reply`, which closes the window); or it answers in
part (`ShortReply`), and one more call is made about the rest, from the first provider on. An answer is a
side and, as history, the claim whose text was in the prompt; `Cast` makes the seat's votes of what was got. `Judging`
turns each batch's votes into rows (`Row`), weighs the first row of greatest dissent and applies the standard (`Route`),
asks the envelope (`Gate`) and launches (`Launch`). `Route` also chooses the request and the learned gains, since nothing
looks at them earlier.

Abstractions: an answer is its side, which determines its `p` (`_P_BY_VERDICT`), so a vote's text, quote and domain
are left out, and a quote that is not on the page is a skip; the calls of a panel run one after the other, as they share
nothing but the result; probabilities are integers in 1/`Unit`, where `Unit` is divisible by 2 and by any number of seats, so
that no division rounds; the rows of objective claims are those without a batch. Envelope and recruiting are
free choices here, as `SpendEnvelope` has them. Stub mode, costs and `stability_check` are left out.

### TextIntake

One phone, three actors. On the event loop a turn of `handle_text` is `Receive` (the open order is read, the links
are fetched; any of them may not open), then the writes: `Open` for a first text or a RERUN, `Attach` for a later one,
`PutRow` for the row of `text_threads`, `SendPayment` for the pay link and the stage. The poller completes a paid
session (`ReadPaid`, `Start`) and then scans the idle threads (`Scan`, `Nudge`, `MarkNudged`). The operator's merge lists, cancels, rewrites
the request and the thread's row. The operator's `reset_sources` reads a request, fetches, and writes it back with one link replaced (`ResetRead`, `ResetUpdate`);
it writes no row of the thread, so that a RERUN of that order starts from the links before the reset. In `free` mode (`RC_TEXT_FREE`) an order starts at once,
and what `judge.start` stores is what it has read (`Resolved`): the pitch may have become the bundle of the sources, and an empty `PageSlot` the live link of a README. `told` is what the buyer was last
told is attached, `bought` that at the moment of paying; `torn` says that a merge or a reset ran across a turn or a restart
cut one, `reset` which orders the operator has reset. A request is the link in each slot and what its pitch holds: a `note`, the `bundle` of the
sources, or the `apology` the code puts in when nothing opened. A reset drops a bundle, and the pitch in it.

### The parts

Seven components share no state with one another, so that one run (`Parts`) checks them side by side: the variable `part` of `MCParts` picks
one at the start, and only it moves. `PartsTypeOK` is the conjunction of their type invariants.

* `RaterList`: `/linq/webhook` on the event loop (`Say`, and `Redeliver`, since nothing remembers a message), launches in
  threads of their own which pick raters and then text one after the other.
* `SourceCache`: the operator's `reset_sources` (read, fetch, put the sources, put the request and launch the probes), the rating
  page's two fill-ins (each puts back the copy it read before the fetch), and probe threads, of which an old one is
  not stopped. Threads of `judge` (`Holders`) put back the whole row they have read (`RowRead`, `RowPut`: `judge.py:407`, `452`, `497`, `562`), sources and probes with it; the request
  they cannot take back, since `put_job`'s upsert leaves that column alone. The history variables number the resets: who writes and had not seen the last one is late.
* `Admission`: `admit` is one step of the event loop, the job starts in the thread pool, and a caller who got no answer
  repeats.
* `ProbeRun` and `EvidenceReport`: a visit fetch by fetch under a budget, each fetch answered with or without a flaw, or not; then
  `verdict`'s override, the status of each claim and the stamp, with people answering before and after.
* `HackathonStamp`: section by section, one call per persona, each of which answers, skips (even odds) or raises. The lower stamps are in the model as the code gives them, an outage included.
* `RatingPages`: the v1 form and the v2 brief for a job and its revised version, with rows written one by one, the lock, and the
  reads of a comparison. Of the timestamps, which count seconds, the model keeps what `compare` asks of them:
  whether a lock was written in a second after that of the first answer to the revised version. A verdict is the number of its answers, which only grows,
  and `extras`, which stands for all else that `_vhash` hashes (the probes' override, flipped claims, the time-out, Replay's counts, the costs) and may change and change back at any time.
* `ReplayQA`: whole-row puts by the intake, by verdicts that poll and by redeploys, each of a row read before its HTTP calls,
  so that a put may undo whatever came between.

## Runs

| run | question | answer |
|---|---|---|
| `PayShop` | Do the claim, the ledger and the order row stay right when two rival sessions, an unknown reference and a session without one meet a webhook, the poller, two exceptions anywhere, a restart and a merge? | yes: `ClaimExclusive`, and `NoStrandedClaim` but for three named events (a restart, `get_job` raising between claim and `try`, the release raising); and `Payments` implements `SaleLedger`, so that money is booked once and only when paid |
| `PayLive` | Does the poller alone fulfil every paid session, of an order, a free order and a walk-up, when deliveries fail twice inside the `try`, before the first write? | yes: `PaidIsFulfilled` |
| `PayRaise` | Is a paid order judged in the end when `judge.start` raises after its first put? | no: the retry is a noop |
| `JobLoop` | On the event loop alone, is the verdict the majority up to the target and frozen after it? | yes: `TracksMajority` |
| `JobThreads` | With a reader, an operator and Replay polls racing the loop on stale snapshots, does a row still only say what is true, and does every wait for humans end? | yes: `SettleJustified`, `CountIsReal`; `AwaitingSettles`, if somebody keeps reading the job |
| `JobPatch` | Does a background result stay in the row? | no: the settle of an answer puts back the row as it was read (`judge.py:452`) |
| `TextReport` | Is a buyer's report sent with humans in it, in the end, and do the flags tell the truth, whichever of rubric, answers, timeout and regrade comes first? | yes: `FinalHasHumans`, `FlagsAreTrue`, `SentIsMarked`; `ReportArrives`, unless a stale put or a restart takes the rubric |
| `TextTwice` | Is the report sent once? | no: two threads look before either marks |
| `SpendRace` | Do the envelope's terms, a freeze and the sold humans hold for every launch, and how far can the daily cap be overrun? | yes; by one job's cap per further thread |
| `Judging` | Is every vote an answer on its own claim, is none lost, does a split vote cost money and a unanimous one none, and is the right panel bought for the standard, budget and deadline? | yes: `AnswersStayHome`, `AnswersAreKept`, `WorstDecides`, `UnanimityIsFree`, `StandardHolds` |
| `TextIntake` | Does a paid order hold what the buyer was told, does a RERUN start from the latest, and is a quiet order nudged, once? | yes: `BoughtIsJudged`, `RerunSeesLatest`, `NudgedOnce`, and `QuietIsNudged` unless every poll raises; a reset order and a merge or a reset across a turn are the exceptions |
| `Parts` | Raters: is an opt-out heeded? | yes, `StopIsHeeded`; a panel picked before, or an old RATE delivered again, still reaches the phone |
| | Sources: do raters see, and probes visit, the page of the request? | yes, `ShownIsAsked`, `ProbedIsAsked`, unless a writer that missed the reset, or put back an older row, is the last |
| | Admission: is a nonce good once, across a restart? | yes: `NonceOnce` |
| | Report: is no answer no evidence, is a pass uncontested, a chargeable product without a seen flaw? | yes: `ProbedIsSeen`, `PassIsUncontested` |
| | Rubric: does an outage never earn one of the two upper stamps? | yes: `StampIsJudged`; the lower ones it may earn |
| | Forms: is a comparison measured on fresh eyes and on the locked verdict's answers, is who is told "counted" counted, once? | yes: `ComparisonIsMeasured`, `CountedOnce` (once: v2 only) |
| | Replay: is a change of the counts, shown for a version, that version's? | yes: `DeltaIsMeasured`; after a poll that failed the old count is shown, as no change |

The `no` answers are counterexamples to what a comment or a document of the repository
says; `PROJECT.json`, under `findings`, quotes each. Other statements that the models refute, but that
have no run of their own, stand under `hazards`: a session paid for an order that has already
started is never booked (`stripe_webhook.py:88`); a restart between a claim and its work loses the order
(`stripe_webhook.py:60`), and so does a `get_job` that raises there; a merge cancels an order that was paid since the listing
(`textflow.py:697`); without a reader an overdue job waits on (`judge.py:505`); two operators both
recruit (`judge.py:332`); a frozen count goes back when a reader puts last (`judge.py:491`);
two threads that settle at once text the buyer twice, which `judge.py:387` excludes (`judge.py:390`); two sessions that name one order both
start it (`stripe_webhook.py:67`), though its money is booked once; a placeholder paid twice ends every poll
before the sessions behind it (`stripe_poll.py:38`); a Replay write-back makes a settled job wait
again (`judge.py:562`); a panel whose reply is no JSON leaves a paid job evaluating (`judge.py:297`); a poll that raises never gets to the nudges (`stripe_poll.py:47`);
a RERUN of an order whose sources were reset takes the old ones (`judge.py:378`); an `ensemble` pick puts a job before people whom nobody recruited; the daily cap is
overrun by concurrent purchases, within the bound of `OverspendBounded` (`policy/envelope.py:113`); on the v1 page one person counts
once for every `src` (`store.py:22`); a redeploy puts a settled job back to waiting when an answer settles it during the call
to Replay (`intake.py:53`). One more was found by reading: people who rate a job that settled without a panel are credited to the arm the gate
had picked (`policy/learning.py:95`).

### Bounds, and why they suffice

* `PayShop`: four sessions on two orders and two walk-up ids cover every branch of
  `complete_session`, with a rival for one order. Two workers are all the code has. Two exceptions, so that the
  handler of the first can raise itself, and one restart can hit any call, before or after each other; with a second restart the claims, bookings
  and statuses it can leave are those one already leaves. The page holds every session: a smaller page
  only removes steps of the poller.
* `PayLive`: one session per job, exceptions only where the retry can still act (`begin`, `walkup`: in the `try`, before the first write) and
  no restart. The other cases are those `PayRaise`, `RaiseOutside` and the hazards describe: the code does not fulfil
  them.
* `JobLoop`: seven answers, a minimum of 3 and a target of 5 (the code's values), so majorities, ties
  after majorities, the target and answers past it all occur. `JobThreads` lowers them to 1 and 2 with three answers and no phone, since
  the races need a count that settles nothing, one that settles and one that settles again; one reader, one
  operator, two launches and one Replay poll beside the loop. The proofs have any number of readers
  and operators and any thresholds.
* `TextReport`: three answers against a minimum of 2 give one that settles nothing, one that settles and one
  that settles again or comes after the timeout did. One reader races the loop and the rubric; one regrade lets the
  rubric land a second time, after the report. One restart is enough, since it is what `SentIsMarked` and
  `ReportArrives` exclude and the other properties do not mind. The proofs have any number of each.
* `SpendRace`: two threads and three purchases: a third purchase starts on what two left. The cap 10, the
  job cap 6 and quotes 4, 6 and 7 make a quote that is allowed, one that just is, and one that is
  not, and let two launches exceed the day. The bound of 16 is reached (4 booked, then two threads
  that both read 4 and both spend 6), so it is not generous. Threads are interchangeable, hence the
  symmetry. Deadlock is not checked because purchases are bounded; the same holds of answers in
  `JobLoop` and in `TextReport`, where everything may have been said.

* `TextIntake`: three texts give an order, what is attached to it and a keyword, or two orders by a RERUN; with one merge, one reset or one
  restart anywhere, in both modes (1.3 million states). Two orders suffice for a first and a rerun; two slots distinguish a replaced link from a kept one.
* `Parts`: each component gets the smallest instance in which its actors meet: two phones and two launches of one rater; one reset, two
  rating pages, one put of a whole row, and a restart; three calls on two nonces across a restart; checks of each kind (of a page, of links, with
  a fetch of their own, of the scan) on two pages with budget two, and claims with one check, two, an unlisted one and models beside it; a heavy and a light item,
  one required sponsor with two claims, two failure modes and two personas, so that means, majorities and all-but-one differ; two respondents from two sources
  on two claims with two forms, two contents of a verdict and a restart; two polls and a redeploy on one flow. More resets, phones, redeploys and flows are in the proofs.
  Respondents and sources are interchangeable, hence the symmetry; every part ends, hence no deadlock check. 1.4 million states, 840 thousand of them the rating pages'.
* `Judging`: a batch of three claims before one persona in windows of two gives a full and a short window,
  repairs and failures; a claim before three personas gives majorities, ties and silent seats, one of them with a provider of its own;
  the fifth claim is objective. Prices, latencies and prior gains are those of `core/voi.py`. Stakes of 20 and 200
  dollars, budgets of 8 and 30 and deadlines of none, 0 and 30 minutes make each arm the best, too dear and too
  late; measured gains of 0 and 90 percent on any subset of the arms reverse every order between them. A job
  that is settled or has its panel takes no further step here, hence no deadlock check.

### Fairness

`FairSpec` of `Payments`: weak fairness of the poller thread (`stripe_poll._loop` catches every exception
and all its calls have timeouts) and of a webhook handler that has begun. Buyers, Stripe's
deliveries, exceptions and the operator are under no obligation. `ReadSpec` of `JobLifecycle`: a
request that has begun runs on, the clock moves, and somebody reads the job again and again. The last
is an assumption about people, not about the code: an open dashboard reloads every five seconds and
renders the verdict of every job it lists, but nothing in the program itself calls `verdict`, and without
it an overdue job does wait. `FairSpec` of `TextReport`: a thread that is in a call goes on, because Linq and
model calls have timeouts and `hackathon.evaluate` fails closed; answers, reads, regrades, the clock and restarts owe
nothing. `Spec` of `TextIntake`: the poller's thread goes on with a session or a scan it has begun (its calls have
timeouts). It need not begin: `poll_once` and the nudges share one `try` (`stripe_poll.py:47-53`), so that a poll that raises each time never gets to its scan. `Scan` and
`ReadPaid` are therefore outside the fairness, and `QuietIsNudged` assumes `PollsGetThrough`: again and again a scan is reached, or nothing is due. That is an assumption
about Stripe and the sessions on its page. No strong fairness is used.

## Proofs

Every state invariant and every action property that a passing run checks is a theorem, and so is the refinement of
`SaleLedger`. So are the type invariants (`TypeOK`) of all modules with behaviour but the abstract one, and
`RevenueOnce` and `StartNeedsPayment` of `Payments`; of these the runs repeat `PartsTypeOK` and the `TypeOK` of `TextIntake` only.
One of the theorems, `VerdictTracksMajority`, assumes what its run has: no pool thread and no operator at
work on the job.

All proofs are for arbitrary values of the constants that satisfy the modules' `ASSUME`s: those say how
the sets are typed, that a session without a reference lands on an id of its own (`stripe_webhook.py`
makes it from the session id), that thresholds are ordered, that free arms are local (`panels.for_arm`), that a check in a
namespace of the probes is one they make (`NamespaceAssumption`: the `audit/` and `live/` ids of `lenses.py` are those of
`probes.py`, and the categories under `agentready/` are those the scan can name), that a request's claims, an item's claims and the calls made are finitely many.

*Payments.* `ClaimsAreExclusive`, `RevenueIsBookedOnce`, `OrdersStartOnlyPaid`, `ClaimsAreNotStranded`,
`PaymentsTyped`, `PaymentsImplementLedger`. None is inductive alone. `Branches` says which kind of job a
worker at each call is on and what the row can say by then; `Rows` that the row of a walk-up stays a
placeholder, which `judge.start` never gets to, so that its money is booked by `BookWalkup` only;
`WalkupUnbooked` that a walk-up that may still be processed (not claimed, or in hand) has no revenue row,
which is why releasing a claim is safe although `BookWalkup` does not look (only the last event is left after it, and an exception there keeps the claim); `PaidInHand` that whatever
is listed, in hand or booked was paid. With these the booking step of `Payments` is `SaleLedger`'s
`Book`, whose guard is what the invariant gives, and every other step is `Receive` or a stutter.

*JobLifecycle.* `JobsTyped`, `JobsSettleForAReason`, `CountsAreReal`. A put writes a snapshot of an earlier
row, so a property of the row alone is not inductive: the invariant says that every snapshot
still to be written, `snap` or `inner`, is `Sound` as well, that the answers a thread has counted do not
exceed those that exist, and that a thread between `count` and `expire` holds a row whose launch is
overdue. Answers and overdue launches only grow, so a sound snapshot stays sound (`SoundStays`).
`VerdictTracksMajority` needs more than soundness: that the loop's own snapshots are the row as it
is, but for keys that background threads add. `CopiesOK` says so at each program counter, which holds only while nobody else puts: the theorem
assumes `Alone`, no readers and no operators, as on an instance nobody looks at. `TrackOK` says what a settled row owes the answers: it is
their majority, except between an answer's arrival and its handling, and has at least the target's humans once more than that have
answered. With one reader the property fails: that
is a finding of the model, listed under the hazards, not a gap of the proof.

*TextReport.* `ReportsTyped`, `FlagsSpeakTruth`, `TextsStayMarked`, `NoReportWithoutHumans`. A state is
`Honest` if it claims no text that was not sent and no rubric that never landed. The row alone is not inductive for
the same reason as above: a thread that will put or weigh what it holds must hold an honest state (`HeldOK`), and
a thread at `send`, `mark` or `stage` carries the reason for being there. `MergedState` shows that `put_job`
makes an honest state of two honest states and, in a text thread, loses no flag; that gives `SentIsMarked`
against any number of stale puts. What was sent, landed and answered only grows, so honesty lasts
(`HonestStays`). The steps fall into those that only move a thread, take the row, put it, patch it, or send, and
each kind has its lemma.

*SpendEnvelope.* `SpendTyped`, `LaunchesAreWithinTerms`, `FreezeStopsPurchases`, `SoldHumansAreServed`,
`OverspendIsBounded`. The first four rest on `ThreadOK`: a thread past `Gate` on Terac's path has an
arm that is not free, so `approve` never lets it through without an envelope; past
`Approve` its quote is within the terms; past `Launch` it has a panel; an exception that is not HTTP's ends the purchase before it is closed, and `HumansSold` speaks of closed ones. The bound needs an account
(`Room`): call a thread *owing* when its check has passed, or will pass on the sum it has read; then
what is booked, one owing quote in full and the per-job cap for each of the others fit the limit. Reading
a sum that leaves room makes the reader the one in full; booking or giving up passes that place on. An
invariant with every owing quote counted against the cap at once is false: each reader may
fill the day exactly.

*EvaluatorBatch and Judging.* `JudgingTyped`, `VotesStayHome`, `AnswersStayKept`, `WorstSpeaksForAll`,
`AgreementCostsNothing`, `StandardIsKept`. `BatchOK` says that an answer is at home wherever it is: in `got`, under its place of the window, in
`out` and in `votes`; a reply is filed at home because number `k` of a prompt is place `asked[k]`
(`FiledFacts`). That none is lost (`KeptOK`) needs the history to be exact: a seat has been heard at most once per claim,
because a repair asks only for what is missing; an answer heard is in the vote, or still in hand in the call of
its seat. For the gate, `RowOK` ties a row's `p` to its dissent: a claim with a side has some agreement, a judged one without a side
has full dissent. Then less dissent never means a greater chance of being wrong, so the best arm of a less
disputed row is worth no more than the best of the most disputed one (`LessDissentBuysLess`); the first
greatest row exists by well-foundedness (`WorstFacts`). An objective row escapes this (no dissent, but `p`
of a half), which is why the property speaks of judged claims only. Agreement is the other end of the same
arithmetic: one voice, however many are silent, gives a dissent of 0 and a `p` of 0 or 1 exactly (`OneVoice`, `ExactDiv`), so that the first claim
stands for all and its odds are below the gate's floor (`AgreedOK`). The property asks that the first claim be judged, since of equals
the first is weighed and an objective one has a `p` of a half. The gate after it can only take back what was decided (`DecidedOK`). `BuyOK` carries what was
bought, for which standard and in time for whom, through `Gate` and `Launch`.

*TextIntake.* `IntakeTyped`, `PaidOrdersHoldWhatWasTold`, `RerunsStartFromTheLatest`, `NudgesAreSentOnce`. None of the rows is
right between two writes of a turn or a merge, so the invariant says of each program counter how far the copy in hand is
ahead of them (`TurnOK`): before the request is put the copy has at least what the request has (`Below`: each slot filled there is
filled, each note kept), after it they agree (`Agree`: equal, or in the free room one is what was read of the other). What the buyer was told never gets ahead of the order
(`ToldOK`), and the newest row of the thread equals it except while its own turn or merge is about to write it (`LatestOK`). All this is
conditional on `~torn` and on the order not having been reset, and `Apart` says that a turn and a merge or a reset in hand together have torn the thread: without it nothing
stops a merge from putting back the request of before a turn. For nudges, `NudgesOK` counts the text that was sent but not yet marked,
which a restart may turn into a second one. `MinFacts` and `MaxFacts` give the least and the newest order.

*SourceCache.* `CacheTyped`, `RatersSeeThePage`, `ProbesAreOfThePage`. `PageOK` says whose page the sources show while nobody was late: that of the request, or of the
reset in hand. A rating page's copy may be old, so it is tied to its number (`RenderOK`): if it has seen the last reset its url and its page are the
request's. `ProbingOK` does the same for a probe thread, and `ProbedOK` says that when no thread of the current request is running, its
result has been stored. A thread about to put the whole row carries both columns (`RowCopyOK`): if its copy has seen the newest of the resets that a writer of the column had seen, and
was not late itself, it is right; otherwise its put is late. `EpochsOK` keeps the numbers in order. A restart ends the argument: it may come between the two writes of a reset.

*ReplayQA.* `ReplayTyped`, `DeltaIsOfTheVersion`. As in `JobLifecycle` a row alone is not inductive: every copy still to be put
must be good too (`AllGood`): its last version is one that Replay has been told of, and its count is the one from before that version or was taken after it. A poll
counts what Replay was told last, so it keeps that; `Versioned` takes the count at hand for the version's "before". `Launching` says that nobody works on a handle before it is there.
The property does not say that there is a new count: `objective_delta` and `summary_line` do not look at `polled_at`, and after a redeploy whose poll fails they show the old one, unchanged.

*ProbeRun and EvidenceReport.* `ReportTyped`, `ProbesSpeakOfWhatTheySaw`, `PassesAreUncontested`. The final result alone does not tell
whether a check was made, so `VisitOK` says at each phase what the phases before it have settled: when a phase ends, each
of its checks was seen or is unknown (`AuxSeen` up to the place the visit has got to). `FoundOK` says that there is a finding for
each flaw and none without one; `_cap_findings` leaves one of each. A claim that the probes decide has no unknown check, so
all were seen, but for the categories that the scan leaves out, which are seen by no one and count as passed. `Percentages` compares
the rounded share of the humans with the report's 60 and 40, and a flaw they did not speak against makes its claim fail, whose gap is then in
the stamp.
The votes of a claim are bounded by the sum of all (`CastFacts`).

*HackathonStamp.* `StampsTyped`, `StampsAreJudged`. An item no model has backed has even odds at best from each persona on each of
its claims (`SumsOK`), so the mean over its claims is at most 50 and no pass (`SumBound`, `Quotient`), so that a pass is
backed (`GradesOK`). Even odds are "partial", though, so that an outage can give `fixable_by_1830`, and an autonomy section that raised `human_in_the_loop`: the property
and the theorem are about the two stamps above these. A sponsor is strong by a majority of its claims at 60, which needs a model too; the invariant treats it apart because
the autonomy section may grade an item of the same name again.

*Sums.* `MapThenSumSet` of the library is a recursion over subsets. That it exists is `IterateExists`, and what it is bounded by, `SumBound` and
`CastFacts`, by looking at the smallest subset that would be wrong (`LeastOf`, from the well-foundedness of the numbers): an induction
that needs no predicate to be instantiated.

*RaterList.* `RatersTyped`, `OptOutIsHeeded`. A phone on a launch's list is opted in, was on the list when it said STOP, or had an old
RATE delivered again; together with "who said STOP last is not in, unless echoed" this is inductive, since `Pick` takes from the
opted-in only.

*Admission.* `CallsTyped`, `NoncesAreUsedOnce`. A nonce that let somebody in is burned, and nothing, a restart
included, takes it back.

*RatingPages.* `PagesTypedAlways`, `ComparisonsAreMeasured`, `RespondentsCountOnce`. The answers of a verdict only grow (`VHashGrows`): each of
the reads of a comparison has at least those of the one before (`CompareOK`), so equal ends mean equal answers, and nothing but a lock written between the first two reads can split them.
The rest of a verdict may change and change back, which no hash can tell: it is the locked one's if nothing of it changed between the reads (`moved`). `FormOK` says what a form in hand has written so far and
`BriefsOK` that a brief's claims came from one source, all of them unless `cut` has it: the rows of a brief are written by the
thread that added it.

*The parts.* `PartsTyped`: a step of one part is a stutter of the others (`EachPartMoves`), so each keeps the invariant it has alone.

Only model-checked: the liveness properties (`PaidIsFulfilled`, `AwaitingSettles`, `ReportArrives`, `QuietIsNudged`), which are
outside the prover's reach; and the violations (`PaidOrderIsJudged`, `PatchedKeysStay`, `OneFinal`), which are counterexamples and
nothing to prove. The inductive invariants were checked by TLC on the run's instance before they were proved.

## Not modelled

* `core/bandit.py`: nothing imports it. `core/brier.py` and `policy/learning.py`: arithmetic over settled jobs, with no state; `Judging` takes any
  gains that `learning` could report.
* Fetching and parsing of pages, decks and repositories, the inside of the agent-readiness scan, prompts, HTML and PDF: input and output with no
  state of their own. What a fetch may do to its caller (answer, fail, answer late) is in the modules.
* Replay's journeys pre-empt a probe's override of a claim in `verdict`. They do not meet: a team's intake gives no `req.url`, so that
  no probe runs on it; `EvidenceReport` has the probes only.
* The messaging and technical sections of the rubric are graded like the others and are in no stamp.
* `sweep.py` calls `judge.start` for one URL after the other. The deployment scripts and the demo buyer are command lines
  over HTTP.
* In `TextIntake` a send that raises between a nudge and its mark (a reply that is no JSON, `linq_client.py:55`); each later poll repeats the nudge then, as a restart may once.
* A Terac launch that took effect behind an HTTP error: `Launch` allows it, and nothing counts what it cost.
* Delivery by Linq and Stripe's own behaviour are external: a text arrives or fails, a session is opened and paid at will.

## Plan

1. One report per order, after what it reports, as an abstract specification that `TextReport` refines up to the repetition that `TextTwice` shows.
2. `reset_sources` as a second evaluation of the same row (`Judging` has the first, `SourceCache` the sources, `TextReport` the regrade).
3. Theorems: that abstract specification's refinement; what is left of `TracksMajority` with readers and operators at work, as a bound
   on how far a stale put can take the row back.
