----------------------------- MODULE TextIntake -----------------------------
(***************************************************************************)
(* One phone's text thread from its first message to a started job:        *)
(* textflow.handle_text on the event loop, complete_session and the nudges *)
(* in the stripe_poll thread, the operator's merge_open_jobs and           *)
(* reset_sources in a request thread.  Texts and Linq's redeliveries are   *)
(* handled one at a time and so is what the operator asks for; every store *)
(* call is atomic and the three actors interleave between calls.           *)
(* How a started job is graded and reported is Judging and TextReport.     *)
(***************************************************************************)
EXTENDS Naturals, FiniteSets, FiniteSetsExt

CONSTANTS
  Orders,       \* job ids, numbered in order of creation
  Texts,        \* the messages the phone may send: [word, links, note]
  Slots,        \* the kinds of link a request has a field for
  PageSlot,     \* the one for a page, which a README's live link may fill
  Resets,       \* what the operator may put in a slot: [slot, link]
  NoLink, NoOrder,
  MaxTexts, MaxDisturbances   \* bounds; a merge, a reset or a restart is a disturbance

Keywords == {"RERUN", "DONE", "PAY"}
Links == (UNION {{t.links[s] : s \in Slots} : t \in Texts}) \cup {NoLink}
PageLinks == {t.links[PageSlot] : t \in Texts} \cup {NoLink}
\* "apology": a placeholder for an empty pitch; "bundle": the pitch is now the text of the sources.
Requests == [links : [Slots -> Links], notes : SUBSET {"note", "apology", "bundle"}]
Empty == [links |-> [s \in Slots |-> NoLink], notes |-> {}]

ASSUME OrdersAssumption == Orders \subseteq Nat /\ NoOrder \notin Orders
ASSUME TextsAssumption ==
  \A t \in Texts : t.word \in Keywords \cup {""} /\ DOMAIN t.links = Slots /\ t.note \in BOOLEAN
ASSUME SlotsAssumption == PageSlot \in Slots /\ Resets \subseteq [slot : Slots, link : Links]
ASSUME BoundsAssumption == MaxTexts \in Nat /\ MaxDisturbances \in Nat

VARIABLES
  free,                 \* RC_TEXT_FREE
  status, request,      \* columns of jobs
  stage, nudgedFlag,    \* text_stage, text_nudged
  quiet,                \* text_last_message_at is ten minutes old
  last,                 \* the newest row of text_threads: [job, req]
  loop,                 \* the turn in hand: [pc, job, req, first]
  poller,               \* the poll in hand: [pc, job, req, todo]
  merge,                \* the merge or the reset in hand: [pc, job, req, todo]
  paid,                 \* orders with a paid session nobody has claimed
  told, bought,         \* per order, until it starts: what was last confirmed to the buyer, and so when paying
  nudges,               \* nudges sent for each order
  torn,                 \* a merge or a reset overlapped a turn, or a restart ended one
  reset,                \* the orders whose sources the operator has reset
  texts, reruns, merges, restarts

rows == <<status, request, stage, nudgedFlag, quiet, last>>
history == <<told, bought, nudges, torn, reset>>
counts == <<texts, reruns, merges, restarts>>
vars == <<free, rows, loop, poller, merge, paid, history, counts>>

Idle == [pc |-> "idle", job |-> NoOrder, req |-> Empty, todo |-> {}]
IdleLoop == [pc |-> "idle", job |-> NoOrder, req |-> Empty, first |-> FALSE]

Init ==
  /\ free \in BOOLEAN
  /\ status = [o \in Orders |-> "absent"]
  /\ request = [o \in Orders |-> Empty]
  /\ stage = [o \in Orders |-> "gathering"]
  /\ nudgedFlag = {} /\ quiet = {} /\ paid = {}
  /\ last = [job |-> NoOrder, req |-> Empty]
  /\ loop = IdleLoop /\ poller = Idle /\ merge = Idle
  /\ told = request /\ bought = request
  /\ nudges = [o \in Orders |-> 0]
  /\ torn = FALSE /\ reset = {}
  /\ texts = 0 /\ reruns = 0 /\ merges = 0 /\ restarts = 0

Pending == {o \in Orders : status[o] = "pending_payment"}
Absent == {o \in Orders : status[o] = "absent"}

\* The phone's newest job if it is still unpaid.
OpenJob == IF last.job \in Pending THEN last.job ELSE NoOrder
-----------------------------------------------------------------------------
(* What a text says.  Which of its links open is found out by fetching.    *)

LinkedSlots(t) == {s \in Slots : t.links[s] # NoLink}
\* access_checker: any of the links may turn out to be private, wrong or down.
Opens(t) == SUBSET LinkedSlots(t)
Good(t, opens) == [s \in Slots |-> IF s \in opens THEN t.links[s] ELSE NoLink]
NoteOf(t) == IF t.note THEN {"note"} ELSE {}

\* (mutant) Slots are written whether or not the text has a link for them.
AttachedOver(req, t, opens) ==
  [links |-> Good(t, opens), notes |-> req.notes \cup NoteOf(t)]

\* attach_to_job: a link that opened replaces the slot, the pitch is appended.
Attached(req, t, opens) ==
  [links |-> [s \in Slots |-> IF s \in opens THEN t.links[s] ELSE req.links[s]],
   notes |-> req.notes \cup NoteOf(t)]
\* (mutant) A keyword is kept as it was typed.
FirstRequestRaw(t, opens) ==
  [links |-> Good(t, opens), notes |-> NoteOf(t) \cup ({t.word} \ {""})]

\* The first text: what opened, or the placeholder when nothing is left to grade.
\* Keywords are no pitch to attach but are one for a first text.
FirstRequest(t, opens) ==
  LET notes == NoteOf(t) \cup (IF t.word = "" THEN {} ELSE {"note"})
  IN [links |-> Good(t, opens),
      notes |-> IF opens = {} /\ notes = {} THEN {"apology"} ELSE notes]

\* sources.normalize: nothing can be read, or the pitch becomes the bundle of what
\* was and an empty page slot takes the README's live link.
Bundles(req) ==
  {req} \cup
  {[links |-> [req.links EXCEPT ![PageSlot] = IF @ = NoLink THEN live ELSE @],
    notes |-> req.notes \cup {"bundle"}] : live \in PageLinks}

\* What judge.start makes of a request: a page is read only when it is all there is.
Resolved(req) ==
  LET others == \E s \in Slots \ {PageSlot} : req.links[s] # NoLink
      page == req.links[PageSlot] # NoLink /\ req.notes = {}
  IN {IF r.notes = {} THEN [r EXCEPT !.notes = {"apology"}] ELSE r :
        r \in IF others \/ page THEN Bundles(req) ELSE {req}}

\* reset_sources with one link replaced: an earlier bundle goes, and the pitch in it.
ResetTo(req, to) ==
  LET new == [links |-> [req.links EXCEPT ![to.slot] = to.link],
              notes |-> IF "bundle" \in req.notes THEN {} ELSE req.notes]
  IN IF \E x \in Slots : new.links[x] # NoLink THEN Bundles(new) ELSE {new}

-----------------------------------------------------------------------------
(* The event loop: one turn of handle_text.                                *)

Turn(pc, job, req, first) == loop' = [pc |-> pc, job |-> job, req |-> req, first |-> first]

\* handle_text up to its first write: the open job is read, the links are fetched.
Receive(t, opens) ==
  LET open == OpenJob
      new == Min(Absent)
  IN
  /\ loop.pc = "idle" /\ texts < MaxTexts
  /\ texts' = texts + 1
  /\ torn' = (torn \/ merge.pc # "idle")
  /\ \/ /\ t.word = "RERUN" /\ opens = {} /\ last.job # NoOrder /\ Absent # {}
        /\ Turn("open", new, last.req, TRUE) /\ reruns' = reruns + 1
     \/ /\ t.word \in {"DONE", "PAY"} /\ opens = {} /\ open # NoOrder
        /\ Turn("stage", open, Empty, FALSE) /\ UNCHANGED reruns
     \/ /\ t.word = "" /\ open # NoOrder
        /\ Turn("attach", open, Attached(request[open], t, opens), FALSE) /\ UNCHANGED reruns
     \* nothing open: a keyword other than RERUN falls through to a first text
     \/ /\ t.word # "RERUN" /\ open = NoOrder /\ Absent # {}
        \* the free room path does not check the links it starts with
        /\ free => opens = LinkedSlots(t)
        /\ Turn("open", new, FirstRequest(t, opens), TRUE) /\ UNCHANGED reruns
  /\ UNCHANGED <<free, rows, poller, merge, paid, told, bought, nudges, reset, merges, restarts>>

\* start_from_text: the order's row; in the free room judge.start at once, which
\* stores what it has read.
Open ==
  LET o == loop.job IN
  /\ loop.pc = "open"
  /\ \E req \in IF free THEN Resolved(loop.req) ELSE {loop.req} :
       request' = [request EXCEPT ![o] = req]
  /\ status' = [status EXCEPT ![o] = IF free THEN "started" ELSE "pending_payment"]
  /\ loop' = [loop EXCEPT !.pc = "row"]
  /\ UNCHANGED <<free, stage, nudgedFlag, quiet, last, poller, merge, paid,
                 told, bought, nudges, torn, reset, counts>>

\* attach_to_job: update_request with the copy read before the fetch, then
\* _save_turn_state (text_last_message_at).
Attach ==
  /\ loop.pc = "attach"
  /\ request' = [request EXCEPT ![loop.job] = loop.req]
  /\ quiet' = quiet \ {loop.job}
  /\ loop' = [loop EXCEPT !.pc = "row"]
  /\ UNCHANGED <<free, status, stage, nudgedFlag, last, poller, merge, paid, history, counts>>

\* (mutant) Only the first text of an order writes a row.
PutFirstRow ==
  /\ loop.pc = "row"
  /\ last' = IF loop.first THEN [job |-> loop.job, req |-> loop.req] ELSE last
  /\ told' = IF loop.job \in Pending THEN [told EXCEPT ![loop.job] = loop.req] ELSE told
  /\ loop' = IdleLoop
  /\ UNCHANGED <<free, status, request, stage, nudgedFlag, quiet, poller, merge, paid,
                 bought, nudges, torn, reset, counts>>

\* text_thread_put, and the reply that confirms what was added.
PutRow ==
  /\ loop.pc = "row"
  /\ last' = [job |-> loop.job, req |-> loop.req]
  /\ told' = IF loop.job \in Pending THEN [told EXCEPT ![loop.job] = loop.req] ELSE told
  /\ loop' = IdleLoop
  /\ UNCHANGED <<free, status, request, stage, nudgedFlag, quiet, poller, merge, paid,
                 bought, nudges, torn, reset, counts>>
\* _send_payment: patches text_stage, whatever it has become, and texts the link.
SendPayment ==
  /\ loop.pc = "stage"
  /\ stage' = [stage EXCEPT ![loop.job] = "awaiting_payment"]
  /\ loop' = IdleLoop
  /\ UNCHANGED <<free, status, request, nudgedFlag, quiet, last, poller, merge, paid, history, counts>>

-----------------------------------------------------------------------------
(* The buyer's clock and money.                                            *)

\* Ten minutes pass without a message; a turn, a poll or a merge takes seconds.
TenMinutes ==
  /\ Pending # quiet /\ loop.pc = "idle" /\ poller.pc = "idle" /\ merge.pc = "idle"
  /\ quiet' = Pending
  /\ UNCHANGED <<free, status, request, stage, nudgedFlag, last, loop, poller, merge, paid, history, counts>>

\* The link of an order can be paid as soon as its row exists.  (Payments has
\* what becomes of money for an order in hand, started or cancelled.)
Pay(o) ==
  /\ o \in Pending \ paid /\ ~(poller.pc = "start" /\ poller.job = o)
  /\ paid' = paid \cup {o}
  /\ bought' = [bought EXCEPT ![o] = told[o]]
  /\ UNCHANGED <<free, rows, loop, poller, merge, told, nudges, torn, reset, counts>>

-----------------------------------------------------------------------------
(* The stripe_poll thread.  The webhook's complete_session runs between    *)
(* two turns of the loop, where the poller's can run as well.              *)

\* complete_session claims the session and reads the paid order.
ReadPaid(o) ==
  /\ poller.pc = "idle" /\ o \in paid \cap Pending
  /\ poller' = [Idle EXCEPT !.pc = "start", !.job = o, !.req = request[o]]
  /\ paid' = paid \ {o}
  /\ UNCHANGED <<free, rows, loop, merge, history, counts>>

\* judge.start's first put_job: status, and text_stage "paid"; put_job never rewrites a request.
Start ==
  LET o == poller.job IN
  /\ poller.pc = "start"
  /\ status' = [status EXCEPT ![o] = "started"]
  /\ stage' = [stage EXCEPT ![o] = "paid"]
  /\ told' = [told EXCEPT ![o] = Empty] /\ bought' = [bought EXCEPT ![o] = Empty]
  /\ poller' = Idle
  /\ UNCHANGED <<free, request, nudgedFlag, quiet, last, loop, merge, paid, nudges, torn, reset, counts>>

\* (mutant) The flag is not looked at.
NudgeDueAgain == {o \in Pending \cap quiet : stage[o] = "gathering"}

\* The orders nudge_idle_threads would nudge, by list_jobs' copy of their rows.
\* The scan follows poll_once in one try block: a poll that raises skips it, and
\* leaves these rows as they are.
NudgeDue == {o \in Pending \cap quiet : stage[o] = "gathering"} \ nudgedFlag
Scan ==
  /\ poller.pc = "idle" /\ NudgeDue # {}
  /\ poller' = [Idle EXCEPT !.pc = "nudge", !.todo = NudgeDue]
  /\ UNCHANGED <<free, rows, loop, merge, paid, history, counts>>

\* (mutant) The first order that is passed over ends the scan.
NudgeOldest ==
  LET o == Min(poller.todo)
      due == o = OpenJob
  IN
  /\ poller.pc = "nudge"
  /\ nudges' = IF due THEN [nudges EXCEPT ![o] = @ + 1] ELSE nudges
  /\ poller' = IF due THEN [poller EXCEPT !.pc = "mark", !.job = o, !.todo = {}] ELSE Idle
  /\ UNCHANGED <<free, rows, loop, merge, paid, told, bought, torn, reset, counts>>

\* Newest first; an order that is not the phone's open one by now is passed over.
Nudge ==
  LET o == Max(poller.todo)
      rest == poller.todo \ {o}
      due == o = OpenJob
  IN
  /\ poller.pc = "nudge"
  /\ nudges' = IF due THEN [nudges EXCEPT ![o] = @ + 1] ELSE nudges
  /\ poller' = IF due THEN [poller EXCEPT !.pc = "mark", !.job = o, !.todo = rest]
               ELSE IF rest = {} THEN Idle ELSE [poller EXCEPT !.todo = rest]
  /\ UNCHANGED <<free, rows, loop, merge, paid, told, bought, torn, reset, counts>>
MarkNudged ==
  /\ poller.pc = "mark"
  /\ nudgedFlag' = nudgedFlag \cup {poller.job}
  /\ poller' = IF poller.todo = {} THEN Idle ELSE [poller EXCEPT !.pc = "nudge", !.job = NoOrder]
  /\ UNCHANGED <<free, status, request, stage, quiet, last, loop, merge, paid, history, counts>>

-----------------------------------------------------------------------------
(* The operator: merge_open_jobs and reset_sources.                        *)

\* The rows it selects: the newest is kept, its empty slots are filled from the others.
Merged(open) ==
  LET keep == Max(open)
      offers(s) == {o \in open : request[o].links[s] # NoLink}
  IN [links |-> [s \in Slots |-> IF offers(s) = {} THEN NoLink ELSE request[Max(offers(s))].links[s]],
      notes |-> UNION {request[o].notes : o \in open}]
MergeRead ==
  /\ merge.pc = "idle" /\ merges + restarts < MaxDisturbances /\ Pending # {}
  /\ merge' = [pc |-> "cancel", job |-> Max(Pending), req |-> Merged(Pending),
               todo |-> Pending \ {Max(Pending)}]
  /\ merges' = merges + 1
  /\ torn' = (torn \/ loop.pc # "idle")
  /\ UNCHANGED <<free, rows, loop, poller, paid, told, bought, nudges, reset,
                 texts, reruns, restarts>>

\* Cancels the next newest order, whatever has become of it.
MergeCancel ==
  /\ merge.pc = "cancel" /\ merge.todo # {}
  /\ status' = [status EXCEPT ![Max(merge.todo)] = "cancelled"]
  /\ merge' = [merge EXCEPT !.todo = @ \ {Max(@)}]
  /\ UNCHANGED <<free, request, stage, nudgedFlag, quiet, last, loop, poller, paid, history, counts>>

MergeUpdate ==
  /\ merge.pc = "cancel" /\ merge.todo = {}
  /\ request' = [request EXCEPT ![merge.job] = merge.req]
  /\ merge' = [merge EXCEPT !.pc = "row"]
  /\ UNCHANGED <<free, status, stage, nudgedFlag, quiet, last, loop, poller, paid, history, counts>>

\* "One check, all your links" confirms the surviving order.
MergeRow ==
  /\ merge.pc = "row"
  /\ last' = [job |-> merge.job, req |-> merge.req]
  /\ told' = IF merge.job \in Pending THEN [told EXCEPT ![merge.job] = merge.req] ELSE told
  /\ merge' = Idle
  /\ UNCHANGED <<free, status, request, stage, nudgedFlag, quiet, loop, poller, paid,
                 bought, nudges, torn, reset, counts>>

\* reset_sources, whatever the order's status: the copy read before the sources
\* are fetched is written after; no row of the thread is.
ResetRead(o) ==
  /\ merge.pc = "idle" /\ merges + restarts < MaxDisturbances /\ o \notin Absent
  /\ \E to \in Resets : \E req \in ResetTo(request[o], to) :
       merge' = [pc |-> "reset", job |-> o, req |-> req, todo |-> {}]
  /\ merges' = merges + 1
  /\ torn' = (torn \/ loop.pc # "idle")
  /\ UNCHANGED <<free, rows, loop, poller, paid, told, bought, nudges, reset,
                 texts, reruns, restarts>>
ResetUpdate ==
  /\ merge.pc = "reset"
  /\ request' = [request EXCEPT ![merge.job] = merge.req]
  /\ reset' = reset \cup {merge.job}
  /\ merge' = Idle
  /\ UNCHANGED <<free, status, stage, nudgedFlag, quiet, last, loop, poller, paid,
                 told, bought, nudges, torn, counts>>

\* The instance restarts; its threads are gone, its rows are not.
Restart ==
  /\ merges + restarts < MaxDisturbances
  /\ restarts' = restarts + 1
  /\ torn' = (torn \/ loop.pc # "idle" \/ merge.pc # "idle")
  /\ loop' = IdleLoop /\ poller' = Idle /\ merge' = Idle
  /\ UNCHANGED <<free, rows, paid, told, bought, nudges, reset, texts, reruns, merges>>

LoopNext == Open \/ Attach \/ PutRow \/ SendPayment
PollerNext == Start \/ Nudge \/ MarkNudged
MergeNext == MergeCancel \/ MergeUpdate \/ MergeRow
ResetNext == ResetUpdate \/ \E o \in Orders : ResetRead(o)

Next ==
  \/ \E t \in Texts : \E opens \in Opens(t) : Receive(t, opens)
  \/ LoopNext \/ PollerNext \/ Scan \/ TenMinutes
  \/ \E o \in Orders : Pay(o) \/ ReadPaid(o)
  \/ MergeRead \/ MergeNext \/ ResetNext \/ Restart

\* What the poller has begun it goes on with: nothing in it waits for another.  It
\* need not begin: a poll may raise (a bad key, Stripe down, a session that fails
\* each time) before it comes to its scan, and a payment may never be made.
Spec == Init /\ [][Next]_vars /\ WF_vars(PollerNext)

-----------------------------------------------------------------------------
(* Properties.                                                             *)

\* Every variable has its type: the rows, the turn in hand and the histories.
TypeOK ==
  /\ {free, torn} \subseteq BOOLEAN /\ reset \subseteq Orders
  /\ status \in [Orders -> {"absent", "pending_payment", "started", "cancelled"}]
  /\ request \in [Orders -> Requests]
  /\ stage \in [Orders -> {"gathering", "awaiting_payment", "paid"}]
  /\ nudgedFlag \subseteq Orders /\ quiet \subseteq Orders /\ paid \subseteq Orders
  /\ last \in [job : Orders \cup {NoOrder}, req : Requests]
  /\ loop \in [pc : {"idle", "open", "attach", "row", "stage"}, job : Orders \cup {NoOrder},
               req : Requests, first : BOOLEAN]
  /\ \A a \in {poller, merge} :
       a \in [pc : {"idle", "start", "nudge", "mark", "cancel", "row", "reset"},
              job : Orders \cup {NoOrder}, req : Requests, todo : SUBSET Orders]
  /\ told \in [Orders -> Requests] /\ bought \in [Orders -> Requests]
  /\ nudges \in [Orders -> Nat]
  /\ {texts, reruns, merges, restarts} \subseteq Nat

\* "Everything the phone sends before paying attaches to it" (textflow._open_job):
\* what the buyer had been told was in the order when they paid is in what is
\* judged, unless the operator reset the order's sources or did something to the
\* phone's orders across a turn.
BoughtIsJudged ==
  ~torn /\ poller.pc = "start" /\ poller.job \notin reset =>
    /\ \A s \in Slots : bought[poller.job].links[s] # NoLink => poller.req.links[s] # NoLink
    /\ bought[poller.job].notes \subseteq poller.req.notes

\* Between turns the thread's newest row holds what its order's request holds, so
\* that a RERUN starts from what was last attached (textflow.handle_text).  The row
\* of an order started in the free room holds what was texted and its request what
\* was read there; a reset is in the request only.
RerunSeesLatest ==
  ~torn /\ loop.pc = "idle" /\ merge.pc = "idle" /\ last.job # NoOrder /\ last.job \notin reset
    => \/ request[last.job] = last.req
       \/ free /\ request[last.job] \in Resolved(last.req)

\* An order is nudged once, or once more for a restart between text and mark.  (A send that
\* raises after Linq took the text leaves it unmarked as well, and is not modelled.)
NudgedOnce == \A o \in Orders : nudges[o] <= 1 + restarts

\* The open order that stays idle while gathering is nudged, unless every poll raises
\* while a nudge is due: only then is the scan after poll_once never reached.
PollsGetThrough == []<>(poller.pc = "nudge" \/ NudgeDue = {})
Waiting == OpenJob \in NudgeDue
QuietIsNudged == PollsGetThrough => (Waiting ~> ~Waiting)
=============================================================================
