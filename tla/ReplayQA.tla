------------------------------ MODULE ReplayQA ------------------------------
(***************************************************************************)
(* The Replay QA handle of an intake job, state.replay: intake.submit      *)
(* opens the project, judge.verdict refreshes it (replay_client.refresh)   *)
(* and intake.redeploy records a version (replay_client.record_version).   *)
(* Each is a thread of the pool that reads the whole row, talks to Replay  *)
(* and puts the whole row back.  Time passes in units of POLL_MIN_S.       *)
(***************************************************************************)
EXTENDS Naturals, Sequences

CONSTANTS
  Flows,                 \* the claims is_flow_claim sends to Replay
  Refreshers, Redeploys,   \* threads
  Intake,                \* the thread of intake.submit
  Never, NoBugs,         \* polled_at and bugs of a handle not polled yet
  MaxTicks, MaxCalls   \* bounds

Workers == Refreshers \cup Redeploys \cup {Intake}

ASSUME NeverAssumption == Never \notin Nat /\ NoBugs \notin Nat
ASSUME WorkerAssumption == Intake \notin Refreshers \cup Redeploys /\ Refreshers \cap Redeploys = {}
ASSUME ReplayBoundsAssumption == {MaxTicks, MaxCalls} \subseteq Nat

Results == {"absent", "none", "unknown", "tested"}

VARIABLES
  jobRow,     \* the handle in the jobs row: [opened] and its keys
  copy,       \* per thread: the row it read and has worked on
  step,       \* per thread: "idle" or what it does next
  told,       \* how many versions Replay has been told of; its counts are of the last
  ran,        \* the flows Replay has run
  tick,       \* the time
  calls       \* verdicts that poll and redeploys so far (bound)

world == <<told, ran, tick>>
replayVars == <<jobRow, copy, step, world, calls>>

NoHandle == [opened |-> FALSE, polled |-> Never, bugs |-> NoBugs,
             journeys |-> [f \in Flows |-> "absent"], versions |-> <<>>]

\* store.put_job: the whole row, whatever was put since it was read.
Put(t, r) ==
  /\ jobRow' = r
  /\ copy' = [copy EXCEPT ![t] = NoHandle]
Read(t) == copy' = [copy EXCEPT ![t] = jobRow]
Go(t, s) == step' = [step EXCEPT ![t] = s]

\* judge.start has returned: the panel is out and the project not yet opened.
ReplayInit ==
  /\ jobRow = NoHandle /\ copy = [t \in Workers |-> NoHandle]
  /\ step = [t \in Workers |-> IF t = Intake THEN "launch" ELSE "idle"]
  /\ told = 0 /\ ran = {} /\ tick = 0
  /\ calls = 0

-----------------------------------------------------------------------------
\* launch: a journey that is refused is left out, a project that is refused leaves no handle.
LaunchFails == /\ step[Intake] = "launch" /\ Go(Intake, "idle")
               /\ UNCHANGED <<jobRow, copy, world, calls>>

Handle(started) ==
  [opened |-> TRUE, polled |-> Never, bugs |-> NoBugs, versions |-> <<>>,
   journeys |-> [f \in Flows |-> IF f \in started THEN "none" ELSE "absent"]]
WithHandle(r, h) ==
  [r EXCEPT !.opened = h.opened, !.polled = h.polled, !.bugs = h.bugs,
            !.versions = h.versions, !.journeys = h.journeys]

\* The row is read after the launch, so what happened meanwhile stays.
Launch(started) ==
  /\ step[Intake] = "launch"
  /\ copy' = [copy EXCEPT ![Intake] = WithHandle(jobRow, Handle(started))]
  /\ Go(Intake, "put")
  /\ UNCHANGED <<jobRow, world, calls>>

IntakePut ==
  /\ step[Intake] = "put" /\ Put(Intake, copy[Intake]) /\ Go(Intake, "idle")
  /\ UNCHANGED <<world, calls>>

-----------------------------------------------------------------------------
\* refresh: at most one poll per POLL_MIN_S, by the handle's own time.
Due(r) == r.opened /\ (r.polled # Never => tick > r.polled)

\* A handle that is not due is returned as it is, and nothing is put.
VerdictRead(t) ==
  /\ step[t] = "idle" /\ Due(jobRow)
  /\ calls < MaxCalls /\ calls' = calls + 1
  /\ Read(t) /\ Go(t, "poll")
  /\ UNCHANGED <<jobRow, world>>

\* The status and the bugs: without both the handle keeps its old poll.
PollFails(t) ==
  /\ step[t] = "poll" /\ Go(t, "idle")
  /\ copy' = [copy EXCEPT ![t] = NoHandle]
  /\ UNCHANGED <<jobRow, world, calls>>

Polled(r) == [r EXCEPT !.polled = tick, !.bugs = told]

\* The result of each journey that answers; one that cannot be read keeps its result.
Heard(r, answering) ==
  [r EXCEPT !.journeys = [f \in Flows |->
     CASE r.journeys[f] = "absent" -> "absent"
       [] f \in answering -> IF f \in ran THEN "tested" ELSE "unknown"
       [] OTHER -> IF r.journeys[f] = "none" THEN "unknown" ELSE r.journeys[f]]]

Poll(t) ==
  /\ step[t] = "poll" /\ Go(t, "journeys")
  /\ copy' = [copy EXCEPT ![t] = Polled(@)]
  /\ UNCHANGED <<jobRow, world, calls>>

PollJourneys(t, answering) ==
  /\ step[t] = "journeys" /\ Go(t, "put")
  /\ copy' = [copy EXCEPT ![t] = Heard(@, answering)]
  /\ UNCHANGED <<jobRow, world, calls>>

VerdictPut(t) ==
  /\ step[t] = "put" /\ Put(t, copy[t]) /\ Go(t, "idle")
  /\ UNCHANGED <<world, calls>>

-----------------------------------------------------------------------------
RedeployRead(t) ==
  /\ step[t] = "idle" /\ jobRow.opened
  /\ calls < MaxCalls /\ calls' = calls + 1
  /\ Read(t) /\ Go(t, "version")
  /\ UNCHANGED <<jobRow, world>>

\* (mutant) What the counts were before is what they were before the first version.
VersionedFromFirst(r) ==
  LET before == IF r.versions = <<>> THEN r.bugs ELSE r.versions[1].openBefore
  IN [r EXCEPT !.versions = Append(@, [n |-> told + 1, openBefore |-> before]), !.polled = Never]

\* record_version: the counts so far are the new version's "before", and polled_at is
\* cleared so that the next verdict asks again.
Versioned(r) ==
  [r EXCEPT !.versions = Append(@, [n |-> told + 1, openBefore |-> r.bugs]), !.polled = Never]

PostVersion(t) ==
  /\ step[t] = "version" /\ told' = told + 1
  /\ copy' = [copy EXCEPT ![t] = Versioned(@)] /\ Go(t, "put")
  /\ UNCHANGED <<jobRow, ran, tick, calls>>

\* The row is put back all the same.
VersionRefused(t) ==
  /\ step[t] = "version" /\ Go(t, "put")
  /\ UNCHANGED <<jobRow, copy, world, calls>>

RedeployPut(t) ==
  /\ step[t] = "put" /\ Put(t, copy[t]) /\ Go(t, "idle")
  /\ UNCHANGED <<world, calls>>

-----------------------------------------------------------------------------
Tick == /\ tick < MaxTicks /\ tick' = tick + 1
        /\ UNCHANGED <<jobRow, copy, step, told, ran, calls>>

\* Replay runs a journey; its last run keeps its result.
Run(f) == /\ f \in Flows \ ran /\ ran' = ran \cup {f}
          /\ UNCHANGED <<jobRow, copy, step, told, tick, calls>>

ReplayNext ==
  \/ LaunchFails \/ IntakePut \/ \E started \in SUBSET Flows : Launch(started)
  \/ \E t \in Refreshers :
       \/ VerdictRead(t) \/ PollFails(t) \/ Poll(t) \/ VerdictPut(t)
       \/ \E answering \in SUBSET Flows : PollJourneys(t, answering)
  \/ \E t \in Redeploys : RedeployRead(t) \/ PostVersion(t) \/ VersionRefused(t) \/ RedeployPut(t)
  \/ Tick \/ \E f \in Flows : Run(f)

ReplaySpec == ReplayInit /\ [][ReplayNext]_replayVars

-----------------------------------------------------------------------------
(* Properties.                                                             *)

RowType ==
  [opened : BOOLEAN, polled : Nat \cup {Never}, bugs : Nat \cup {NoBugs},
   journeys : [Flows -> Results], versions : Seq([n : Nat, openBefore : Nat \cup {NoBugs}])]

ReplayTypeOK ==
  /\ jobRow \in RowType /\ copy \in [Workers -> RowType]
  /\ step \in [Workers -> {"idle", "launch", "poll", "journeys", "version", "put"}]
  /\ told \in Nat /\ ran \subseteq Flows /\ tick \in Nat /\ calls \in Nat

\* objective_delta's "before -> after", for the last redeploy the handle knows of: a
\* change it shows was counted after Replay had been told of that version, whatever
\* stale row was put back.  It does not look at polled_at: a verdict whose poll fails
\* after the redeploy shows the old counts, and no change.
DeltaMeasured(r) ==
  r.versions # <<>> =>
    LET v == r.versions[Len(r.versions)]
    IN r.bugs = v.openBefore \/ (r.bugs # NoBugs /\ v.n <= r.bugs)
DeltaIsMeasured == DeltaMeasured(jobRow) /\ \A t \in Workers : DeltaMeasured(copy[t])
=============================================================================
