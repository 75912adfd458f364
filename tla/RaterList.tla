----------------------------- MODULE RaterList ------------------------------
(***************************************************************************)
(* Linq's opt-in list of raters: linq_client and store.rater_upsert,       *)
(* raters_pick and rater_touch.  A webhook call is one step of the event   *)
(* loop and Linq may repeat it; launches of the Linq panel run in threads  *)
(* of their own, one text at a time, and see the list as they picked it.   *)
(***************************************************************************)
EXTENDS Naturals, FiniteSets

CONSTANTS
  Phones,
  Launches,              \* panel launches: threads of judge.start
  PanelSize,             \* raters wanted by a launch
  MaxSays, MaxLists      \* bounds: texts and repeats, launches begun

ASSUME ListAssumption == PanelSize \in Nat /\ MaxSays \in Nat /\ MaxLists \in Nat

VARIABLES
  list,       \* rows of raters: "absent", "in" or "out"
  lastSent,   \* last_sent_at as a rank: 0 is null
  launch,     \* per launch: "idle", or the phones still to be texted
  said,       \* <<phone, word>>: every keyword a phone has sent (history)
  wish,       \* the last keyword each phone sent, "" if none (history)
  crossed,    \* <<launch, phone>>: the phone was picked when it said STOP (history)
  echoed,     \* phones whose old RATE Linq delivered again after their STOP (history)
  says, lists \* how many so far (bounds)

heard == <<said, wish, crossed, echoed, says>>
raterVars == <<list, lastSent, launch, heard, lists>>

RatersInit ==
  /\ list = [p \in Phones |-> "absent"] /\ lastSent = [p \in Phones |-> 0]
  /\ launch = [l \in Launches |-> {}]
  /\ said = {} /\ wish = [p \in Phones |-> ""] /\ crossed = {} /\ echoed = {}
  /\ says = 0 /\ lists = 0

\* handle_inbound on a keyword: rater_upsert keeps one row per phone.
Handled(p, word) == list' = [list EXCEPT ![p] = IF word = "RATE" THEN "in" ELSE "out"]

Say(p, word) ==
  /\ says < MaxSays /\ says' = says + 1
  /\ Handled(p, word)
  /\ said' = said \cup {<<p, word>>} /\ wish' = [wish EXCEPT ![p] = word]
  /\ crossed' = IF word = "STOP"
                THEN {c \in crossed : c[2] # p} \cup {<<l, p>> : l \in {l \in Launches : p \in launch[l]}}
                ELSE crossed
  /\ echoed' = echoed \ {p}
  /\ UNCHANGED <<lastSent, launch, lists>>

\* The webhook has no record of the messages it has seen.
Redeliver(p, word) ==
  /\ <<p, word>> \in said /\ says < MaxSays /\ says' = says + 1
  /\ Handled(p, word)
  /\ echoed' = IF word = "RATE" /\ wish[p] = "STOP" THEN echoed \cup {p} ELSE echoed
  /\ UNCHANGED <<said, wish, crossed, lastSent, launch, lists>>

OptedIn == {p \in Phones : list[p] = "in"}

\* (mutant) The opt-out is not part of the query.
EnrolledEver == {p \in Phones : list[p] # "absent"}
PickEver(l, picked) ==
  /\ launch[l] = {} /\ lists < MaxLists /\ lists' = lists + 1
  /\ picked \subseteq EnrolledEver /\ Cardinality(picked) <= PanelSize /\ picked # {}
  /\ launch' = [launch EXCEPT ![l] = picked]
  /\ crossed' = {c \in crossed : c[1] # l}
  /\ UNCHANGED <<list, lastSent, said, wish, echoed, says>>

\* raters_pick(n): the opted-in, those never texted first and then the longest ago.
Pick(l, picked) ==
  /\ launch[l] = {} /\ lists < MaxLists /\ lists' = lists + 1
  /\ picked \subseteq OptedIn /\ picked # {}
  /\ Cardinality(picked) = PanelSize \/ (picked = OptedIn /\ Cardinality(picked) < PanelSize)
  /\ \A p \in picked, q \in OptedIn \ picked : lastSent[p] <= lastSent[q]
  /\ launch' = [launch EXCEPT ![l] = picked]
  /\ crossed' = {c \in crossed : c[1] # l}
  /\ UNCHANGED <<list, lastSent, said, wish, echoed, says>>

\* Whose text fails keeps its place at the head of the list.
Text(l, p, delivered) ==
  /\ p \in launch[l]
  /\ lastSent' = IF delivered THEN [lastSent EXCEPT ![p] = lists] ELSE lastSent
  /\ launch' = [launch EXCEPT ![l] = @ \ {p}]
  /\ UNCHANGED <<list, heard, lists>>

RatersNext ==
  \/ \E p \in Phones, word \in {"RATE", "STOP"} : Say(p, word) \/ Redeliver(p, word)
  \/ \E l \in Launches : \/ \E picked \in SUBSET Phones : Pick(l, picked)
                         \/ \E p \in Phones, delivered \in BOOLEAN : Text(l, p, delivered)

RatersSpec == RatersInit /\ [][RatersNext]_raterVars

-----------------------------------------------------------------------------
(* Properties.                                                             *)

RatersTypeOK ==
  /\ list \in [Phones -> {"absent", "in", "out"}]
  /\ lastSent \in [Phones -> 0 .. MaxLists] /\ launch \in [Launches -> SUBSET Phones]
  /\ said \subseteq Phones \X {"RATE", "STOP"} /\ wish \in [Phones -> {"", "RATE", "STOP"}]
  /\ crossed \subseteq Launches \X Phones /\ echoed \subseteq Phones
  /\ says \in 0 .. MaxSays /\ lists \in 0 .. MaxLists

\* "Reply STOP any time to leave" (linq_client.WELCOME): who said STOP is on no
\* launch's list but one that had picked them before, until they say RATE again or
\* Linq repeats an old RATE of theirs.
StopIsHeeded ==
  \A l \in Launches : \A p \in launch[l] :
    wish[p] = "STOP" => <<l, p>> \in crossed \/ p \in echoed
=============================================================================
