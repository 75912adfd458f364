----------------------------- MODULE Admission ------------------------------
(***************************************************************************)
(* How a request of POST /judge or POST /intake gets in: protocol.admit on *)
(* the event loop, then the job in a request thread.  A caller that got no *)
(* answer may send the same request again, before and after a restart.     *)
(***************************************************************************)
EXTENDS Naturals, FiniteSets

CONSTANTS
  Posts,          \* the calls, each sent once
  Nonces, NoNonce,
  MaxApiRestarts  \* bound

ASSUME NonceAssumption == NoNonce \notin Nonces /\ IsFiniteSet(Posts) /\ MaxApiRestarts \in Nat

VARIABLES
  dev,        \* RC_DEV=1 (never changes once it is known)
  burned,     \* the protocol.nonce events
  post,       \* per call: [pc, nonce, paid]
  admits,     \* per nonce: calls let in (history)
  apiRestarts

admissionVars == <<dev, burned, post, admits, apiRestarts>>

Unsent == [pc |-> "unsent", nonce |-> NoNonce, paid |-> FALSE]

AdmissionInit ==
  /\ dev \in BOOLEAN
  /\ burned = {} /\ post = [p \in Posts |-> Unsent]
  /\ admits = [n \in Nonces |-> 0] /\ apiRestarts = 0

\* No caller of admit has a job yet, so no receipt: only the development header pays.
PaidFor(claimed) == dev /\ claimed

\* (mutant) A nonce is known by the job it started.
FreshStarted(nonce) == \A p \in Posts : ~(post[p].pc = "judged" /\ post[p].nonce = nonce)
\* replay_guard: a request without a nonce is always fresh.
Fresh(nonce) == nonce \notin burned

Answer(p, pc, nonce, paid) ==
  post' = [post EXCEPT ![p] = [pc |-> pc, nonce |-> nonce, paid |-> paid]]

\* An expired call does not use its nonce up; an invalid body (422) does.
Post(p, nonce, expired, valid, claimed) ==
  /\ post[p].pc = "unsent"
  /\ IF expired \/ ~Fresh(nonce)
     THEN Answer(p, "refused", nonce, FALSE) /\ UNCHANGED <<burned, admits>>
     ELSE /\ burned' = burned \cup ({nonce} \ {NoNonce})
          /\ IF valid
             THEN /\ Answer(p, "admitted", nonce, PaidFor(claimed))
                  /\ admits' = IF nonce = NoNonce THEN admits ELSE [admits EXCEPT ![nonce] = @ + 1]
             ELSE Answer(p, "refused", nonce, FALSE) /\ UNCHANGED admits
  /\ UNCHANGED <<dev, apiRestarts>>

\* judge.start or intake.submit in the thread pool, to the job's first row.
StartJob(p) ==
  /\ post[p].pc = "admitted"
  /\ post' = [post EXCEPT ![p].pc = "judged"]
  /\ UNCHANGED <<dev, burned, admits, apiRestarts>>

\* A call the pool had not started is gone, its nonce is not.
ApiRestart ==
  /\ apiRestarts < MaxApiRestarts /\ apiRestarts' = apiRestarts + 1
  /\ post' = [p \in Posts |-> IF post[p].pc = "admitted" THEN [post[p] EXCEPT !.pc = "lost"] ELSE post[p]]
  /\ UNCHANGED <<dev, burned, admits>>

AdmissionNext ==
  \/ \E p \in Posts, nonce \in Nonces \cup {NoNonce}, expired, valid, claimed \in BOOLEAN :
       Post(p, nonce, expired, valid, claimed)
  \/ \E p \in Posts : StartJob(p)
  \/ ApiRestart

AdmissionSpec == AdmissionInit /\ [][AdmissionNext]_admissionVars

-----------------------------------------------------------------------------
(* Properties.                                                             *)

AdmissionTypeOK ==
  /\ dev \in BOOLEAN /\ burned \subseteq Nonces
  /\ post \in [Posts -> [pc : {"unsent", "refused", "admitted", "judged", "lost"},
                         nonce : Nonces \cup {NoNonce}, paid : BOOLEAN]]
  /\ admits \in [Nonces -> 0 .. Cardinality(Posts)] /\ apiRestarts \in 0 .. MaxApiRestarts

\* "Nonce replay is rejected" (protocol.py): of all the calls with one nonce, on
\* either side of a restart, at most one is let in and judged.
NonceOnce == \A n \in Nonces : admits[n] <= 1

=============================================================================
