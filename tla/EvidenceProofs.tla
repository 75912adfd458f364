--------------------------- MODULE EvidenceProofs ---------------------------
(***************************************************************************)
(* What a verdict rests on, for any instance of it: the page raters and    *)
(* probes are about (SourceCache), what Replay reports of it (ReplayQA),   *)
(* the checks the probes decide a claim by (ProbeRun, EvidenceReport) and  *)
(* the grades the stamps are drawn from (HackathonStamp).  The four share  *)
(* no state; each has its invariant and theorems below.                    *)
(***************************************************************************)
EXTENDS SourceCache, ReplayQA, EvidenceReport, HackathonStamp, FiniteSetTheorems, WellFoundedInduction, TLAPS

-----------------------------------------------------------------------------
(* The cached page, for any number of rating pages and resets.  Without a  *)
(* restart the epoch tells who is late: a rating page whose epoch is the   *)
(* page's has read the request as it is, a thread of judge whose copy is   *)
(* as new as the row holds what the row holds of the request, and while    *)
(* the probes of the request are not running they have been stored.        *)

\* The page the sources should show.
Target == IF reset.pc = "request" THEN reset.url ELSE url

PageOK ==
  cacheRestarts = 0 =>
    /\ pageEpoch = IF reset.pc = "request" THEN epoch + 1 ELSE epoch
    /\ ~latePage /\ page # NoUrl => page = Target

RenderOK(c) ==
  /\ c.epoch <= epoch
  /\ cacheRestarts = 0 /\ c.pc # "idle" /\ c.epoch = pageEpoch =>
       c.url = url /\ (~c.late /\ c.page # NoUrl => c.page = url)

ProbingOK == \A t \in probing : t.epoch <= epoch /\ (t.epoch = epoch => t.url = url)
ProbedOK ==
  cacheRestarts = 0 /\ url # NoUrl /\ (\A t \in probing : t.epoch # epoch) =>
    probedEpoch = epoch /\ (~lateProbe => probed = url)

\* Probes of the newest epoch are about the request's page.
ProbesOK == cacheRestarts = 0 /\ probedEpoch = epoch /\ ~lateProbe => probed = url

RowCopyOK(c) ==
  /\ c.pageEpoch <= pageEpoch /\ c.probedEpoch <= probedEpoch
  /\ cacheRestarts = 0 /\ c.pc = "row" /\ c.pageEpoch = pageEpoch /\ ~c.latePage /\ c.page # NoUrl
       => c.page = Target
  /\ cacheRestarts = 0 /\ c.pc = "row" /\ c.probedEpoch = epoch /\ ~c.lateProbe => c.probed = url

EpochsOK == probedEpoch <= epoch /\ pageEpoch <= epoch + 1

CacheInv == /\ CacheTypeOK /\ PageOK /\ (\A r \in Renders : RenderOK(render[r])) /\ ProbingOK /\ ProbedOK
            /\ ProbesOK /\ (\A h \in Holders : RowCopyOK(held[h])) /\ EpochsOK
-----------------------------------------------------------------------------
LEMMA NoRenderTyped ==
  NoRender \in [pc : {"idle", "page", "repo"}, url : Pages, epoch : Nat,
                page : Pages, readme : BOOLEAN, late : BOOLEAN]
  /\ NoRender.pc = "idle" /\ NoRender.epoch = 0
BY DEF NoRender, Pages

LEMMA NoRowTyped ==
  /\ NoRow \in [pc : {"idle", "row"}, page : Pages, readme : BOOLEAN, probed : Pages,
                pageEpoch : Nat, probedEpoch : Nat, latePage : BOOLEAN, lateProbe : BOOLEAN]
  /\ NoRow.pc = "idle" /\ NoRow.pageEpoch = 0 /\ NoRow.probedEpoch = 0
BY DEF NoRow, Pages

\* Nobody puts a row and none of what the copies are compared with has changed.
LEMMA SameRow ==
  ASSUME CacheInv, UNCHANGED <<url, reset, held, epoch, pageEpoch, probedEpoch, cacheRestarts>>
  PROVE  \A h \in Holders : RowCopyOK(held[h])'
BY DEF CacheInv, RowCopyOK, Target

LEMMA CacheInvInit == CacheInit => CacheInv
<1> SUFFICES ASSUME CacheInit PROVE CacheInv
  OBVIOUS
<1>1. url \in Urls /\ url \in Pages /\ NoUrl \in Pages
  BY UrlsAssumption DEF CacheInit, Pages
<1>2. CacheTypeOK
  <2>0. page \in Pages /\ probed \in Pages
    BY <1>1 DEF CacheInit
  <2>1. probing \subseteq [url : Urls, epoch : Nat]
    <3>1. [url |-> url, epoch |-> 1] \in [url : Urls, epoch : Nat]
      BY <1>1
    <3>2. QED
      BY <3>1 DEF CacheInit
  <2>2. reset \in [pc : {"idle", "sources", "request"}, url : Pages]
    BY <1>1 DEF CacheInit, NoReset
  <2>3. render \in [Renders -> [pc : {"idle", "page", "repo"}, url : Pages, epoch : Nat,
                                 page : Pages, readme : BOOLEAN, late : BOOLEAN]]
    BY NoRenderTyped DEF CacheInit
  <2>4. QED
    BY <1>1, <2>0, <2>1, <2>2, <2>3, NoRowTyped DEF CacheInit, CacheTypeOK
<1>3. PageOK
  BY DEF CacheInit, PageOK, Target, NoReset
<1>4. \A r \in Renders : RenderOK(render[r])
  BY NoRenderTyped DEF CacheInit, RenderOK
<1>5. ProbingOK /\ ProbedOK /\ ProbesOK /\ EpochsOK
  BY DEF CacheInit, ProbingOK, ProbedOK, ProbesOK, EpochsOK
<1>7. \A h \in Holders : RowCopyOK(held[h])
  BY NoRowTyped DEF CacheInit, RowCopyOK
<1>6. QED
  BY <1>2, <1>3, <1>4, <1>5, <1>7 DEF CacheInv

LEMMA ResetReadKeeps == ASSUME CacheInv, NEW u \in Pages, ResetRead(u) PROVE CacheInv'
<1>1. CacheTypeOK'
  BY DEF ResetRead, CacheInv, CacheTypeOK, epochs, putVars
<1>2. QED
  BY <1>1 DEF ResetRead, CacheInv, PageOK, RenderOK, ProbingOK, ProbedOK, ProbesOK, EpochsOK, RowCopyOK, Target,
              epochs, putVars, CacheTypeOK

LEMMA ResetSourcesKeeps ==
  ASSUME CacheInv, NEW readable \in BOOLEAN, NEW about \in BOOLEAN, NEW live \in Pages, ResetSources(readable, about, live)
  PROVE  CacheInv'
<1>1. FirstScreen(reset.url, readable) \in Pages /\ LinkOr(reset.url, about, live) \in Pages
  BY DEF FirstScreen, LinkOr, CacheInv, CacheTypeOK, Pages
<1>2. CacheTypeOK'
  <2>1. reset' \in [pc : {"idle", "sources", "request"}, url : Pages]
    BY <1>1 DEF ResetSources
  <2>3. page' \in Pages /\ readme' \in BOOLEAN /\ latePage' \in BOOLEAN
    BY <1>1 DEF ResetSources
  <2>4. pageEpoch' \in Nat
    BY DEF ResetSources, CacheInv, CacheTypeOK
  <2>2. UNCHANGED <<url, probed, render, probing, epoch, probedEpoch, lateProbe, resets, renders, cacheRestarts, putVars>>
    BY DEF ResetSources
  <2>5. QED
    BY <2>1, <2>2, <2>3, <2>4 DEF CacheInv, CacheTypeOK, putVars
<1>3. PageOK'
  BY <1>1 DEF ResetSources, PageOK, Target, FirstScreen, LinkOr
<1>4. \A r \in Renders : RenderOK(render[r])'
  BY <1>2 DEF ResetSources, CacheInv, RenderOK, CacheTypeOK
<1>5. ProbingOK' /\ ProbedOK' /\ ProbesOK' /\ EpochsOK'
  BY DEF ResetSources, CacheInv, ProbingOK, ProbedOK, ProbesOK, EpochsOK
<1>6. \A h \in Holders : RowCopyOK(held[h])'
  <2> SUFFICES ASSUME NEW h \in Holders PROVE RowCopyOK(held[h])'
    OBVIOUS
  <2>1. /\ held' = held /\ pageEpoch' = epoch + 1 /\ reset.pc = "sources"
        /\ UNCHANGED <<url, epoch, probedEpoch, cacheRestarts>>
    BY DEF ResetSources, putVars
  <2>2. /\ epoch \in Nat /\ pageEpoch \in Nat /\ held[h].pageEpoch \in Nat /\ RowCopyOK(held[h])
        /\ held[h].pageEpoch <= pageEpoch /\ pageEpoch <= epoch + 1
    BY DEF CacheInv, CacheTypeOK, RowCopyOK, EpochsOK
  <2>3. cacheRestarts = 0 => held[h].pageEpoch # epoch + 1
    BY <2>1, <2>2 DEF CacheInv, PageOK
  <2>4. QED
    BY <2>1, <2>2, <2>3 DEF RowCopyOK
<1>7. QED
  BY <1>2, <1>3, <1>4, <1>5, <1>6 DEF CacheInv

LEMMA ResetRequestKeeps == ASSUME CacheInv, ResetRequest PROVE CacheInv'
<1>0. reset.pc = "request" /\ reset.url \in Pages /\ url' = reset.url /\ epoch' = epoch + 1 /\ reset' = NoReset
      /\ NoReset.pc = "idle" /\ NoReset.url = NoUrl /\ NoUrl \in Pages /\ epoch \in Nat
      /\ UNCHANGED <<page, readme, probed, render, pageEpoch, probedEpoch, latePage, lateProbe, resets, renders, cacheRestarts, putVars>>
  BY DEF ResetRequest, CacheInv, CacheTypeOK, NoReset, Pages, epochs
<1>10. held' = held /\ puts' = puts
  BY DEF ResetRequest, putVars
<1> DEFINE new == IF reset.url = NoUrl THEN {} ELSE {[url |-> reset.url, epoch |-> epoch + 1]}
<1>1. probing' = probing \cup new /\ new \subseteq [url : Urls, epoch : Nat]
  BY <1>0 DEF ResetRequest, Pages
<1>2. \A t \in new : t.epoch = epoch' /\ t.url = url'
  BY <1>0
<1>3. url' # NoUrl => \E t \in new : t.epoch = epoch'
  BY <1>0
<1> HIDE DEF new
<1>4. CacheTypeOK'
  BY <1>0, <1>1, <1>10 DEF CacheInv, CacheTypeOK, NoReset
<1>5. PageOK'
  BY <1>0 DEF CacheInv, PageOK, Target
<1>6. \A r \in Renders : RenderOK(render[r])'
  BY <1>0 DEF CacheInv, RenderOK, PageOK, CacheTypeOK
<1>7. ProbingOK'
  <2> SUFFICES ASSUME NEW t \in probing' PROVE t.epoch <= epoch' /\ (t.epoch = epoch' => t.url = url')
    BY DEF ProbingOK
  <2>1. CASE t \in probing
    BY <2>1, <1>0 DEF CacheInv, ProbingOK, CacheTypeOK
  <2>2. CASE t \in new
    BY <2>2, <1>0, <1>2
  <2>3. QED
    BY <2>1, <2>2, <1>1
<1>8. ProbedOK' /\ ProbesOK' /\ EpochsOK'
  BY <1>0, <1>1, <1>3 DEF ProbedOK, ProbesOK, EpochsOK, CacheInv, CacheTypeOK
<1>11. \A h \in Holders : RowCopyOK(held[h])'
  <2> SUFFICES ASSUME NEW h \in Holders PROVE RowCopyOK(held[h])'
    OBVIOUS
  <2>1. /\ held[h].probedEpoch \in Nat /\ probedEpoch \in Nat /\ RowCopyOK(held[h])
        /\ held[h].probedEpoch <= probedEpoch /\ probedEpoch <= epoch
    BY DEF CacheInv, CacheTypeOK, RowCopyOK, EpochsOK
  <2>2. held[h].probedEpoch # epoch + 1
    BY <1>0, <2>1
  <2>3. QED
    BY <1>0, <1>10, <2>1, <2>2 DEF RowCopyOK, Target
<1>9. QED
  BY <1>4, <1>5, <1>6, <1>7, <1>8, <1>11 DEF CacheInv

LEMMA ProbeDoneKeeps == ASSUME CacheInv, NEW t \in probing, ProbeDone(t) PROVE CacheInv'
<1>0. t \in [url : Urls, epoch : Nat] /\ t.url \in Pages /\ t.epoch \in Nat
  BY DEF CacheInv, CacheTypeOK, Pages
<1>1. CacheTypeOK'
  BY <1>0 DEF ProbeDone, CacheInv, CacheTypeOK, putVars
<1>2. PageOK' /\ \A r \in Renders : RenderOK(render[r])'
  BY DEF ProbeDone, CacheInv, PageOK, Target, RenderOK
<1>3. ProbingOK' /\ ProbesOK' /\ EpochsOK'
  <2>1. ProbingOK' /\ EpochsOK'
    BY <1>0 DEF ProbeDone, CacheInv, ProbingOK, EpochsOK, CacheTypeOK
  <2>2. ASSUME cacheRestarts = 0, probedEpoch' = epoch, ~lateProbe' PROVE t.url = url
    <3>1. ~(t.epoch < probedEpoch) /\ probedEpoch' = IF t.epoch > probedEpoch THEN t.epoch ELSE probedEpoch
      BY <2>2 DEF ProbeDone
    <3>2. t.epoch = epoch
      BY <1>0, <2>2, <3>1 DEF CacheInv, CacheTypeOK
    <3>3. QED
      BY <3>2 DEF CacheInv, ProbingOK
  <2>3. QED
    BY <2>1, <2>2 DEF ProbeDone, ProbesOK, EpochsOK
<1>6. \A h \in Holders : RowCopyOK(held[h])'
  BY <1>0 DEF ProbeDone, CacheInv, CacheTypeOK, RowCopyOK, Target, putVars
<1>4. ProbedOK'
  <2> SUFFICES ASSUME cacheRestarts = 0, url # NoUrl, \A u \in probing' : u.epoch # epoch
               PROVE  probedEpoch' = epoch /\ (~lateProbe' => probed' = url)
    BY DEF ProbedOK, ProbeDone
  <2>1. CASE t.epoch = epoch
    <3>1. probedEpoch \in Nat /\ probedEpoch <= t.epoch /\ t.url = url
      BY <2>1 DEF CacheInv, CacheTypeOK, ProbingOK, EpochsOK
    <3>2. probedEpoch' = t.epoch /\ probed' = url
      BY <1>0, <3>1 DEF ProbeDone
    <3>3. QED
      BY <2>1, <3>2
  <2>2. CASE t.epoch # epoch
    <3>1. \A u \in probing : u.epoch # epoch
      BY <2>2 DEF ProbeDone
    <3>2. probedEpoch = epoch /\ t.epoch < epoch
      BY <3>1, <2>2, <1>0 DEF CacheInv, ProbedOK, ProbingOK, CacheTypeOK
    <3>3. t.epoch < probedEpoch /\ ~(t.epoch > probedEpoch)
      BY <3>2, <1>0 DEF CacheInv, CacheTypeOK
    <3>4. lateProbe' /\ probedEpoch' = probedEpoch
      BY <3>3 DEF ProbeDone
    <3>5. QED
      BY <3>2, <3>4
  <2>3. QED
    BY <2>1, <2>2
<1>5. QED
  BY <1>1, <1>2, <1>3, <1>4, <1>6 DEF CacheInv

LEMMA RenderReadKeeps == ASSUME CacheInv, NEW r \in Renders, RenderRead(r) PROVE CacheInv'
<1> DEFINE c == [pc |-> "page", url |-> url, epoch |-> epoch, page |-> page, readme |-> readme, late |-> latePage]
<1>0. render' = [render EXCEPT ![r] = c] /\ renders' = renders + 1
      /\ UNCHANGED <<url, page, readme, probed, reset, probing, epoch, epochs, resets, cacheRestarts, putVars>>
  BY DEF RenderRead
<1>1. CacheTypeOK'
  BY <1>0 DEF CacheInv, CacheTypeOK, epochs, putVars
<1>2. RenderOK(c)
  BY DEF RenderOK, CacheInv, PageOK, Target, CacheTypeOK
<1> HIDE DEF c
<1>3. \A q \in Renders : RenderOK(render[q])'
  BY <1>0, <1>2 DEF CacheInv, RenderOK, CacheTypeOK, epochs
<1>4. PageOK' /\ ProbingOK' /\ ProbedOK' /\ ProbesOK' /\ EpochsOK'
  BY <1>0 DEF CacheInv, PageOK, Target, ProbingOK, ProbedOK, ProbesOK, EpochsOK, epochs
<1>5. QED
  BY <1>0, <1>1, <1>3, <1>4, SameRow DEF CacheInv, epochs, putVars

Copies == [pc : {"idle", "page", "repo"}, url : Pages, epoch : Nat, page : Pages, readme : BOOLEAN, late : BOOLEAN]

\* A rating page that puts its sources back, or not.
LEMMA RenderKeeps ==
  ASSUME CacheInv, NEW r \in Renders, NEW d \in Copies, RenderOK(d), render' = [render EXCEPT ![r] = d],
         page' \in Pages, readme' \in BOOLEAN, latePage' \in BOOLEAN,
         cacheRestarts = 0 /\ ~latePage' /\ page' # NoUrl =>
           (page' = page /\ ~latePage) \/ (page' = url /\ ~(render[r].epoch < pageEpoch)),
         UNCHANGED <<url, probed, reset, probing, epoch, pageEpoch, probedEpoch, lateProbe, resets, renders, cacheRestarts, putVars>>
  PROVE  CacheInv'
<1>1. CacheTypeOK'
  BY DEF CacheInv, CacheTypeOK, Copies, putVars
<1>2. PageOK'
  <2>1. cacheRestarts = 0 => pageEpoch = IF reset.pc = "request" THEN epoch + 1 ELSE epoch
    BY DEF CacheInv, PageOK
  <2> SUFFICES ASSUME cacheRestarts = 0, ~latePage', page' # NoUrl PROVE page' = Target
    BY <2>1 DEF PageOK, Target
  <2>2. CASE page' = page /\ ~latePage
    BY <2>2 DEF CacheInv, PageOK
  <2>3. CASE page' = url /\ ~(render[r].epoch < pageEpoch)
    <3>1. render[r].epoch <= epoch /\ render[r].epoch \in Nat /\ epoch \in Nat
      BY DEF CacheInv, RenderOK, CacheTypeOK
    <3>2. reset.pc # "request"
      BY <2>1, <2>3, <3>1
    <3>3. QED
      BY <2>3, <3>2 DEF Target
  <2>4. QED
    BY <2>2, <2>3
<1>3. \A q \in Renders : RenderOK(render[q])'
  <2> TAKE q \in Renders
  <2>1. render'[q] = IF q = r THEN d ELSE render[q]
    BY DEF CacheInv, CacheTypeOK
  <2>2. QED
    BY <2>1 DEF CacheInv, RenderOK
<1>4. ProbingOK' /\ ProbedOK' /\ ProbesOK' /\ EpochsOK'
  BY DEF CacheInv, ProbingOK, ProbedOK, ProbesOK, EpochsOK
<1>5. QED
  BY <1>1, <1>2, <1>3, <1>4, SameRow DEF CacheInv, putVars

LEMMA RenderCopy ==
  ASSUME CacheInv, NEW r \in Renders, render[r].pc # "idle"
  PROVE  /\ render[r] \in Copies /\ RenderOK(render[r])
         /\ render[r].url \in Pages /\ render[r].page \in Pages /\ render[r].readme \in BOOLEAN
         /\ render[r].late \in BOOLEAN /\ render[r].epoch \in Nat
         /\ page \in Pages /\ readme \in BOOLEAN /\ latePage \in BOOLEAN /\ pageEpoch \in Nat
         /\ cacheRestarts = 0 /\ ~(render[r].epoch < pageEpoch) =>
              render[r].url = url /\ (~render[r].late /\ render[r].page # NoUrl => render[r].page = url)
<1>1. render[r] \in Copies /\ RenderOK(render[r]) /\ pageEpoch \in Nat /\ epoch \in Nat
  BY DEF CacheInv, CacheTypeOK, Copies
<1>2. render[r].url \in Pages /\ render[r].page \in Pages /\ render[r].readme \in BOOLEAN
      /\ render[r].late \in BOOLEAN /\ render[r].epoch \in Nat
  BY <1>1 DEF Copies
<1>3. cacheRestarts = 0 /\ ~(render[r].epoch < pageEpoch) => render[r].epoch = pageEpoch
  BY <1>1, <1>2 DEF CacheInv, PageOK, RenderOK
<1>4. QED
  BY <1>1, <1>2, <1>3 DEF CacheInv, CacheTypeOK, RenderOK

LEMMA RenderPageKeeps ==
  ASSUME CacheInv, NEW r \in Renders, NEW readable \in BOOLEAN, RenderPage(r, readable)
  PROVE  CacheInv'
<1> DEFINE c == render[r]
           reads == c.page = NoUrl /\ c.url # NoUrl /\ readable
           d == IF reads THEN [c EXCEPT !.pc = "repo", !.page = c.url, !.late = FALSE] ELSE [c EXCEPT !.pc = "repo"]
<1>0. render[r].pc = "page"
  BY DEF RenderPage
<1>1. c \in Copies /\ RenderOK(c)
  BY <1>0, RenderCopy
<1>2. d \in Copies
  BY <1>1 DEF Copies
<1>3. RenderOK(d)
  BY <1>0, <1>1 DEF RenderOK, Copies
<1>4. render' = [render EXCEPT ![r] = d]
      /\ UNCHANGED <<url, probed, reset, probing, epoch, pageEpoch, probedEpoch, lateProbe, resets, renders, cacheRestarts, putVars>>
  BY DEF RenderPage
<1>5. page' \in Pages /\ readme' \in BOOLEAN /\ latePage' \in BOOLEAN
      /\ (cacheRestarts = 0 /\ ~latePage' /\ page' # NoUrl =>
           (page' = page /\ ~latePage) \/ (page' = url /\ ~(render[r].epoch < pageEpoch)))
  <2>1. CASE reads
    <3>1. page' = render[r].url /\ readme' = render[r].readme /\ latePage' \in BOOLEAN
      BY <2>1 DEF RenderPage, PatchSources
    <3>2. ~latePage' => ~(render[r].epoch < pageEpoch)
      BY <2>1 DEF RenderPage, PatchSources
    <3>3. readme' \in BOOLEAN /\ page' \in Pages
      BY <3>1, <1>0, RenderCopy
    <3>4. cacheRestarts = 0 /\ ~(render[r].epoch < pageEpoch) => page' = url
      BY <3>1, <1>0, RenderCopy
    <3>5. QED
      BY <3>1, <3>2, <3>3, <3>4
  <2>2. CASE ~reads
    <3>1. page' = page /\ readme' = readme /\ latePage' = latePage
      BY <2>2 DEF RenderPage, KeepSources
    <3>2. QED
      BY <3>1, <1>0, RenderCopy
  <2>3. QED
    BY <2>1, <2>2
<1> HIDE DEF d
<1>6. QED
  BY <1>2, <1>3, <1>4, <1>5, RenderKeeps

LEMMA RenderRepoKeeps ==
  ASSUME CacheInv, NEW r \in Renders, NEW about \in BOOLEAN, RenderRepo(r, about)
  PROVE  CacheInv'
<1>0. render[r].pc = "repo"
  BY DEF RenderRepo
<1>1. RenderOK(NoRender) /\ NoRender \in Copies
  BY NoRenderTyped DEF RenderOK, CacheInv, CacheTypeOK, Copies
<1>2. render' = [render EXCEPT ![r] = NoRender]
      /\ UNCHANGED <<url, probed, reset, probing, epoch, pageEpoch, probedEpoch, lateProbe, resets, renders, cacheRestarts, putVars>>
  BY DEF RenderRepo
<1>3. page' \in Pages /\ readme' \in BOOLEAN /\ latePage' \in BOOLEAN
      /\ (cacheRestarts = 0 /\ ~latePage' /\ page' # NoUrl =>
           (page' = page /\ ~latePage) \/ (page' = url /\ ~(render[r].epoch < pageEpoch)))
  <2>1. CASE ~render[r].readme /\ about
    <3>1. page' = render[r].page /\ readme' = TRUE /\ latePage' \in BOOLEAN
      BY <2>1 DEF RenderRepo, PatchSources
    <3>2. ~latePage' => ~render[r].late /\ ~(render[r].epoch < pageEpoch)
      BY <2>1, Zenon DEF RenderRepo, PatchSources
    <3>3. readme' \in BOOLEAN
      BY <3>1
    <3>4. page' \in Pages /\ (cacheRestarts = 0 /\ ~(render[r].epoch < pageEpoch) =>
            (~render[r].late /\ page' # NoUrl => page' = url))
      BY <3>1, <1>0, RenderCopy
    <3>5. QED
      BY <3>1, <3>2, <3>3, <3>4
  <2>2. CASE ~(~render[r].readme /\ about)
    <3>1. page' = page /\ readme' = readme /\ latePage' = latePage
      BY <2>2 DEF RenderRepo, KeepSources
    <3>2. QED
      BY <3>1, <1>0, RenderCopy
  <2>3. QED
    BY <2>1, <2>2
<1>4. QED
  BY <1>1, <1>2, <1>3, RenderKeeps

LEMMA RowReadKeeps == ASSUME CacheInv, NEW h \in Holders, RowRead(h) PROVE CacheInv'
<1> DEFINE c == [pc |-> "row", page |-> page, readme |-> readme, probed |-> probed, pageEpoch |-> pageEpoch,
                 probedEpoch |-> probedEpoch, latePage |-> latePage, lateProbe |-> lateProbe]
<1>1. /\ held' = [held EXCEPT ![h] = c] /\ puts' = puts + 1
      /\ UNCHANGED <<url, page, readme, probed, reset, render, probing, epoch, epochs,
                     resets, renders, cacheRestarts>>
  BY DEF RowRead
<1>2. CacheTypeOK'
  BY <1>1 DEF CacheInv, CacheTypeOK, epochs
<1>3. RowCopyOK(c)
  BY DEF RowCopyOK, CacheInv, CacheTypeOK, PageOK, ProbesOK, EpochsOK
<1> HIDE DEF c
<1>4. \A x \in Holders : RowCopyOK(held[x])'
  BY <1>1, <1>3 DEF CacheInv, CacheTypeOK, RowCopyOK, Target, epochs
<1>5. PageOK' /\ (\A r \in Renders : RenderOK(render[r])') /\ ProbingOK' /\ ProbedOK' /\ ProbesOK'
      /\ EpochsOK'
  BY <1>1 DEF CacheInv, PageOK, RenderOK, Target, ProbingOK, ProbedOK, ProbesOK, EpochsOK, epochs
<1>6. QED
  BY <1>2, <1>4, <1>5 DEF CacheInv

\* What is put back is of the request unless something newer had been written.
LEMMA RowPutKeeps == ASSUME CacheInv, NEW h \in Holders, RowPut(h) PROVE CacheInv'
<1> DEFINE c == held[h]
<1>1. /\ c.pc = "row" /\ page' = c.page /\ readme' = c.readme /\ probed' = c.probed
      /\ latePage' = (c.latePage \/ c.pageEpoch < pageEpoch)
      /\ lateProbe' = (c.lateProbe \/ c.probedEpoch < probedEpoch)
      /\ held' = [held EXCEPT ![h] = NoRow]
      /\ UNCHANGED <<url, reset, render, probing, epoch, pageEpoch, probedEpoch,
                     resets, renders, puts, cacheRestarts>>
  BY DEF RowPut
<1>2. /\ c.page \in Pages /\ c.readme \in BOOLEAN /\ c.probed \in Pages
      /\ c.pageEpoch \in Nat /\ c.probedEpoch \in Nat /\ c.latePage \in BOOLEAN /\ c.lateProbe \in BOOLEAN
      /\ RowCopyOK(c) /\ pageEpoch \in Nat /\ probedEpoch \in Nat /\ epoch \in Nat
  BY DEF CacheInv, CacheTypeOK
<1> HIDE DEF c
<1>3. CacheTypeOK'
  <2>1. page' \in Pages /\ readme' \in BOOLEAN /\ probed' \in Pages
    BY <1>1, <1>2
  <2>2. latePage' \in BOOLEAN /\ lateProbe' \in BOOLEAN
    BY <1>1, <1>2
  <2>3. held' \in [Holders -> [pc : {"idle", "row"}, page : Pages, readme : BOOLEAN, probed : Pages,
                               pageEpoch : Nat, probedEpoch : Nat, latePage : BOOLEAN, lateProbe : BOOLEAN]]
    BY <1>1, NoRowTyped DEF CacheInv, CacheTypeOK
  <2>4. QED
    BY <1>1, <2>1, <2>2, <2>3 DEF CacheInv, CacheTypeOK
<1>4. ~latePage' => c.pageEpoch = pageEpoch /\ ~c.latePage
  <2>1. ~latePage' => ~c.latePage /\ ~(c.pageEpoch < pageEpoch)
    BY <1>1, Zenon
  <2>2. c.pageEpoch <= pageEpoch
    BY <1>2 DEF RowCopyOK
  <2>3. QED
    BY <1>2, <2>1, <2>2
<1>5. ~lateProbe' => c.probedEpoch = probedEpoch /\ ~c.lateProbe
  <2>1. ~lateProbe' => ~c.lateProbe /\ ~(c.probedEpoch < probedEpoch)
    BY <1>1, Zenon
  <2>2. c.probedEpoch <= probedEpoch
    BY <1>2 DEF RowCopyOK
  <2>3. QED
    BY <1>2, <2>1, <2>2
<1>6. PageOK'
  BY <1>1, <1>2, <1>4 DEF CacheInv, PageOK, Target, RowCopyOK
<1>7. ProbingOK' /\ ProbedOK' /\ ProbesOK' /\ EpochsOK'
  BY <1>1, <1>2, <1>5 DEF CacheInv, ProbingOK, ProbedOK, ProbesOK, EpochsOK, RowCopyOK
<1>8. \A r \in Renders : RenderOK(render[r])'
  BY <1>1 DEF CacheInv, RenderOK
<1>9. \A x \in Holders : RowCopyOK(held[x])'
  BY <1>1, <1>2, NoRowTyped DEF CacheInv, CacheTypeOK, RowCopyOK, Target
<1>10. QED
  BY <1>3, <1>6, <1>7, <1>8, <1>9 DEF CacheInv

LEMMA CacheRestartKeeps == ASSUME CacheInv, CacheRestart PROVE CacheInv'
<1>1. CacheTypeOK'
  BY NoRenderTyped, NoRowTyped DEF CacheRestart, CacheInv, CacheTypeOK, NoReset, Pages, epochs
<1>2. cacheRestarts' # 0
  BY DEF CacheRestart, CacheInv, CacheTypeOK
<1>3. \A r \in Renders : RenderOK(render[r])'
  BY <1>2, NoRenderTyped DEF CacheRestart, RenderOK, CacheInv, CacheTypeOK
<1>4. PageOK' /\ ProbingOK' /\ ProbedOK' /\ ProbesOK' /\ EpochsOK'
  BY <1>2 DEF CacheRestart, PageOK, ProbingOK, ProbedOK, ProbesOK, EpochsOK, CacheInv, epochs
<1>6. \A h \in Holders : RowCopyOK(held[h])'
  BY <1>2, NoRowTyped DEF CacheRestart, RowCopyOK, CacheInv, CacheTypeOK, epochs
<1>5. QED
  BY <1>1, <1>3, <1>4, <1>6 DEF CacheInv

LEMMA CacheInvNext == CacheInv /\ [CacheNext]_cacheVars => CacheInv'
<1> SUFFICES ASSUME CacheInv, [CacheNext]_cacheVars PROVE CacheInv'
  OBVIOUS
<1>1. CASE UNCHANGED cacheVars
  BY <1>1 DEF cacheVars, epochs, putVars, CacheInv, CacheTypeOK, PageOK, Target, RenderOK, ProbingOK,
              ProbedOK, ProbesOK, EpochsOK, RowCopyOK
<1>2. CASE CacheNext
  BY <1>2, ResetReadKeeps, ResetSourcesKeeps, ResetRequestKeeps, ProbeDoneKeeps, RenderReadKeeps,
     RenderPageKeeps, RenderRepoKeeps, RowReadKeeps, RowPutKeeps, CacheRestartKeeps DEF CacheNext
<1>3. QED
  BY <1>1, <1>2
-----------------------------------------------------------------------------
LEMMA CacheInvAlways == CacheSpec => []CacheInv
BY CacheInvInit, CacheInvNext, PTL DEF CacheSpec

\* Every variable keeps its type.
THEOREM CacheTyped == CacheSpec => []CacheTypeOK
<1>1. CacheInv => CacheTypeOK
  BY DEF CacheInv
<1>2. QED
  BY <1>1, CacheInvAlways, PTL

\* However many rating pages fill in the sources while the operator resets them, raters see the
\* page of the request unless what was written last, by one of them or with the whole row, had
\* been read before the reset.
THEOREM RatersSeeThePage == CacheSpec => []ShownIsAsked
<1>1. CacheInv => ShownIsAsked
  BY DEF CacheInv, PageOK, Target, ShownIsAsked, Shown
<1>2. QED
  BY <1>1, CacheInvAlways, PTL

\* However many probe threads of however many resets end in whatever order, what is stored at the
\* end is about the page of the request unless an older thread was the last to end or a put of
\* the whole row undid it.
THEOREM ProbesAreOfThePage == CacheSpec => []ProbedIsAsked
<1>1. CacheInv => ProbedIsAsked
  BY DEF CacheInv, ProbedOK, ProbedIsAsked
<1>2. QED
  BY <1>1, CacheInvAlways, PTL

-----------------------------------------------------------------------------
(* The Replay handle, for any number of threads, flows, polls and          *)
(* redeploys.  A row is good when a change it shows was counted after its  *)
(* last version, and that version was told to Replay: the next poll then   *)
(* counts after it.  Copies must be good too, for any may be put back.     *)

LastTold(r) == r.versions # <<>> => r.versions[Len(r.versions)].n <= told
Good(r) == DeltaMeasured(r) /\ LastTold(r)
AllGood == Good(jobRow) /\ \A t \in Workers : Good(copy[t])

\* Until the project is open nobody but the launch works on the handle.
Launching ==
  step[Intake] # "idle" =>
    /\ ~jobRow.opened /\ jobRow.versions = <<>> /\ told = 0
    /\ step[Intake] = "put" => copy[Intake].versions = <<>>
    /\ \A t \in Workers \ {Intake} : step[t] = "idle"

ReplayInv == ReplayTypeOK /\ AllGood /\ Launching
-----------------------------------------------------------------------------
(* Lemmas.                                                                 *)

\* What the operators of the handle make of a row.
LEMMA RowOperators ==
  ASSUME NEW r \in RowType, told \in Nat, tick \in Nat, NEW S \in SUBSET Flows, ran \subseteq Flows
  PROVE  /\ Polled(r) \in RowType /\ Polled(r).versions = r.versions /\ Polled(r).bugs = told
         /\ Heard(r, S) \in RowType /\ Heard(r, S).versions = r.versions /\ Heard(r, S).bugs = r.bugs
         /\ Versioned(r) \in RowType /\ Versioned(r).bugs = r.bugs /\ Versioned(r).versions # <<>>
         /\ Versioned(r).versions[Len(Versioned(r).versions)] = [n |-> told + 1, openBefore |-> r.bugs]
         /\ WithHandle(r, Handle(S)) \in RowType /\ WithHandle(r, Handle(S)).versions = <<>>
<1>1. Polled(r) \in RowType /\ Polled(r).versions = r.versions /\ Polled(r).bugs = told
  BY DEF Polled, RowType
<1>2. Heard(r, S) \in RowType /\ Heard(r, S).versions = r.versions /\ Heard(r, S).bugs = r.bugs
  <2> DEFINE j == [f \in Flows |->
        CASE r.journeys[f] = "absent" -> "absent"
          [] f \in S -> IF f \in ran THEN "tested" ELSE "unknown"
          [] OTHER -> IF r.journeys[f] = "none" THEN "unknown" ELSE r.journeys[f]]
  <2>1. j \in [Flows -> Results]
    BY DEF RowType, Results
  <2>2. Heard(r, S) = [r EXCEPT !.journeys = j]
    BY DEF Heard
  <2> HIDE DEF j
  <2>3. QED
    BY <2>1, <2>2 DEF RowType
<1>3. /\ Versioned(r) \in RowType /\ Versioned(r).bugs = r.bugs /\ Versioned(r).versions # <<>>
      /\ Versioned(r).versions[Len(Versioned(r).versions)] = [n |-> told + 1, openBefore |-> r.bugs]
  <2> DEFINE V == [n : Nat, openBefore : Nat \cup {NoBugs}]
             v == [n |-> told + 1, openBefore |-> r.bugs]
             w == Append(r.versions, v)
  <2>1. v \in V /\ r.versions \in Seq(V)
    BY DEF RowType
  <2>2. Versioned(r) = [r EXCEPT !.versions = w, !.polled = Never]
    BY DEF Versioned
  <2> HIDE DEF v, V
  <2>3. w \in Seq(V) /\ w[Len(w)] = v /\ w # <<>>
    BY <2>1
  <2> HIDE DEF w
  <2>4. Versioned(r) \in RowType /\ Versioned(r).bugs = r.bugs /\ Versioned(r).versions = w
    BY <2>2, <2>3 DEF RowType, V
  <2>5. QED
    BY <2>3, <2>4 DEF v
<1>4. WithHandle(r, Handle(S)) \in RowType /\ WithHandle(r, Handle(S)).versions = <<>>
  <2> DEFINE j == [f \in Flows |-> IF f \in S THEN "none" ELSE "absent"]
  <2>1. j \in [Flows -> Results] /\ <<>> \in Seq([n : Nat, openBefore : Nat \cup {NoBugs}])
    BY DEF Results
  <2>2. WithHandle(r, Handle(S)) =
          [r EXCEPT !.opened = TRUE, !.polled = Never, !.bugs = NoBugs, !.versions = <<>>, !.journeys = j]
    BY DEF WithHandle, Handle
  <2> HIDE DEF j
  <2>3. QED
    BY <2>1, <2>2 DEF RowType
<1>5. QED
  BY <1>1, <1>2, <1>3, <1>4

LEMMA NoHandleGood == NoHandle \in RowType /\ Good(NoHandle) /\ NoHandle.versions = <<>> /\ ~NoHandle.opened
BY DEF NoHandle, RowType, Results, Good, DeltaMeasured, LastTold

LEMMA ReplayInvInit == ReplayInit => ReplayInv
<1> SUFFICES ASSUME ReplayInit PROVE ReplayInv
  OBVIOUS
<1>1. ReplayTypeOK
  BY NoHandleGood DEF ReplayInit, ReplayTypeOK
<1>2. AllGood
  BY NoHandleGood DEF ReplayInit, AllGood
<1>3. Launching
  BY NoHandleGood, WorkerAssumption DEF ReplayInit, Launching, Workers
<1>4. QED
  BY <1>1, <1>2, <1>3 DEF ReplayInv
-----------------------------------------------------------------------------
(* The steps.                                                              *)

\* The shape of a row before and after it is put.
LEMMA PutKeeps ==
  ASSUME ReplayInv, NEW t \in Workers, Put(t, copy[t]), Go(t, "idle"), UNCHANGED <<world, calls>>,
         step[t] = "put"
  PROVE  ReplayInv'
<1>1. ReplayTypeOK'
  BY NoHandleGood DEF ReplayInv, ReplayTypeOK, Put, Go, world
<1>2. AllGood'
  BY NoHandleGood DEF ReplayInv, AllGood, Put, Good, DeltaMeasured, LastTold, world, ReplayTypeOK
<1>3. Launching'
  <2>1. CASE t = Intake
    BY <2>1 DEF ReplayInv, Launching, Go, ReplayTypeOK
  <2>2. CASE t # Intake
    BY <2>2 DEF ReplayInv, Launching, Go, ReplayTypeOK
  <2>3. QED
    BY <2>1, <2>2
<1>4. QED
  BY <1>1, <1>2, <1>3 DEF ReplayInv

\* The launch works on its copy, and the others wait for it.
LEMMA LaunchKeeps ==
  ASSUME ReplayInv, NEW S \in SUBSET Flows, Launch(S)
  PROVE  ReplayInv'
<1> DEFINE r == WithHandle(jobRow, Handle(S))
<1>0. Intake \in Workers /\ jobRow \in RowType
  BY WorkerAssumption DEF Workers, ReplayInv, ReplayTypeOK
<1>1. r \in RowType /\ r.versions = <<>>
  BY <1>0, RowOperators DEF ReplayInv, ReplayTypeOK
<1>2. copy' = [copy EXCEPT ![Intake] = r]
  BY DEF Launch
<1> HIDE DEF r
<1>3. ReplayTypeOK'
  BY <1>1, <1>2 DEF Launch, ReplayInv, ReplayTypeOK, Go, world
<1>4. AllGood'
  BY <1>1, <1>2 DEF Launch, ReplayInv, AllGood, Good, DeltaMeasured, LastTold, world, ReplayTypeOK
<1>5. Launching'
  BY <1>0, <1>1, <1>2 DEF Launch, ReplayInv, Launching, Go, world, ReplayTypeOK
<1>6. QED
  BY <1>3, <1>4, <1>5 DEF ReplayInv

\* A step of a verdict or a redeploy that leaves the row and the others alone, and tells
\* Replay of no version.
LEMMA CopyKeeps ==
  ASSUME ReplayInv, NEW t \in Refreshers \cup Redeploys, NEW r \in RowType, NEW p,
         p \in {"idle", "poll", "journeys", "version", "put"},
         step[Intake] = "idle", Good(r), copy' = [copy EXCEPT ![t] = r], Go(t, p),
         UNCHANGED <<jobRow, world>>, calls' \in Nat
  PROVE  ReplayInv'
<1>0. t \in Workers /\ t # Intake
  BY WorkerAssumption DEF Workers
<1>1. ReplayTypeOK'
  BY <1>0 DEF ReplayInv, ReplayTypeOK, Go, world
<1>2. AllGood'
  BY <1>0 DEF ReplayInv, AllGood, Good, DeltaMeasured, LastTold, world, ReplayTypeOK
<1>3. Launching'
  BY <1>0 DEF ReplayInv, Launching, Go, world, ReplayTypeOK
<1>4. QED
  BY <1>1, <1>2, <1>3 DEF ReplayInv

\* Nobody but the launch is at work while it is.
LEMMA WorkerAlone ==
  ASSUME ReplayInv, NEW t \in Refreshers \cup Redeploys, step[t] # "idle" \/ jobRow.opened
  PROVE  step[Intake] = "idle" /\ t \in Workers /\ copy[t] \in RowType /\ Good(copy[t])
BY WorkerAssumption DEF ReplayInv, Launching, Workers, ReplayTypeOK, AllGood

LEMMA VersionKeeps ==
  ASSUME ReplayInv, NEW t \in Redeploys, PostVersion(t)
  PROVE  ReplayInv'
<1> DEFINE r == Versioned(copy[t])
           v == [n |-> told + 1, openBefore |-> copy[t].bugs]
<1>0. t \in Workers /\ t # Intake /\ step[Intake] = "idle" /\ copy[t] \in RowType
      /\ told \in Nat /\ told' = told + 1
  BY WorkerAlone, WorkerAssumption DEF PostVersion, ReplayInv, ReplayTypeOK
<1>1. r \in RowType /\ r.bugs = copy[t].bugs /\ r.versions # <<>> /\ r.versions[Len(r.versions)] = v
  BY <1>0, RowOperators DEF ReplayInv, ReplayTypeOK
<1>2. copy' = [copy EXCEPT ![t] = r]
  BY DEF PostVersion
<1> HIDE DEF r
<1>3. ReplayTypeOK'
  BY <1>0, <1>1, <1>2 DEF PostVersion, ReplayInv, ReplayTypeOK, Go
<1>4. AllGood'
  <2>1. \A h \in RowType : Good(h) => Good(h)'
    <3> SUFFICES ASSUME NEW h \in RowType, Good(h) PROVE Good(h)'
      OBVIOUS
    <3>1. h.versions # <<>> => h.versions[Len(h.versions)].n \in Nat
      <4> DEFINE V == [n : Nat, openBefore : Nat \cup {NoBugs}]
      <4>1. h.versions \in Seq(V)
        BY DEF RowType
      <4>2. h.versions # <<>> => h.versions[Len(h.versions)] \in V
        <5> HIDE DEF V
        <5>1. QED
          BY <4>1
      <4>3. QED
        BY <4>2
    <3>2. QED
      BY <1>0, <3>1 DEF Good, DeltaMeasured, LastTold
  <2>2. Good(jobRow)' /\ \A u \in Workers \ {t} : Good(copy[u])'
    BY <2>1, <1>2 DEF ReplayInv, AllGood, ReplayTypeOK, PostVersion, Good, DeltaMeasured, LastTold
  <2>3. Good(copy[t])'
    BY <1>0, <1>1, <1>2 DEF Good, DeltaMeasured, LastTold, ReplayInv, ReplayTypeOK
  <2>4. QED
    BY <2>2, <2>3 DEF AllGood
<1>5. Launching'
  BY <1>0 DEF PostVersion, Go, Launching, ReplayInv, ReplayTypeOK
<1>6. QED
  BY <1>3, <1>4, <1>5 DEF ReplayInv

LEMMA ReplayInvNext == ReplayInv /\ [ReplayNext]_replayVars => ReplayInv'
<1> SUFFICES ASSUME ReplayInv, [ReplayNext]_replayVars PROVE ReplayInv'
  OBVIOUS
<1>1. CASE LaunchFails
  BY <1>1 DEF LaunchFails, Go, world, ReplayInv, ReplayTypeOK, AllGood, Good, DeltaMeasured, LastTold, Launching
<1>2. CASE IntakePut
  BY <1>2, PutKeeps DEF IntakePut, Workers
<1>3. ASSUME NEW S \in SUBSET Flows, Launch(S) PROVE ReplayInv'
  BY <1>3, LaunchKeeps
<1>4. ASSUME NEW t \in Refreshers, VerdictRead(t) PROVE ReplayInv'
  <2>1. step[Intake] = "idle" /\ jobRow \in RowType /\ Good(jobRow) /\ calls' \in Nat
    BY <1>4, WorkerAlone DEF VerdictRead, Due, ReplayInv, AllGood, ReplayTypeOK
  <2>2. QED
    BY <1>4, <2>1, CopyKeeps DEF VerdictRead, Read
<1>5. ASSUME NEW t \in Refreshers, PollFails(t) PROVE ReplayInv'
  BY <1>5, WorkerAlone, CopyKeeps, NoHandleGood DEF PollFails, ReplayInv, ReplayTypeOK
<1>6. ASSUME NEW t \in Refreshers, Poll(t) PROVE ReplayInv'
  <2> DEFINE r == Polled(copy[t])
  <2>1. step[Intake] = "idle" /\ t \in Workers /\ copy[t] \in RowType /\ Good(copy[t])
    BY <1>6, WorkerAlone DEF Poll
  <2>2. r \in RowType /\ r.versions = copy[t].versions /\ r.bugs = told
    BY <2>1, RowOperators DEF ReplayInv, ReplayTypeOK
  <2>3. Good(r)
    BY <2>1, <2>2, NeverAssumption DEF Good, DeltaMeasured, LastTold, ReplayInv, ReplayTypeOK
  <2>4. copy' = [copy EXCEPT ![t] = r]
    BY <1>6 DEF Poll, ReplayInv, ReplayTypeOK
  <2> HIDE DEF r
  <2>5. QED
    BY <1>6, <2>1, <2>2, <2>3, <2>4, CopyKeeps DEF Poll, ReplayInv, ReplayTypeOK
<1>7. ASSUME NEW t \in Refreshers, NEW S \in SUBSET Flows, PollJourneys(t, S) PROVE ReplayInv'
  <2> DEFINE r == Heard(copy[t], S)
  <2>1. step[Intake] = "idle" /\ t \in Workers /\ copy[t] \in RowType /\ Good(copy[t])
    BY <1>7, WorkerAlone DEF PollJourneys
  <2>2. r \in RowType /\ r.versions = copy[t].versions /\ r.bugs = copy[t].bugs
    BY <2>1, RowOperators DEF ReplayInv, ReplayTypeOK
  <2>3. Good(r)
    BY <2>1, <2>2 DEF Good, DeltaMeasured, LastTold
  <2>4. copy' = [copy EXCEPT ![t] = r]
    BY <1>7 DEF PollJourneys, ReplayInv, ReplayTypeOK
  <2> HIDE DEF r
  <2>5. QED
    BY <1>7, <2>1, <2>2, <2>3, <2>4, CopyKeeps DEF PollJourneys, ReplayInv, ReplayTypeOK
<1>8. ASSUME NEW t \in Refreshers, VerdictPut(t) PROVE ReplayInv'
  BY <1>8, PutKeeps DEF VerdictPut, Workers
<1>9. ASSUME NEW t \in Redeploys, RedeployRead(t) PROVE ReplayInv'
  <2>1. step[Intake] = "idle" /\ jobRow \in RowType /\ Good(jobRow) /\ calls' \in Nat
    BY <1>9, WorkerAlone DEF RedeployRead, ReplayInv, AllGood, ReplayTypeOK
  <2>2. QED
    BY <1>9, <2>1, CopyKeeps DEF RedeployRead, Read
<1>10. ASSUME NEW t \in Redeploys, PostVersion(t) PROVE ReplayInv'
  BY <1>10, VersionKeeps
<1>11. ASSUME NEW t \in Redeploys, VersionRefused(t) PROVE ReplayInv'
  <2>1. step[Intake] = "idle" /\ t \in Workers /\ copy[t] \in RowType /\ Good(copy[t])
    BY <1>11, WorkerAlone DEF VersionRefused
  <2>2. copy' = [copy EXCEPT ![t] = copy[t]]
    BY <1>11, <2>1 DEF VersionRefused, ReplayInv, ReplayTypeOK
  <2>3. QED
    BY <1>11, <2>1, <2>2, CopyKeeps DEF VersionRefused, ReplayInv, ReplayTypeOK
<1>12. ASSUME NEW t \in Redeploys, RedeployPut(t) PROVE ReplayInv'
  BY <1>12, PutKeeps DEF RedeployPut, Workers
<1>13. CASE Tick \/ \E f \in Flows : Run(f)
  <2>1. UNCHANGED <<jobRow, copy, step, told, calls>> /\ ReplayTypeOK'
    BY <1>13 DEF Tick, Run, ReplayInv, ReplayTypeOK
  <2>2. QED
    BY <2>1 DEF ReplayInv, AllGood, Good, DeltaMeasured, LastTold, Launching
<1>14. CASE UNCHANGED replayVars
  BY <1>14 DEF replayVars, world, ReplayInv, ReplayTypeOK, AllGood, Good, DeltaMeasured, LastTold, Launching
<1>15. QED
  BY <1>1, <1>2, <1>3, <1>4, <1>5, <1>6, <1>7, <1>8, <1>9, <1>10, <1>11, <1>12, <1>13, <1>14 DEF ReplayNext
-----------------------------------------------------------------------------
(* The theorems.                                                           *)

LEMMA ReplayInvAlways == ReplaySpec => []ReplayInv
BY ReplayInvInit, ReplayInvNext, PTL DEF ReplaySpec

\* Every variable keeps its type.
THEOREM ReplayTyped == ReplaySpec => []ReplayTypeOK
<1>1. ReplayInv => ReplayTypeOK
  BY DEF ReplayInv
<1>2. QED
  BY <1>1, ReplayInvAlways, PTL

\* However the threads of a verdict and a redeploy overtake each other and whatever stale
\* row is put back, a change in the open bugs of a version was counted after Replay was
\* told of that version.  That there is a new count at all is not promised: after a
\* redeploy whose poll fails the old counts are shown, and no change.
THEOREM DeltaIsOfTheVersion == ReplaySpec => []DeltaIsMeasured
<1>1. ReplayInv => DeltaIsMeasured
  BY DEF ReplayInv, AllGood, Good, DeltaIsMeasured
<1>2. QED
  BY <1>1, ReplayInvAlways, PTL

-----------------------------------------------------------------------------
(* Sums.  MapThenSumSet is a recursion over the subsets of a set, which    *)
(* exists when the set is finite; what it returns is shown with the        *)
(* smallest subset it could be wrong for.                                  *)

Choice(s) == CHOOSE x \in s : TRUE
Iterates(g, w, D) == g = [s \in D |-> IF s = {} THEN 0 ELSE w[Choice(s)] + g[s \ {Choice(s)}]]
UpTo(C, n) == {s \in SUBSET C : Cardinality(s) <= n}

LEMMA ChoiceFacts ==
  ASSUME NEW C, IsFiniteSet(C), NEW s \in SUBSET C, s # {}
  PROVE  /\ Choice(s) \in s /\ s \ {Choice(s)} \in SUBSET C
         /\ Cardinality(s) \in Nat /\ Cardinality(s) > 0 /\ Cardinality(s \ {Choice(s)}) = Cardinality(s) - 1
<1>1. Choice(s) \in s
  BY DEF Choice
<1>2. IsFiniteSet(s) /\ Cardinality(s) \in Nat /\ Cardinality(s) # 0
  BY FS_Subset, FS_CardinalityType, FS_EmptySet
<1>3. Cardinality(s \ {Choice(s)}) = Cardinality(s) - 1
  BY <1>1, <1>2, FS_RemoveElement
<1>4. Cardinality(s) > 0
  BY <1>2
<1>5. s \ {Choice(s)} \in SUBSET C
  OBVIOUS
<1>6. QED
  BY <1>1, <1>2, <1>3, <1>4, <1>5

\* The least element of a set of numbers: induction with no predicate to instantiate.
LEMMA LeastOf ==
  ASSUME NEW S \in SUBSET Nat, S # {}
  PROVE  \E m \in S : \A x \in S : m <= x
<1>1. PICK m \in S : \A x \in S : ~(<<x, m>> \in OpToRel(<, Nat))
  BY WFMin, NatLessThanWellFounded
<1>2. \A x \in S : <<x, m>> \in OpToRel(<, Nat) <=> x < m
  BY DEF OpToRel
<1>3. \A x \in S : x \in Nat /\ m \in Nat /\ ~(x < m)
  BY <1>1, <1>2
<1>4. \A x \in S : m <= x
  BY <1>3
<1>5. QED
  BY <1>4

LEMMA IterateExists ==
  ASSUME NEW C, IsFiniteSet(C), NEW w
  PROVE  \E g : Iterates(g, w, SUBSET C)
<1> DEFINE missing == {n \in Nat : ~ \E g : Iterates(g, w, UpTo(C, n))}
<1>1. missing = {}
  <2>1. SUFFICES ASSUME missing # {} PROVE FALSE
    OBVIOUS
  <2>2. PICK m \in missing : \A x \in missing : m <= x
    BY <2>1, LeastOf
  <2>3. m # 0
    <3>1. SUFFICES ASSUME m = 0 PROVE FALSE
      OBVIOUS
    <3> DEFINE g == [s \in UpTo(C, 0) |-> 0]
    <3>2. \A s \in UpTo(C, 0) : s = {}
      <4>1. ASSUME NEW s \in UpTo(C, 0), s # {} PROVE FALSE
        <5>1. s \in SUBSET C /\ Cardinality(s) <= 0
          BY DEF UpTo
        <5>2. Cardinality(s) \in Nat /\ Cardinality(s) > 0
          BY <4>1, <5>1, ChoiceFacts
        <5>3. QED
          BY <5>1, <5>2
      <4>2. QED
        BY <4>1
    <3>3. Iterates(g, w, UpTo(C, 0))
      BY <3>2 DEF Iterates
    <3> HIDE DEF g
    <3>4. \E f : Iterates(f, w, UpTo(C, 0))
      BY <3>3
    <3>5. ~ \E f : Iterates(f, w, UpTo(C, m))
      BY <2>2
    <3>6. QED
      BY <3>1, <3>4, <3>5
  <2>4. m \in Nat /\ m - 1 \in Nat /\ m - 1 \notin missing
    BY <2>2, <2>3
  <2>5. PICK h : Iterates(h, w, UpTo(C, m - 1))
    BY <2>4
  <2> DEFINE unroll(s) == IF s = {} THEN 0 ELSE w[Choice(s)] + h[s \ {Choice(s)}]
             g == [s \in UpTo(C, m) |-> unroll(s)]
  <2>6. \A s \in UpTo(C, m - 1) : s \in UpTo(C, m) /\ g[s] = h[s]
    <3>1. ASSUME NEW s \in UpTo(C, m - 1) PROVE s \in UpTo(C, m) /\ g[s] = h[s]
      <4>1. Cardinality(s) \in Nat /\ Cardinality(s) <= m - 1 /\ s \in SUBSET C
        BY FS_Subset, FS_CardinalityType DEF UpTo
      <4>2. s \in UpTo(C, m)
        BY <2>4, <4>1 DEF UpTo
      <4>3. h[s] = unroll(s)
        BY <2>5 DEF Iterates
      <4>4. QED
        BY <4>2, <4>3
    <3>2. QED
      BY <3>1
  <2>7. \A s \in UpTo(C, m) : s # {} => s \ {Choice(s)} \in UpTo(C, m - 1)
    <3>1. ASSUME NEW s \in UpTo(C, m), s # {} PROVE s \ {Choice(s)} \in UpTo(C, m - 1)
      <4>1. s \in SUBSET C /\ Cardinality(s) <= m
        BY DEF UpTo
      <4>2. /\ s \ {Choice(s)} \in SUBSET C /\ Cardinality(s) \in Nat
            /\ Cardinality(s \ {Choice(s)}) = Cardinality(s) - 1
        BY <3>1, <4>1, ChoiceFacts
      <4>3. QED
        BY <2>4, <4>1, <4>2 DEF UpTo
    <3>2. QED
      BY <3>1
  <2>8. Iterates(g, w, UpTo(C, m))
    <3>1. \A s \in UpTo(C, m) : unroll(s) = IF s = {} THEN 0 ELSE w[Choice(s)] + g[s \ {Choice(s)}]
      BY <2>6, <2>7
    <3>2. QED
      BY <3>1 DEF Iterates
  <2>9. QED
    BY <2>2, <2>8
<1>2. Cardinality(C) \in Nat /\ UpTo(C, Cardinality(C)) = SUBSET C
  BY FS_Subset, FS_CardinalityType DEF UpTo
<1>3. Cardinality(C) \notin missing
  BY <1>1
<1>4. \E g : Iterates(g, w, UpTo(C, Cardinality(C)))
  BY <1>2, <1>3
<1>5. QED
  BY <1>2, <1>4

-----------------------------------------------------------------------------
(* Probes and votes, for any site, budget and claims.  Whatever phase the  *)
(* visit is in, what the phases before it were to look at was seen or is   *)
(* unknown (VisitOK); so when it is over and a claim has no unknown check, *)
(* all were seen, and a finding stands for each flaw (FoundOK).            *)

AuxSeen(n) == \A i \in 1 .. n : AuxOrder[i] \in seen \cup unknown

FoundOK ==
  /\ found \in [Checks -> Nat] /\ flawed \subseteq Checks
  /\ \A k \in Checks : found[k] > 0 <=> k \in flawed

VisitOK ==
  /\ at \in Nat /\ at > 0
  /\ phase = "root" => spaces = {}
  /\ phase \in {"pages", "links", "aux", "scan"} => spaces # {}
  /\ spaces # {} => HeadChecks \cup PageChecks \subseteq seen
  /\ phase \in {"aux", "scan", "done"} /\ spaces # {} => LinkCheck \in seen \cup unknown
  /\ phase = "aux" => at <= Len(AuxOrder) + 1 /\ AuxSeen(at - 1)
  /\ phase \in {"scan", "done"} /\ spaces # {} => AuxSeen(Len(AuxOrder))
  /\ spaces \subseteq {"audit", "live", "agentready"}

VotesTyped == votes \in [ReportClaims -> [yes : Nat, no : Nat]]

ReportInv == FoundOK /\ VisitOK /\ VotesTyped /\ (stored => phase = "done")

LEMMA AuxFacts ==
  /\ Len(AuxOrder) \in Nat
  /\ \A i \in 1 .. Len(AuxOrder) : AuxOrder[i] \in AuxChecks
  /\ \A k \in AuxChecks : \E i \in 1 .. Len(AuxOrder) : AuxOrder[i] = k
BY AuxAssumption DEF AuxChecks, ToSet

LEMMA FindsKeeps ==
  ASSUME FoundOK, NEW S \in SUBSET Checks, Finds(S)
  PROVE  FoundOK'
<1>1. /\ found' = [c \in Checks |-> found[c] + (IF c \in S THEN 1 ELSE 0)]
      /\ flawed' = flawed \cup S
  BY DEF Finds
<1>2. \A k \in Checks : found[k] \in Nat /\ (found[k] > 0 <=> k \in flawed)
  BY DEF FoundOK
<1>3. \A k \in Checks : found'[k] \in Nat /\ (found'[k] > 0 <=> k \in flawed')
  BY <1>1, <1>2
<1>4. QED
  BY <1>1, <1>3 DEF FoundOK

LEMMA ReportInvInit == ReportInit => ReportInv
<1> SUFFICES ASSUME ReportInit PROVE ReportInv
  OBVIOUS
<1>1. FoundOK
  BY DEF ReportInit, ProbesInit, FoundOK
<1>2. VisitOK
  BY DEF ReportInit, ProbesInit, VisitOK
<1>3. VotesTyped
  BY DEF ReportInit, VotesTyped
<1>4. QED
  BY <1>1, <1>2, <1>3 DEF ReportInv, ReportInit

LEMMA FetchingKeeps ==
  ASSUME ReportInv, NEW rest \in 0 .. left, Fetching(rest), UNCHANGED <<stored, votes>>
  PROVE  ReportInv'
<1>1. CASE \E n \in 0 .. MaxLinks, linked \in SUBSET Linkable, flaws \in SUBSET (HeadChecks \cup PageChecks) :
             RootAnswers(rest, n, linked, flaws)
  <2>1. PICK n \in 0 .. MaxLinks, linked \in SUBSET Linkable, flaws \in SUBSET (HeadChecks \cup PageChecks) :
               RootAnswers(rest, n, linked, flaws)
    BY <1>1
  <2>2. FoundOK'
    BY <2>1, FindsKeeps DEF ReportInv, RootAnswers, Checks
  <2>3. VisitOK'
    BY <2>1 DEF ReportInv, RootAnswers, VisitOK
  <2>4. QED
    BY <2>1, <2>2, <2>3 DEF ReportInv, RootAnswers, VotesTyped
<1>2. CASE \E answered \in BOOLEAN, flaws \in SUBSET PageChecks : ReadPage(rest, answered, flaws)
  <2>1. PICK answered \in BOOLEAN, flaws \in SUBSET PageChecks : ReadPage(rest, answered, flaws)
    BY <1>2
  <2>2. FoundOK'
    <3>1. CASE Finds(flaws)
      BY <3>1, FindsKeeps DEF ReportInv, Checks
    <3>2. CASE UNCHANGED <<found, flawed>>
      BY <3>2 DEF ReportInv, FoundOK
    <3>3. QED
      BY <2>1, <3>1, <3>2 DEF ReadPage
  <2>3. VisitOK'
    BY <2>1 DEF ReportInv, ReadPage, VisitOK
  <2>4. QED
    BY <2>1, <2>2, <2>3 DEF ReportInv, ReadPage, VotesTyped
<1>3. CASE \E answer \in {"ok", "flaw", "none"} : FollowLink(rest, answer)
  <2>1. PICK answer \in {"ok", "flaw", "none"} : FollowLink(rest, answer)
    BY <1>3
  <2>2. FoundOK'
    <3>1. (IF answer = "flaw" THEN {LinkCheck} ELSE {}) \in SUBSET Checks
      BY DEF Checks
    <3>2. QED
      BY <2>1, <3>1, FindsKeeps DEF ReportInv, FollowLink
  <2>3. VisitOK'
    BY <2>1 DEF ReportInv, FollowLink, VisitOK
  <2>4. QED
    BY <2>1, <2>2, <2>3 DEF ReportInv, FollowLink, VotesTyped
<1>4. CASE \E answer \in {"ok", "flaw", "none"} : FetchAux(rest, answer)
  <2>1. PICK answer \in {"ok", "flaw", "none"} : FetchAux(rest, answer)
    BY <1>4
  <2> DEFINE c == AuxOrder[at]
  <2>2. /\ phase = "aux" /\ at <= Len(AuxOrder) /\ at \in 1 .. Len(AuxOrder) /\ at' = at + 1 /\ phase' = phase
        /\ spaces' = spaces
    BY <2>1, AuxFacts DEF FetchAux, ReportInv, VisitOK
  <2>3. c \in AuxChecks /\ c \in Checks
    BY <2>2, AuxFacts DEF Checks
  <2>4. /\ seen \subseteq seen' /\ unknown \subseteq unknown' /\ c \in seen' \cup unknown'
        /\ UNCHANGED <<found, flawed>> \/ Finds(IF answer = "flaw" THEN {c} ELSE {})
    BY <2>1 DEF FetchAux
  <2> HIDE DEF c
  <2>5. FoundOK'
    <3>1. CASE UNCHANGED <<found, flawed>>
      BY <3>1 DEF ReportInv, FoundOK
    <3>2. CASE Finds(IF answer = "flaw" THEN {c} ELSE {})
      BY <2>3, <3>2, FindsKeeps DEF ReportInv
    <3>3. QED
      BY <2>4, <3>1, <3>2
  <2>6. AuxSeen(at - 1)'
    <3>1. at' - 1 = at /\ \A i \in 1 .. at : i \in 1 .. (at - 1) \/ i = at
      BY <2>2
    <3>2. \A i \in 1 .. (at - 1) : AuxOrder[i] \in seen \cup unknown
      BY <2>2 DEF ReportInv, VisitOK, AuxSeen
    <3>3. \A i \in 1 .. at : AuxOrder[i] \in seen' \cup unknown'
      BY <2>4, <3>1, <3>2 DEF c
    <3>4. QED
      BY <3>1, <3>3 DEF AuxSeen
  <2>7. VisitOK'
    BY <2>2, <2>4, <2>6, AuxFacts DEF ReportInv, VisitOK, AuxSeen
  <2>8. QED
    BY <2>2, <2>5, <2>7 DEF ReportInv, VotesTyped
<1>5. QED
  BY <1>1, <1>2, <1>3, <1>4 DEF Fetching

LEMMA PhaseKeeps ==
  ASSUME ReportInv, RootFails \/ PagesEnd \/ LinksEnd \/ AuxEnd \/ ProbesDie, UNCHANGED <<stored, votes>>
  PROVE  ReportInv'
<1>1. FoundOK' /\ VotesTyped'
  BY DEF ReportInv, RootFails, PagesEnd, LinksEnd, AuxEnd, ProbesDie, FoundOK, VotesTyped
<1>2. phase # "done" /\ ~stored'
  BY DEF ReportInv, RootFails, PagesEnd, LinksEnd, AuxEnd, ProbesDie
<1>3. VisitOK'
  <2>1. CASE RootFails \/ PagesEnd \/ ProbesDie
    <3>1. phase' \in {"done", "links", "dead"} /\ at' \in Nat /\ at' > 0
      BY <2>1 DEF ReportInv, VisitOK, RootFails, PagesEnd, ProbesDie
    <3>2. phase' = "done" => spaces = {}
      BY <2>1 DEF ReportInv, VisitOK, RootFails, PagesEnd, ProbesDie
    <3>3. phase' = "links" => spaces # {}
      BY <2>1 DEF ReportInv, VisitOK, RootFails, PagesEnd, ProbesDie
    <3>4. UNCHANGED <<seen, spaces>>
      BY <2>1 DEF RootFails, PagesEnd, ProbesDie
    <3>5. QED
      BY <3>1, <3>2, <3>3, <3>4 DEF ReportInv, VisitOK
  <2>2. CASE LinksEnd
    <3>1. LinkCheck \in seen' \cup unknown'
      BY <2>2 DEF LinksEnd
    <3>2. AuxSeen(at - 1)' /\ at' = 1 /\ at' <= Len(AuxOrder) + 1
      BY <2>2, AuxFacts DEF LinksEnd, AuxSeen
    <3>3. QED
      BY <2>2, <3>1, <3>2 DEF ReportInv, VisitOK, LinksEnd
  <2>3. CASE AuxEnd
    <3>1. at - 1 = Len(AuxOrder)
      BY <2>3, AuxFacts DEF AuxEnd, ReportInv, VisitOK
    <3>2. QED
      BY <2>3, <3>1 DEF ReportInv, VisitOK, AuxEnd, AuxSeen
  <2>4. QED
    BY <2>1, <2>2, <2>3
<1>4. QED
  BY <1>1, <1>2, <1>3 DEF ReportInv

LEMMA ScanKeeps ==
  ASSUME ReportInv, NEW answered \in BOOLEAN, NEW covered \in SUBSET ScanChecks, NEW flaws \in SUBSET covered,
         Scan(answered, covered, flaws), UNCHANGED <<stored, votes>>
  PROVE  ReportInv'
<1>1. FoundOK'
  <2>1. CASE Finds(flaws)
    BY <2>1, FindsKeeps DEF ReportInv, Checks
  <2>2. CASE UNCHANGED <<found, flawed>>
    BY <2>2 DEF ReportInv, FoundOK
  <2>3. QED
    BY <2>1, <2>2 DEF Scan
<1>2. /\ phase = "scan" /\ phase' = "done" /\ seen \subseteq seen' /\ unknown' = unknown /\ at' = at
      /\ spaces' = spaces \/ spaces' = spaces \cup {"agentready"}
  BY DEF Scan
<1>3. CASE spaces' = spaces
  BY <1>1, <1>2, <1>3 DEF ReportInv, VisitOK, AuxSeen, VotesTyped
<1>4. CASE spaces' = spaces \cup {"agentready"} /\ spaces # {}
  BY <1>1, <1>2, <1>4 DEF ReportInv, VisitOK, AuxSeen, VotesTyped
<1>5. spaces # {}
  BY <1>2 DEF ReportInv, VisitOK
<1>6. QED
  BY <1>2, <1>3, <1>4, <1>5

LEMMA ReportInvNext == ReportInv /\ [ReportNext]_reportVars => ReportInv'
<1> SUFFICES ASSUME ReportInv, [ReportNext]_reportVars PROVE ReportInv'
  OBVIOUS
<1>1. CASE ProbesNext /\ UNCHANGED <<stored, votes>>
  BY <1>1, FetchingKeeps, PhaseKeeps, ScanKeeps DEF ProbesNext
<1>2. CASE StoreProbes
  BY <1>2 DEF ReportInv, FoundOK, VisitOK, AuxSeen, VotesTyped, StoreProbes, probeVars
<1>3. CASE \E c \in ReportClaims, yes \in BOOLEAN : Vote(c, yes)
  <2>1. PICK c \in ReportClaims, yes \in BOOLEAN : Vote(c, yes)
    BY <1>3
  <2>2. VotesTyped'
    <3>1. votes[c] \in [yes : Nat, no : Nat]
      BY DEF ReportInv, VotesTyped
    <3>2. CASE yes
      BY <2>1, <3>1, <3>2 DEF Vote, ReportInv, VotesTyped
    <3>3. CASE ~yes
      BY <2>1, <3>1, <3>3 DEF Vote, ReportInv, VotesTyped
    <3>4. QED
      BY <3>2, <3>3
  <2>3. QED
    BY <2>1, <2>2 DEF ReportInv, FoundOK, VisitOK, AuxSeen, Vote, probeVars
<1>4. CASE UNCHANGED reportVars
  BY <1>4 DEF ReportInv, FoundOK, VisitOK, AuxSeen, VotesTyped, reportVars, probeVars
<1>5. QED
  BY <1>1, <1>2, <1>3, <1>4 DEF ReportNext

LEMMA ReportInvAlways == ReportSpec => []ReportInv
BY ReportInvInit, ReportInvNext, PTL DEF ReportSpec

-----------------------------------------------------------------------------
(* Typing of the visit and the votes.  Max and Cast are what they bound.   *)

LEMMA LargerOf ==
  ASSUME NEW a \in Nat, NEW b \in Nat
  PROVE  Max({a, b}) \in Nat /\ a <= Max({a, b}) /\ b <= Max({a, b})
<1> DEFINE m == IF a >= b THEN a ELSE b
<1>1. m \in {a, b} /\ \A y \in {a, b} : m >= y
  OBVIOUS
<1>2. \E x \in {a, b} : \A y \in {a, b} : x >= y
  BY <1>1
<1> HIDE DEF m
<1>3. Max({a, b}) \in {a, b} /\ \A y \in {a, b} : Max({a, b}) >= y
  BY <1>2 DEF Max
<1>4. QED
  BY <1>3

\* Nobody can have given a claim more answers than were cast.
LEMMA CastFacts ==
  ASSUME \A c \in ReportClaims : N(c) \in Nat
  PROVE  Cast \in Nat /\ \A c \in ReportClaims : N(c) <= Cast
<1> DEFINE unroll(f, s) == IF s = {} THEN 0 ELSE N(Choice(s)) + f[s \ {Choice(s)}]
           g == CHOOSE f : f = [s \in SUBSET ReportClaims |-> unroll(f, s)]
           w == [c \in ReportClaims |-> N(c)]
<1>1. Cast = g[ReportClaims]
  BY DEF Cast, MapThenSumSet, MapThenFoldSet, Choice
<1>2. g = [s \in SUBSET ReportClaims |-> unroll(g, s)]
  <2>1. PICK f : Iterates(f, w, SUBSET ReportClaims)
    BY IterateExists, ReportBoundsAssumption
  <2>2. \A s \in SUBSET ReportClaims : s # {} => w[Choice(s)] = N(Choice(s))
    BY DEF Choice
  <2>3. f = [s \in SUBSET ReportClaims |-> unroll(f, s)]
    BY <2>1, <2>2 DEF Iterates
  <2>4. QED
    BY <2>3
<1>3. \A s \in SUBSET ReportClaims : g[s] = IF s = {} THEN 0 ELSE N(Choice(s)) + g[s \ {Choice(s)}]
  BY <1>2
<1> HIDE DEF g
<1> DEFINE Covers(s) == g[s] \in Nat /\ \A x \in s : N(x) <= g[s]
           wrong == {n \in Nat : \E s \in SUBSET ReportClaims : Cardinality(s) = n /\ ~Covers(s)}
<1>4. wrong = {}
  <2>1. SUFFICES ASSUME wrong # {} PROVE FALSE
    OBVIOUS
  <2>2. PICK m \in wrong : \A x \in wrong : m <= x
    BY <2>1, LeastOf
  <2>3. PICK s \in SUBSET ReportClaims : Cardinality(s) = m /\ ~Covers(s)
    BY <2>2
  <2>4. s # {}
    <3>1. {} \in SUBSET ReportClaims /\ g[{}] = 0
      BY <1>3
    <3>2. Covers({})
      BY <3>1
    <3>3. QED
      BY <2>3, <3>2
  <2> DEFINE t == s \ {Choice(s)}
  <2>5. Choice(s) \in s /\ t \in SUBSET ReportClaims /\ m \in Nat /\ m > 0 /\ Cardinality(t) = m - 1
    BY <2>3, <2>4, ChoiceFacts, ReportBoundsAssumption
  <2>6. Covers(t)
    <3>1. m - 1 \in Nat /\ m - 1 \notin wrong
      BY <2>2, <2>5
    <3> HIDE DEF Covers, t
    <3>2. QED
      BY <2>5, <3>1
  <2>7. g[s] = N(Choice(s)) + g[t]
    BY <1>3, <2>4
  <2>8. \A x \in s : x = Choice(s) \/ x \in t
    OBVIOUS
  <2> HIDE DEF t
  <2>9. N(Choice(s)) \in Nat /\ \A x \in s : N(x) \in Nat
    BY <2>5
  <2>10. g[s] \in Nat /\ \A x \in s : N(x) <= g[s]
    BY <2>6, <2>7, <2>8, <2>9
  <2>11. QED
    BY <2>3, <2>10
<1>5. Cardinality(ReportClaims) \in Nat
  BY FS_CardinalityType, ReportBoundsAssumption
<1>6. Covers(ReportClaims)
  BY <1>4, <1>5
<1>7. QED
  BY <1>1, <1>6

ReportTyping == ReportTypeOK /\ (phase = "root" => flawed = {})

LEMMA Limits ==
  /\ Budget \in Nat /\ MaxLinks \in Nat /\ MaxPages \in Nat /\ MaxVotes \in Nat
  /\ Max({MaxLinks, Len(AuxOrder)}) \in Nat
  /\ MaxLinks <= Max({MaxLinks, Len(AuxOrder)}) /\ Len(AuxOrder) <= Max({MaxLinks, Len(AuxOrder)})
  /\ Max({1, MaxPages}) \in Nat /\ 1 <= Max({1, MaxPages}) /\ MaxPages <= Max({1, MaxPages})
BY ProbeBoundsAssumption, ReportBoundsAssumption, AuxFacts, LargerOf

LEMMA ReportTypingInit == ReportInit => ReportTyping
<1> SUFFICES ASSUME ReportInit PROVE ReportTyping
  OBVIOUS
<1>1. left \in 0 .. Budget /\ links \in 0 .. MaxLinks /\ pages \in 0 .. Max({1, MaxPages})
      /\ at \in 1 .. 1 + Max({MaxLinks, Len(AuxOrder)})
  BY Limits DEF ReportInit, ProbesInit
<1>2. votes \in [ReportClaims -> [yes : 0 .. MaxVotes, no : 0 .. MaxVotes]]
  BY Limits DEF ReportInit
<1>3. QED
  BY <1>1, <1>2 DEF ReportInit, ProbesInit, ReportTyping, ReportTypeOK, ProbesTypeOK

LEMMA ProbesTypingKeeps ==
  ASSUME ReportInv, FoundOK', ReportTyping, ProbesNext
  PROVE  ProbesTypeOK' /\ (phase' = "root" => flawed' = {})
<1> USE Limits
<1>1. /\ HeadChecks \cup PageChecks \cup {LinkCheck} \cup AuxChecks \cup ScanChecks \subseteq Checks
      /\ found' \in [Checks -> Nat] /\ at \in Nat /\ at > 0
      /\ spaces # {} => HeadChecks \cup PageChecks \subseteq seen
      /\ phase = "pages" => spaces # {}
  BY DEF Checks, FoundOK, ReportInv, VisitOK
<1>2. ASSUME NEW rest \in 0 .. left, Fetching(rest)
      PROVE  ProbesTypeOK' /\ (phase' = "root" => flawed' = {})
  <2>1. rest \in 0 .. Budget
    BY DEF ReportTyping, ReportTypeOK, ProbesTypeOK
  <2>2. CASE \E n \in 0 .. MaxLinks, linked \in SUBSET Linkable, flaws \in SUBSET (HeadChecks \cup PageChecks) :
               RootAnswers(rest, n, linked, flaws)
    BY <1>1, <2>1, <2>2 DEF RootAnswers, Finds, ReportTyping, ReportTypeOK, ProbesTypeOK
  <2>3. CASE \E answered \in BOOLEAN, flaws \in SUBSET PageChecks : ReadPage(rest, answered, flaws)
    <3>1. /\ flawed' \subseteq seen' \cup {LinkCheck} /\ seen' = seen /\ unknown' = unknown
          /\ UNCHANGED <<phase, links, linkedTo, spaces>> /\ phase = "pages"
      BY <1>1, <2>3 DEF ReadPage, Finds, ReportTyping, ReportTypeOK, ProbesTypeOK
    <3>2. /\ at <= links /\ at' = at + 1 /\ left' = rest /\ pages' \in {pages, pages + 1}
          /\ (pages' # pages => pages < MaxPages)
      BY <2>3 DEF ReadPage
    <3>3. /\ at' \in 1 .. 1 + Max({MaxLinks, Len(AuxOrder)}) /\ left' \in 0 .. Budget
          /\ pages' \in 0 .. Max({1, MaxPages})
      BY <1>1, <2>1, <3>2 DEF ReportTyping, ReportTypeOK, ProbesTypeOK
    <3>4. QED
      BY <1>1, <3>1, <3>3 DEF ReportTyping, ReportTypeOK, ProbesTypeOK
  <2>4. CASE \E answer \in {"ok", "flaw", "none"} : FollowLink(rest, answer)
    <3>1. /\ flawed' \subseteq seen' \cup {LinkCheck} /\ seen' = seen /\ unknown' \subseteq Checks
          /\ UNCHANGED <<phase, links, linkedTo, pages, spaces>> /\ phase = "links"
      BY <1>1, <2>4 DEF FollowLink, Finds, ReportTyping, ReportTypeOK, ProbesTypeOK
    <3>2. at <= links /\ at' = at + 1 /\ left' = rest
      <4>1. PICK answer \in {"ok", "flaw", "none"} : FollowLink(rest, answer)
        BY <2>4
      <4>2. QED
        BY <4>1 DEF FollowLink
    <3>3. at' \in 1 .. 1 + Max({MaxLinks, Len(AuxOrder)}) /\ left' \in 0 .. Budget
      BY <1>1, <2>1, <3>2 DEF ReportTyping, ReportTypeOK, ProbesTypeOK
    <3>4. QED
      BY <1>1, <3>1, <3>3 DEF ReportTyping, ReportTypeOK, ProbesTypeOK
  <2>5. CASE \E answer \in {"ok", "flaw", "none"} : FetchAux(rest, answer)
    <3>1. PICK answer \in {"ok", "flaw", "none"} : FetchAux(rest, answer)
      BY <2>5
    <3> DEFINE c == AuxOrder[at]
    <3>2. /\ phase = "aux" /\ at <= Len(AuxOrder) /\ at' = at + 1 /\ left' \in {left, rest}
          /\ UNCHANGED <<phase, links, linkedTo, pages, spaces>>
      BY <3>1 DEF FetchAux
    <3>3. c \in Checks
      BY <1>1, <3>2, AuxFacts
    <3>4. \/ seen' = seen \cup {c} /\ flawed' \subseteq flawed \cup {c} /\ unknown' = unknown
          \/ seen' = seen /\ flawed' = flawed /\ unknown' = unknown \cup {c}
      BY <3>1 DEF FetchAux, Finds
    <3> HIDE DEF c
    <3>5. seen' \subseteq Checks /\ unknown' \subseteq Checks /\ flawed' \subseteq seen' \cup {LinkCheck}
      BY <3>3, <3>4 DEF ReportTyping, ReportTypeOK, ProbesTypeOK
    <3>6. at' \in 1 .. 1 + Max({MaxLinks, Len(AuxOrder)}) /\ left' \in 0 .. Budget
      BY <1>1, <2>1, <3>2, AuxFacts DEF ReportTyping, ReportTypeOK, ProbesTypeOK
    <3>7. QED
      BY <1>1, <3>2, <3>5, <3>6 DEF ReportTyping, ReportTypeOK, ProbesTypeOK
  <2>6. QED
    BY <1>2, <2>2, <2>3, <2>4, <2>5 DEF Fetching
<1>3. ASSUME RootFails \/ PagesEnd \/ LinksEnd \/ AuxEnd \/ ProbesDie
      PROVE  ProbesTypeOK' /\ (phase' = "root" => flawed' = {})
  <2>1. /\ phase' \in {"done", "links", "aux", "scan", "dead"} /\ at' \in {at, 1}
        /\ UNCHANGED <<left, links, linkedTo, pages, spaces, flawed>>
    BY <1>3 DEF RootFails, PagesEnd, LinksEnd, AuxEnd, ProbesDie
  <2>2. seen \subseteq seen' /\ seen' \subseteq seen \cup {LinkCheck} /\ unknown' \subseteq unknown \cup {LinkCheck}
    BY <1>3 DEF RootFails, PagesEnd, LinksEnd, AuxEnd, ProbesDie
  <2>3. QED
    BY <1>1, <2>1, <2>2 DEF ReportTyping, ReportTypeOK, ProbesTypeOK
<1>4. ASSUME NEW answered \in BOOLEAN, NEW covered \in SUBSET ScanChecks, NEW flaws \in SUBSET covered,
             Scan(answered, covered, flaws)
      PROVE  ProbesTypeOK' /\ (phase' = "root" => flawed' = {})
  BY <1>1, <1>4 DEF Scan, Finds, ReportTyping, ReportTypeOK, ProbesTypeOK
<1>5. QED
  BY <1>2, <1>3, <1>4 DEF ProbesNext

LEMMA VoteTyping ==
  ASSUME ReportTyping, NEW c \in ReportClaims, NEW yes \in BOOLEAN, Vote(c, yes)
  PROVE  votes' \in [ReportClaims -> [yes : 0 .. MaxVotes, no : 0 .. MaxVotes]]
<1>1. votes \in [ReportClaims -> [yes : 0 .. MaxVotes, no : 0 .. MaxVotes]] /\ MaxVotes \in Nat
  BY Limits DEF ReportTyping, ReportTypeOK
<1>2. \A d \in ReportClaims : N(d) \in Nat /\ votes[d].yes \in Nat /\ votes[d].no \in Nat
  BY <1>1 DEF N
<1>3. Cast \in Nat /\ N(c) <= Cast /\ Cast < MaxVotes
  BY <1>2, CastFacts DEF Vote
<1>4. votes[c].yes + 1 \in 0 .. MaxVotes /\ votes[c].no + 1 \in 0 .. MaxVotes
  BY <1>1, <1>2, <1>3 DEF N
<1>5. votes[c] \in [yes : 0 .. MaxVotes, no : 0 .. MaxVotes]
  BY <1>1
<1>6. CASE yes
  BY <1>1, <1>4, <1>5, <1>6 DEF Vote
<1>7. CASE ~yes
  BY <1>1, <1>4, <1>5, <1>7 DEF Vote
<1>8. QED
  BY <1>6, <1>7

LEMMA ReportTypingNext == ReportInv /\ ReportInv' /\ ReportTyping /\ [ReportNext]_reportVars => ReportTyping'
<1> SUFFICES ASSUME ReportInv, ReportInv', ReportTyping, [ReportNext]_reportVars PROVE ReportTyping'
  OBVIOUS
<1>1. CASE ProbesNext /\ UNCHANGED <<stored, votes>>
  <2>1. ProbesTypeOK' /\ (phase' = "root" => flawed' = {})
    BY <1>1, ProbesTypingKeeps DEF ReportInv
  <2>2. QED
    BY <1>1, <2>1 DEF ReportTyping, ReportTypeOK
<1>2. CASE UNCHANGED probeVars /\ stored' \in BOOLEAN
           /\ votes' \in [ReportClaims -> [yes : 0 .. MaxVotes, no : 0 .. MaxVotes]]
  BY <1>2 DEF ReportTyping, ReportTypeOK, ProbesTypeOK, probeVars
<1>3. CASE StoreProbes \/ UNCHANGED reportVars
  BY <1>2, <1>3 DEF StoreProbes, reportVars, ReportTyping, ReportTypeOK
<1>4. CASE \E c \in ReportClaims, yes \in BOOLEAN : Vote(c, yes)
  BY <1>2, <1>4, VoteTyping DEF Vote, ReportTyping, ReportTypeOK
<1>5. QED
  BY <1>1, <1>3, <1>4 DEF ReportNext

\* The visit and the answers are well typed for any site, budget and claims: what a claim
\* was answered is bounded by what was cast at all (judge.submit_answers, probes.run).
THEOREM ReportTyped == ReportSpec => []ReportTypeOK
<1>1. ReportTyping => ReportTypeOK
  BY DEF ReportTyping
<1>2. QED
  BY <1>1, ReportInvAlways, ReportTypingInit, ReportTypingNext, PTL DEF ReportSpec

LEMMA Percentages ==
  ASSUME NEW yes \in Nat, NEW n \in Nat, n > 0
  PROVE  /\ 10 * yes < 6 * n => ~((100 * yes) \div n >= 60)
         /\ 10 * yes <= 4 * n => (100 * yes) \div n <= 40
<1> DEFINE q == (100 * yes) \div n
<1>1. q \in Nat /\ q * n <= 100 * yes
  OBVIOUS
<1> HIDE DEF q
<1>2. q >= 60 => q * n >= 60 * n
  BY <1>1
<1>3. q >= 41 => q * n >= 41 * n
  BY <1>1
<1>4. QED
  BY <1>1, <1>2, <1>3 DEF q

\* A claim the probes decide: the visit is over and its checks were looked at.
LEMMA ProbedFacts ==
  ASSUME ReportInv, NEW c \in ReportClaims, Probed(c)
  PROVE  /\ CheckOf[c] \subseteq seen \cup ScanChecks
         /\ Fails(c) <=> CheckOf[c] \cap flawed # {}
         /\ CheckOf[c] \subseteq Checks
<1>1. /\ phase = "done" /\ spaces # {} /\ CheckOf[c] \cap unknown = {}
      /\ \A k \in CheckOf[c] : Space[k] \in spaces
  BY DEF Probed, Fetched, Produced, ReportInv
<1>2. CheckOf[c] \subseteq Checks
  BY <1>1, NamespaceAssumption DEF ReportInv, VisitOK
<1>3. AuxChecks \subseteq seen \cup unknown
  BY <1>1, AuxFacts DEF ReportInv, VisitOK, AuxSeen
<1>4. CheckOf[c] \subseteq seen \cup ScanChecks
  BY <1>1, <1>2, <1>3 DEF ReportInv, VisitOK, Checks
<1>5. \A k \in Checks : Capped[k] > 0 <=> k \in flawed
  <2>1. ASSUME NEW k \in Checks PROVE Capped[k] > 0 <=> k \in flawed
    <3>1. found[k] \in Nat /\ PerId \in Nat /\ (found[k] > 0 <=> k \in flawed)
      BY ProbeBoundsAssumption DEF ReportInv, FoundOK
    <3>2. Capped[k] = IF found[k] > PerId THEN PerId + 1 ELSE found[k]
      BY DEF Capped
    <3>3. QED
      BY <3>1, <3>2
  <2>2. QED
    BY <2>1
<1>6. Fails(c) <=> CheckOf[c] \cap flawed # {}
  BY <1>2, <1>5 DEF Fails
<1>7. QED
  BY <1>2, <1>4, <1>6

\* When the probes decide a claim every check of it was answered, and the claim fails exactly
\* when an answer showed a flaw, whatever was cut short by the budget, not answered or capped
\* (probes.run, judge.verdict).
THEOREM ProbesSpeakOfWhatTheySaw == ReportSpec => []ProbedIsSeen
<1>1. ReportInv => ProbedIsSeen
  BY ProbedFacts DEF ProbedIsSeen, Side
<1>2. QED
  BY <1>1, ReportInvAlways, PTL

\* A pass and "ready_to_charge" are uncontested: no flaw the probes saw and no majority of the
\* humans stands against them, in whatever order probes and answers came
\* (judge.verdict, report._claim_status, report._business_stamp).
THEOREM PassesAreUncontested == ReportSpec => []PassIsUncontested
<1>1. ReportInv => PassIsUncontested
  <2>1. SUFFICES ASSUME ReportInv, NEW c \in ReportClaims
                 PROVE  LET flawSeen == Probed(c) /\ CheckOf[c] \cap flawed # {}
                        IN  /\ flawSeen \/ 10 * votes[c].yes < 6 * N(c) => Status(c) # "pass"
                            /\ flawSeen /\ Gap[c] \in Core /\ 10 * votes[c].yes <= 4 * N(c)
                                 => Stamp # "ready_to_charge"
    BY DEF PassIsUncontested
  <2> DEFINE flawSeen == Probed(c) /\ CheckOf[c] \cap flawed # {}
  <2>2. votes[c].yes \in Nat /\ N(c) \in Nat
    BY <2>1 DEF ReportInv, VotesTyped, N
  <2>3. flawSeen => Fails(c) /\ Side(c) = "no" /\ State(c) # "none"
    BY <2>1, ProbedFacts DEF Side, State
  <2>4. 10 * votes[c].yes < 6 * N(c) => ~(P(c) >= 60)
    <3>1. N(c) > 0 => P(c) = (100 * votes[c].yes) \div N(c)
      BY DEF P
    <3>2. 10 * votes[c].yes < 6 * N(c) => N(c) > 0
      BY <2>2
    <3>3. QED
      BY <2>2, <3>1, <3>2, Percentages
  <2>5. flawSeen /\ 10 * votes[c].yes <= 4 * N(c) => P(c) <= 40
    <3>1. CASE N(c) > 0
      BY <2>2, <3>1, Percentages DEF P
    <3>2. CASE N(c) = 0
      BY <2>3, <3>2 DEF P
    <3>3. QED
      BY <2>2, <3>1, <3>2
  <2>6. flawSeen \/ 10 * votes[c].yes < 6 * N(c) => Status(c) # "pass"
    BY <2>3, <2>4 DEF Status
  <2>7. flawSeen /\ Gap[c] \in Core /\ 10 * votes[c].yes <= 4 * N(c) => Stamp # "ready_to_charge"
    <3>1. SUFFICES ASSUME flawSeen, Gap[c] \in Core, 10 * votes[c].yes <= 4 * N(c)
                   PROVE  Stamp # "ready_to_charge"
      OBVIOUS
    <3>2. Status(c) = "fail"
      BY <2>3, <2>5, <3>1 DEF Status
    <3>3. Gap[c] \in FailingGaps
      BY <2>1, <3>1, <3>2 DEF FailingGaps
    <3>4. QED
      BY <3>3 DEF Stamp
  <2>8. QED
    BY <2>6, <2>7
<1>2. QED
  BY <1>1, ReportInvAlways, PTL

-----------------------------------------------------------------------------
(* Grades, for any items, personas and odds.  An item no model has backed  *)
(* has even odds at best on all its claims (SumsOK); the mean of such      *)
(* claims is no pass (SumBound), so a pass is always backed (GradesOK).    *)

SumsOK ==
  /\ section \notin DOMAIN SectionItems => asked = 0
  /\ \A c \in DOMAIN sum : sum[c] <= 100 * asked
  /\ section \in DOMAIN SectionItems =>
       \A i \in Items \ backed : \A c \in ItemClaims[i] : sum[c] <= 50 * asked

GradesOK ==
  /\ \A i \in Graded : grade[i] = "pass" => i \in backed
  /\ section \in {"begin", "judging", "sponsors"} => strong = {}
  /\ IF section = "stamped" THEN \A s \in strong : grade[s] # "unknown" => s \in backed
                            ELSE strong \subseteq backed

StampInv == StampTypeOK /\ SumsOK /\ GradesOK

LEMMA SumBound ==
  ASSUME NEW C, IsFiniteSet(C), \A c \in C : Likely(c) \in Nat /\ Likely(c) <= 50
  PROVE  MapThenSumSet(Likely, C) \in Nat /\ MapThenSumSet(Likely, C) <= 50 * Cardinality(C)
<1> DEFINE unroll(f, s) == IF s = {} THEN 0 ELSE Likely(Choice(s)) + f[s \ {Choice(s)}]
           g == CHOOSE f : f = [s \in SUBSET C |-> unroll(f, s)]
           w == [c \in C |-> Likely(c)]
<1>1. MapThenSumSet(Likely, C) = g[C]
  BY DEF MapThenSumSet, MapThenFoldSet, Choice
<1>2. g = [s \in SUBSET C |-> unroll(g, s)]
  <2>1. PICK f : Iterates(f, w, SUBSET C)
    BY IterateExists
  <2>2. \A s \in SUBSET C : s # {} => w[Choice(s)] = Likely(Choice(s))
    BY DEF Choice
  <2>3. f = [s \in SUBSET C |-> unroll(f, s)]
    BY <2>1, <2>2 DEF Iterates
  <2>4. QED
    BY <2>3
<1>3. \A s \in SUBSET C : g[s] = IF s = {} THEN 0 ELSE Likely(Choice(s)) + g[s \ {Choice(s)}]
  BY <1>2
<1> HIDE DEF g
<1> DEFINE Small(s) == g[s] \in Nat /\ g[s] <= 50 * Cardinality(s)
           wrong == {n \in Nat : \E s \in SUBSET C : Cardinality(s) = n /\ ~Small(s)}
<1>4. wrong = {}
  <2>1. SUFFICES ASSUME wrong # {} PROVE FALSE
    OBVIOUS
  <2>2. PICK m \in wrong : \A x \in wrong : m <= x
    BY <2>1, LeastOf
  <2>3. PICK s \in SUBSET C : Cardinality(s) = m /\ ~Small(s)
    BY <2>2
  <2>4. s # {}
    <3>1. SUFFICES ASSUME s = {} PROVE FALSE
      OBVIOUS
    <3>2. Cardinality(s) = 0
      BY <3>1, FS_EmptySet
    <3>3. g[s] = 0
      BY <1>3, <3>1
    <3>4. QED
      BY <2>3, <3>2, <3>3
  <2> DEFINE t == s \ {Choice(s)}
  <2>5. Choice(s) \in C /\ t \in SUBSET C /\ m \in Nat /\ m > 0 /\ Cardinality(t) = m - 1
    BY <2>3, <2>4, ChoiceFacts
  <2>6. Small(t)
    BY <2>2, <2>5
  <2>7. g[s] = Likely(Choice(s)) + g[t]
    BY <1>3, <2>4
  <2> HIDE DEF t
  <2>8. g[s] \in Nat /\ g[s] <= 50 * m
    BY <2>5, <2>6, <2>7
  <2>9. QED
    BY <2>3, <2>8
<1>5. Cardinality(C) \in Nat
  BY FS_CardinalityType
<1>6. QED
  BY <1>1, <1>4, <1>5

LEMMA Quotient ==
  ASSUME NEW s \in Nat, NEW n \in Nat, n > 0, s <= 50 * n
  PROVE  s \div n \in Nat /\ s \div n <= 50
<1> DEFINE q == s \div n
<1>1. q \in Nat /\ q * n <= s
  OBVIOUS
<1> HIDE DEF q
<1>2. q >= 51 => q * n >= 51 * n
  BY <1>1
<1>3. q <= 50
  BY <1>1, <1>2
<1>4. QED
  BY <1>1, <1>3 DEF q

LEMMA SectionFacts ==
  /\ DOMAIN SectionItems = {"judging", "sponsors", "autonomy"}
  /\ \A x \in DOMAIN SectionItems : SectionItems[x] \subseteq Graded
  /\ section = "sponsors" => Items = Sponsors
  BY DEF SectionItems, Graded, Items

LEMMA FollowingFacts ==
  ASSUME section \in DOMAIN SectionItems
  PROVE  /\ Following \in DOMAIN SectionItems \cup {"stamped"}
         /\ Following = "sponsors" <=> section = "judging"
         /\ Following = "stamped" <=> section = "autonomy"
         /\ Following # "judging"
<1>1. section \in {"judging", "sponsors", "autonomy"}
  BY SectionFacts
<1>2. CASE section = "judging"
  BY <1>2, SectionFacts DEF Following
<1>3. CASE section = "sponsors"
  BY <1>3, SectionFacts DEF Following
<1>4. CASE section = "autonomy"
  BY <1>4, SectionFacts DEF Following
<1>5. QED
  BY <1>1, <1>2, <1>3, <1>4

LEMMA NoSumsFacts ==
  /\ NoSums \in [ClaimsIn(Graded) -> 0 .. 100 * Personas]
  /\ \A c \in ClaimsIn(Graded) : NoSums[c] = 0
<1>1. 0 \in 0 .. 100 * Personas
  BY HackathonAssumption
<1>2. QED
  BY <1>1 DEF NoSums

LEMMA StampInvInit == StampInit => StampInv
<1>1. SUFFICES ASSUME StampInit PROVE StampInv
  OBVIOUS
<1>2. asked = 0 /\ section = "begin" /\ section \notin DOMAIN SectionItems
  BY <1>1, SectionFacts DEF StampInit
<1>3. StampTypeOK
  <2>1. asked \in 0 .. Personas
    BY <1>2, HackathonAssumption
  <2>2. depth \in [Sponsors -> 0 .. 4]
    BY <1>1 DEF StampInit
  <2>3. QED
    BY <1>1, <1>2, <2>1, <2>2, NoSumsFacts DEF StampInit, StampTypeOK
<1>4. SumsOK
  <2>1. \A c \in DOMAIN sum : sum[c] = 0
    BY <1>1, NoSumsFacts DEF StampInit, NoSums
  <2>2. QED
    BY <1>2, <2>1 DEF SumsOK
<1>5. GradesOK
  BY <1>1 DEF StampInit, GradesOK
<1>6. QED
  BY <1>3, <1>4, <1>5 DEF StampInv

LEMMA DetectKeeps ==
  ASSUME StampInv, NEW hit \in [Sponsors -> Hits], Detect(hit)
  PROVE  StampInv'
<1>1. \A s \in Sponsors : Depth(hit[s].code, hit[s].text, hit[s].hits) \in 0 .. 4
  BY DEF Depth
<1>2. depth' \in [Sponsors -> 0 .. 4]
  BY <1>1 DEF Detect
<1>3. section = "begin" /\ section' = "judging" /\ section \notin DOMAIN SectionItems
  BY SectionFacts DEF Detect
<1>4. asked = 0 /\ \A c \in DOMAIN sum : sum[c] = 0
  <2>1. asked = 0 /\ \A c \in DOMAIN sum : sum[c] <= 0
    BY <1>3 DEF StampInv, SumsOK
  <2>2. \A c \in DOMAIN sum : sum[c] \in Nat
    BY HackathonAssumption DEF StampInv, StampTypeOK
  <2>3. QED
    BY <2>1, <2>2
<1>5. StampTypeOK'
  <2>1. section' \in DOMAIN SectionItems \cup {"begin", "stamped"}
    BY <1>3, SectionFacts
  <2>2. QED
    BY <1>2, <2>1 DEF StampInv, StampTypeOK, Detect
<1>6. SumsOK'
  <2>1. asked' = 0 /\ \A c \in DOMAIN sum' : sum'[c] = 0
    BY <1>4 DEF Detect
  <2>2. section' \in DOMAIN SectionItems /\ SectionItems[section'] \subseteq Graded
    BY <1>3, SectionFacts
  <2>3. DOMAIN sum' = ClaimsIn(Graded)
    BY <1>5 DEF StampTypeOK
  <2>4. \A i \in Graded : \A c \in ItemClaims[i] : c \in DOMAIN sum'
    BY <2>3 DEF ClaimsIn
  <2>5. QED
    BY <2>1, <2>2, <2>4 DEF SumsOK, Items
<1>7. GradesOK'
  BY <1>3 DEF StampInv, GradesOK, Detect
<1>8. QED
  BY <1>5, <1>6, <1>7 DEF StampInv

LEMMA AskKeeps ==
  ASSUME StampInv, section \in DOMAIN SectionItems, NEW p \in [ClaimsIn(Items) -> Odds], Ask(p)
  PROVE  StampInv'
<1>1. Items \subseteq Graded /\ Items' = Items /\ section' = section
  BY SectionFacts DEF Items, Ask
<1>2. /\ asked \in Nat /\ Personas \in Nat /\ asked' = asked + 1
      /\ asked' \in 0 .. Personas
  BY HackathonAssumption DEF StampInv, StampTypeOK, Ask
<1>3. \A c \in ClaimsIn(Items) : p[c] \in 0 .. 100
  BY HackathonAssumption
<1>4. \A c \in DOMAIN sum : sum[c] \in Nat /\ sum[c] <= 100 * asked
  BY HackathonAssumption DEF StampInv, StampTypeOK, SumsOK
<1>5. /\ DOMAIN sum' = DOMAIN sum /\ DOMAIN sum = ClaimsIn(Graded) /\ DOMAIN p = ClaimsIn(Items)
      /\ \A c \in DOMAIN sum : sum'[c] = IF c \in ClaimsIn(Items) THEN sum[c] + p[c] ELSE sum[c]
  BY DEF Ask, StampInv, StampTypeOK
<1>6. \A c \in DOMAIN sum : sum'[c] \in Nat /\ sum'[c] <= 100 * asked'
  BY <1>2, <1>3, <1>4, <1>5
<1>7. StampTypeOK'
  <2>1. \A c \in DOMAIN sum' : sum'[c] \in 0 .. 100 * Personas
    BY <1>2, <1>5, <1>6
  <2>2. sum' = [c \in DOMAIN sum' |-> sum'[c]]
    BY DEF Ask
  <2>3. sum' \in [ClaimsIn(Graded) -> 0 .. 100 * Personas]
    BY <1>5, <2>1, <2>2
  <2>4. QED
    BY <1>1, <1>2, <2>3 DEF StampInv, StampTypeOK, Ask
<1>8. SumsOK'
  <2>1. ASSUME NEW i \in Items \ backed', NEW c \in ItemClaims[i]
        PROVE  sum'[c] <= 50 * asked'
    <3>1. c \in ClaimsIn(Items) /\ c \in DOMAIN sum
      BY <1>1, <1>5 DEF ClaimsIn
    <3>2. i \notin backed /\ ~(p[c] > 50)
      BY DEF Ask
    <3>3. sum[c] <= 50 * asked
      BY <3>2 DEF StampInv, SumsOK
    <3>4. sum[c] \in Nat /\ p[c] \in 0 .. 100 /\ sum'[c] = sum[c] + p[c]
      BY <1>3, <1>4, <1>5, <3>1
    <3>5. QED
      BY <1>2, <3>2, <3>3, <3>4
  <2>2. QED
    BY <1>1, <1>5, <1>6, <2>1 DEF SumsOK
<1>9. GradesOK'
  BY <1>1 DEF StampInv, GradesOK, Ask
<1>10. QED
  BY <1>7, <1>8, <1>9 DEF StampInv

\* A section that is over leaves no sums behind.
LEMMA SectionEnds ==
  ASSUME StampInv, section \in DOMAIN SectionItems,
         section' = Following, asked' = 0, sum' = NoSums
  PROVE  /\ section' \in DOMAIN SectionItems \cup {"begin", "stamped"}
         /\ asked' \in 0 .. Personas /\ sum' \in [ClaimsIn(Graded) -> 0 .. 100 * Personas]
         /\ SumsOK'
<1>1. asked' \in 0 .. Personas
  BY HackathonAssumption
<1>2. sum' \in [ClaimsIn(Graded) -> 0 .. 100 * Personas] /\ \A c \in DOMAIN sum' : sum'[c] = 0
  BY NoSumsFacts
<1>3. \A i \in Graded : \A c \in ItemClaims[i] : c \in DOMAIN sum'
  BY <1>2 DEF ClaimsIn
<1>4. section' \in DOMAIN SectionItems => Items' \subseteq Graded
  BY SectionFacts DEF Items
<1>5. SumsOK'
  BY <1>2, <1>3, <1>4 DEF SumsOK
<1>6. QED
  BY <1>1, <1>2, <1>5, FollowingFacts

LEMMA AskRaisesKeeps ==
  ASSUME StampInv, AskRaises
  PROVE  StampInv'
<1>1. section \in DOMAIN SectionItems /\ Items \subseteq Graded
  BY SectionFacts DEF AskRaises, Items
<1>2. StampTypeOK' /\ SumsOK'
  <2>1. grade' \in [Graded -> {"none", "pass", "partial", "fail", "unknown"}]
    BY DEF AskRaises, StampInv, StampTypeOK
  <2>2. QED
    BY <1>1, <2>1, SectionEnds DEF AskRaises, StampInv, StampTypeOK
<1>3. GradesOK'
  <2>1. ASSUME NEW i \in Graded, grade'[i] = "pass" PROVE i \in backed'
    BY <2>1 DEF AskRaises, StampInv, GradesOK
  <2>2. CASE section = "autonomy"
    <3>1. \A s \in strong : s \in Graded /\ s \in backed
      BY <2>2 DEF StampInv, StampTypeOK, GradesOK, Graded
    <3>2. \A s \in strong' : grade'[s] # "unknown" => s \in backed'
      BY <3>1 DEF AskRaises
    <3>3. section' = "stamped"
      BY <1>1, <2>2, FollowingFacts DEF AskRaises
    <3>4. QED
      BY <2>1, <3>2, <3>3 DEF GradesOK
  <2>3. CASE section # "autonomy"
    <3>1. strong' = {}
      BY <1>1, <2>3, SectionFacts DEF AskRaises, StampInv, GradesOK
    <3>2. QED
      BY <2>1, <3>1 DEF GradesOK
  <2>4. QED
    BY <2>2, <2>3
<1>4. QED
  BY <1>2, <1>3 DEF StampInv

\* An item no model has backed is no pass, and most of its claims do not hold.
LEMMA UnbackedFails ==
  ASSUME StampInv, section \in DOMAIN SectionItems, asked = Personas, NEW i \in Items \ backed
  PROVE  Grade(i) # "pass" /\ ~Majority(i)
<1>1. i \in Graded /\ IsFiniteSet(ItemClaims[i]) /\ ItemClaims[i] # {}
  BY SectionFacts, HackathonAssumption DEF Items
<1>2. Personas \in Nat /\ Personas > 0
  BY HackathonAssumption
<1>3. \A c \in ItemClaims[i] : sum[c] \in Nat /\ sum[c] <= 50 * Personas
  <2>1. \A c \in ItemClaims[i] : c \in ClaimsIn(Graded)
    BY <1>1 DEF ClaimsIn
  <2>2. QED
    BY <1>2, <2>1 DEF StampInv, StampTypeOK, SumsOK
<1>4. \A c \in ItemClaims[i] : Likely(c) \in Nat /\ Likely(c) <= 50
  BY <1>2, <1>3, Quotient DEF Likely
<1> DEFINE n == Cardinality(ItemClaims[i])
           s == MapThenSumSet(Likely, ItemClaims[i])
<1>5. n \in Nat /\ n > 0
  <2>1. n \in Nat /\ n # 0
    BY <1>1, FS_CardinalityType, FS_EmptySet
  <2>2. QED
    BY <2>1
<1>6. s \in Nat /\ s <= 50 * n
  BY <1>1, <1>4, SumBound
<1>7. Mean(i) \in Nat /\ Mean(i) <= 50
  <2>1. Mean(i) = s \div n
    BY DEF Mean
  <2> HIDE DEF s, n
  <2>2. QED
    BY <1>5, <1>6, <2>1, Quotient
<1>8. ~(Mean(i) >= 70)
  BY <1>7
<1>9. {c \in ItemClaims[i] : Likely(c) >= 60} = {}
  BY <1>4
<1>10. ~Majority(i)
  <2> DEFINE k == Cardinality({c \in ItemClaims[i] : Likely(c) >= 60})
  <2>1. k = 0
    BY <1>9, FS_EmptySet
  <2>2. Majority(i) <=> 2 * k > n
    BY DEF Majority
  <2> HIDE DEF k, n
  <2>3. QED
    BY <1>5, <2>1, <2>2
<1>11. Grade(i) # "pass"
  BY <1>8 DEF Grade
<1>12. QED
  BY <1>10, <1>11

LEMMA GradeSectionKeeps ==
  ASSUME StampInv, GradeSection
  PROVE  StampInv'
<1>1. section \in DOMAIN SectionItems /\ Items \subseteq Graded /\ asked = Personas
  BY SectionFacts DEF GradeSection, Items
<1>2. \A i \in Items : Grade(i) \in {"pass", "partial", "fail"}
  BY DEF Grade
<1>3. \A i \in Items : i \notin backed => Grade(i) # "pass" /\ ~Majority(i)
  BY <1>1, UnbackedFails
<1>4. /\ \A i \in Graded : grade'[i] = IF i \in Items THEN Grade(i) ELSE grade[i]
      /\ grade' \in [Graded -> {"none", "pass", "partial", "fail", "unknown"}]
  BY <1>2 DEF GradeSection, StampInv, StampTypeOK
<1>5. StampTypeOK' /\ SumsOK'
  <2>1. strong' \subseteq Sponsors
    BY DEF GradeSection, StampInv, StampTypeOK
  <2>2. QED
    BY <1>1, <1>4, <2>1, SectionEnds DEF GradeSection, StampInv, StampTypeOK
<1>6. GradesOK'
  <2>1. \A i \in Graded : grade'[i] = "pass" => i \in backed'
    BY <1>3, <1>4 DEF GradeSection, StampInv, GradesOK
  <2>2. strong' \subseteq backed'
    <3>1. CASE section = "sponsors"
      <4>1. Items = Sponsors /\ strong' = {i \in Sponsors : Majority(i)}
        BY <3>1, SectionFacts DEF GradeSection
      <4>2. QED
        BY <1>3, <4>1 DEF GradeSection
    <3>2. CASE section # "sponsors"
      BY <1>1, <3>2, SectionFacts DEF GradeSection, StampInv, GradesOK
    <3>3. QED
      BY <3>1, <3>2
  <2>3. section' \in {"begin", "judging", "sponsors"} => strong' = {}
    <3>1. section' = "sponsors" <=> section = "judging"
      BY <1>1, FollowingFacts DEF GradeSection
    <3>2. section' # "begin" /\ section' # "judging"
      BY <1>1, FollowingFacts, SectionFacts DEF GradeSection
    <3>3. section = "judging" => strong' = {}
      BY DEF GradeSection, StampInv, GradesOK
    <3>4. QED
      BY <3>1, <3>2, <3>3
  <2>4. QED
    BY <2>1, <2>2, <2>3 DEF GradesOK
<1>7. QED
  BY <1>5, <1>6 DEF StampInv

LEMMA StampInvNext == StampInv /\ [StampNext]_stampVars => StampInv'
<1>1. SUFFICES ASSUME StampInv, [StampNext]_stampVars PROVE StampInv'
  OBVIOUS
<1>2. ASSUME NEW hit \in [Sponsors -> Hits], Detect(hit) PROVE StampInv'
  BY <1>1, <1>2, DetectKeeps
<1>3. ASSUME section \in DOMAIN SectionItems, NEW p \in [ClaimsIn(Items) -> Odds], Ask(p)
      PROVE  StampInv'
  BY <1>1, <1>3, AskKeeps
<1>4. CASE AskRaises
  BY <1>1, <1>4, AskRaisesKeeps
<1>5. CASE GradeSection
  BY <1>1, <1>5, GradeSectionKeeps
<1>6. CASE UNCHANGED stampVars
  BY <1>1, <1>6 DEF stampVars, StampInv, StampTypeOK, SumsOK, GradesOK, Items
<1>7. QED
  BY <1>1, <1>2, <1>3, <1>4, <1>5, <1>6 DEF StampNext

LEMMA StampInvAlways == StampSpec => []StampInv
  BY StampInvInit, StampInvNext, PTL DEF StampSpec

\* The state of an evaluation stays in its types, the sums of a section's odds within what its
\* personas could say (hackathon.evaluate).
THEOREM StampsTyped == StampSpec => []StampTypeOK
<1>1. StampInv => StampTypeOK
  BY DEF StampInv
<1>2. QED
  BY <1>1, StampInvAlways, PTL

\* Neither of the two upper stamps without a judge: a section that raised or was skipped at
\* even odds makes no contender and nothing autonomous, whatever lower stamp it leaves
\* (hackathon._stamp, _sponsor_bucket, evaluate).
THEOREM StampsAreJudged == StampSpec => []StampIsJudged
<1>1. StampInv => StampIsJudged
  <2>1. SUFFICES ASSUME StampInv, section = "stamped"
                 PROVE  /\ Stamped = "contender"
                             => Heavy \cup Required \subseteq backed /\ \A s \in Required : depth[s] > 2
                        /\ AutonomyStamp = "autonomous"
                             => Cardinality(Autonomy \cap backed) + 1 >= Cardinality(Autonomy)
    BY DEF StampIsJudged
  <2>2. \A i \in Graded : grade[i] = "pass" => i \in backed
    BY <2>1 DEF StampInv, GradesOK
  <2>3. ASSUME Stamped = "contender"
        PROVE  Heavy \cup Required \subseteq backed /\ \A s \in Required : depth[s] > 2
    <3>1. (\A i \in Heavy : grade[i] = "pass") /\ Required \subseteq Qualifies
      BY <2>3 DEF Stamped
    <3>2. Heavy \subseteq backed
      BY <2>2, <3>1, HackathonAssumption DEF Graded
    <3>3. Required \subseteq backed /\ \A s \in Required : depth[s] > 2
      BY <2>1, <3>1 DEF Qualifies, StampInv, GradesOK
    <3>4. QED
      BY <3>2, <3>3
  <2>4. ASSUME AutonomyStamp = "autonomous"
        PROVE  Cardinality(Autonomy \cap backed) + 1 >= Cardinality(Autonomy)
    <3> DEFINE passed == {i \in Autonomy : grade[i] = "pass"}
    <3>1. Cardinality(passed) + 1 >= Cardinality(Autonomy)
      BY <2>4 DEF AutonomyStamp, With
    <3>2. passed \subseteq Autonomy \cap backed
      BY <2>2 DEF Graded
    <3>3. IsFiniteSet(Autonomy \cap backed) /\ IsFiniteSet(Autonomy)
      BY FS_Subset, HackathonAssumption
    <3>4. /\ Cardinality(passed) <= Cardinality(Autonomy \cap backed)
          /\ Cardinality(passed) \in Nat /\ Cardinality(Autonomy \cap backed) \in Nat
          /\ Cardinality(Autonomy) \in Nat
      BY <3>2, <3>3, FS_Subset, FS_CardinalityType
    <3> HIDE DEF passed
    <3>5. QED
      BY <3>1, <3>4
  <2>5. QED
    BY <2>3, <2>4
<1>2. QED
  BY <1>1, StampInvAlways, PTL
=============================================================================
