---------------------------- MODULE SourceCache -----------------------------
(***************************************************************************)
(* What a job keeps of its buyer's page: state.sources, which the operator *)
(* replaces (judge.reset_sources) and the rating page fills in where it is *)
(* missing (rate_v2.ensure_page_source, ensure_repo_source), and           *)
(* state.probes, which a thread of its own writes when it is done          *)
(* (judge._launch_probes).  All of them fetch between their read and their *)
(* write; the operator makes one call at a time.  A thread of judge that   *)
(* settles, notifies or refreshes puts back the whole row it has read, and *)
(* both columns with it; put_job leaves the request.  The job has a repo.  *)
(***************************************************************************)
EXTENDS Naturals

CONSTANTS
  Urls, NoUrl,
  Renders,       \* requests for the rating page
  Holders,       \* threads of judge that put the whole row
  MaxResets, MaxRenders, MaxPuts, MaxCacheRestarts   \* bounds

ASSUME UrlsAssumption == Urls # {} /\ NoUrl \notin Urls
ASSUME CacheBoundsAssumption == {MaxResets, MaxRenders, MaxPuts, MaxCacheRestarts} \subseteq Nat

Pages == Urls \cup {NoUrl}

VARIABLES
  url,         \* request.url
  page,        \* the page state.sources shows: NoUrl when there is no first screen
  readme,      \* state.sources has a first screen of the repo
  probed,      \* the page of state.probes
  reset,       \* the operator's call: [pc, url]
  render,      \* per rating page: [pc, url, epoch] and its copy of the sources
  probing,     \* the probe threads: [url, epoch]
  held,        \* per thread of judge: [pc] and its copy of the row
  epoch,       \* numbers the request's resets, from 1 (history)
  pageEpoch, probedEpoch,  \* the newest of them a writer of each had seen (history)
  latePage, lateProbe,     \* what was last written of each was older (history)
  resets, renders, puts, cacheRestarts   \* how many so far (bounds)

putVars == <<held, puts>>
epochs == <<pageEpoch, probedEpoch, latePage, lateProbe>>
cacheVars == <<url, page, readme, probed, reset, render, probing, epoch, epochs,
               resets, renders, cacheRestarts, putVars>>

NoReset == [pc |-> "idle", url |-> NoUrl]
NoRender == [pc |-> "idle", url |-> NoUrl, epoch |-> 0, page |-> NoUrl, readme |-> FALSE,
             late |-> FALSE]
NoRow == [pc |-> "idle", page |-> NoUrl, readme |-> FALSE, probed |-> NoUrl,
          pageEpoch |-> 0, probedEpoch |-> 0, latePage |-> FALSE, lateProbe |-> FALSE]

\* judge.start has just launched the probes; the page or the repo may have given no text.
CacheInit ==
  /\ url = CHOOSE u \in Urls : TRUE
  /\ page \in {NoUrl, url} /\ probed = NoUrl /\ readme \in BOOLEAN
  /\ reset = NoReset /\ render = [r \in Renders |-> NoRender]
  /\ probing = {[url |-> url, epoch |-> 1]} /\ held = [h \in Holders |-> NoRow]
  /\ epoch = 1 /\ pageEpoch = 1 /\ probedEpoch = 0 /\ latePage = FALSE /\ lateProbe = FALSE
  /\ resets = 0 /\ renders = 0 /\ puts = 0 /\ cacheRestarts = 0

-----------------------------------------------------------------------------
ResetRead(u) ==
  /\ reset.pc = "idle" /\ resets < MaxResets /\ resets' = resets + 1
  /\ reset' = [pc |-> "sources", url |-> u]
  /\ UNCHANGED <<url, page, readme, probed, render, probing, epoch, epochs, renders, cacheRestarts, putVars>>

\* _first_screen: nothing for a page that gave no text.
FirstScreen(u, readable) == IF readable THEN u ELSE NoUrl

\* Without a link of the page, the README's live link is the request's.
LinkOr(u, about, live) == IF u = NoUrl /\ about THEN live ELSE u

\* (mutant) Only a job that has no readable page takes the new one.
ResetSourcesOnce(readable, about, live) ==
  /\ reset.pc = "sources"
  /\ page' = IF page = NoUrl /\ readable THEN reset.url ELSE page
  /\ readme' = about /\ UNCHANGED <<pageEpoch, latePage>>
  /\ reset' = [reset EXCEPT !.pc = "request"]
  /\ UNCHANGED <<url, probed, render, probing, epoch, probedEpoch, lateProbe, resets, renders, cacheRestarts, putVars>>

\* _resolve_sources reads every link the request has left, and the repo.
ResetSources(readable, about, live) ==
  /\ reset.pc = "sources"
  /\ page' = FirstScreen(reset.url, readable) /\ readme' = about
  /\ pageEpoch' = epoch + 1 /\ latePage' = FALSE
  /\ reset' = [pc |-> "request", url |-> LinkOr(reset.url, about, live)]
  /\ UNCHANGED <<url, probed, render, probing, epoch, probedEpoch, lateProbe, resets, renders, cacheRestarts, putVars>>

\* (mutant) The probes are not run again.
ResetRequestOnly ==
  /\ reset.pc = "request"
  /\ url' = reset.url /\ epoch' = epoch + 1 /\ reset' = NoReset
  /\ UNCHANGED <<page, readme, probed, render, probing, epochs, resets, renders, cacheRestarts, putVars>>

\* update_request, and the probe thread for the new page; an old one is not stopped.
ResetRequest ==
  /\ reset.pc = "request"
  /\ url' = reset.url /\ epoch' = epoch + 1 /\ reset' = NoReset
  /\ probing' = probing \cup (IF reset.url = NoUrl THEN {} ELSE {[url |-> reset.url, epoch |-> epoch + 1]})
  /\ UNCHANGED <<page, readme, probed, render, epochs, resets, renders, cacheRestarts, putVars>>

\* probes.run answers for every page: a failure is a result.
ProbeDone(t) ==
  /\ t \in probing /\ probing' = probing \ {t}
  /\ probed' = t.url
  /\ probedEpoch' = (IF t.epoch > probedEpoch THEN t.epoch ELSE probedEpoch) /\ lateProbe' = (t.epoch < probedEpoch)
  /\ UNCHANGED <<url, page, readme, reset, render, epoch, pageEpoch, latePage, resets, renders, cacheRestarts, putVars>>

\* rate_page reads the job.
RenderRead(r) ==
  /\ render[r].pc = "idle" /\ renders < MaxRenders /\ renders' = renders + 1
  /\ render' = [render EXCEPT ![r] =
       [pc |-> "page", url |-> url, epoch |-> epoch, page |-> page, readme |-> readme, late |-> latePage]]
  /\ UNCHANGED <<url, page, readme, probed, reset, probing, epoch, epochs, resets, cacheRestarts, putVars>>

\* patch_job_state("sources"): the copy is put back whole, with what was late in it.
PatchSources(r, p, about, late) ==
  /\ page' = p /\ readme' = about
  /\ latePage' = (late \/ render[r].epoch < pageEpoch)
KeepSources == UNCHANGED <<page, readme, latePage>>

\* ensure_page_source: a page with a first screen is left alone, as is one that is empty.
RenderPage(r, readable) ==
  LET c == render[r]
      reads == c.page = NoUrl /\ c.url # NoUrl /\ readable IN
  /\ c.pc = "page"
  /\ IF reads THEN PatchSources(r, c.url, c.readme, FALSE) ELSE KeepSources
  /\ render' = [render EXCEPT ![r] =
       IF reads THEN [c EXCEPT !.pc = "repo", !.page = c.url, !.late = FALSE] ELSE [c EXCEPT !.pc = "repo"]]
  /\ UNCHANGED <<url, probed, reset, probing, epoch, pageEpoch, probedEpoch, lateProbe, resets, renders, cacheRestarts, putVars>>

\* ensure_repo_source, with the page of the same copy.
RenderRepo(r, about) ==
  LET c == render[r] IN
  /\ c.pc = "repo"
  /\ IF ~c.readme /\ about THEN PatchSources(r, c.page, TRUE, c.late) ELSE KeepSources
  /\ render' = [render EXCEPT ![r] = NoRender]
  /\ UNCHANGED <<url, probed, reset, probing, epoch, pageEpoch, probedEpoch, lateProbe, resets, renders, cacheRestarts, putVars>>

\* on_human_answer, settle_on_timeout, _notify, verdict: the row is read, and later
\* put back whole, with what was written in between undone.
RowRead(h) ==
  /\ held[h].pc = "idle" /\ puts < MaxPuts /\ puts' = puts + 1
  /\ held' = [held EXCEPT ![h] =
       [pc |-> "row", page |-> page, readme |-> readme, probed |-> probed, pageEpoch |-> pageEpoch,
        probedEpoch |-> probedEpoch, latePage |-> latePage, lateProbe |-> lateProbe]]
  /\ UNCHANGED <<url, page, readme, probed, reset, render, probing, epoch, epochs,
                 resets, renders, cacheRestarts>>
RowPut(h) ==
  LET c == held[h] IN
  /\ c.pc = "row"
  /\ page' = c.page /\ readme' = c.readme /\ probed' = c.probed
  /\ latePage' = (c.latePage \/ c.pageEpoch < pageEpoch)
  /\ lateProbe' = (c.lateProbe \/ c.probedEpoch < probedEpoch)
  /\ held' = [held EXCEPT ![h] = NoRow]
  /\ UNCHANGED <<url, reset, render, probing, epoch, pageEpoch, probedEpoch,
                 resets, renders, puts, cacheRestarts>>

\* Nothing runs the threads of a restarted instance again.
CacheRestart ==
  /\ cacheRestarts < MaxCacheRestarts /\ cacheRestarts' = cacheRestarts + 1
  /\ reset' = NoReset /\ render' = [r \in Renders |-> NoRender] /\ probing' = {}
  /\ held' = [h \in Holders |-> NoRow]
  /\ UNCHANGED <<url, page, readme, probed, epoch, epochs, resets, renders, puts>>

\* stimulus: the first screen, or the link alone.
Shown == IF page = NoUrl THEN url ELSE page

CacheNext ==
  \/ \E u \in Pages : ResetRead(u)
  \/ \E readable, about \in BOOLEAN, live \in Pages : ResetSources(readable, about, live)
  \/ ResetRequest
  \/ \E t \in probing : ProbeDone(t)
  \/ \E r \in Renders : \/ RenderRead(r)
                        \/ \E found \in BOOLEAN : RenderPage(r, found) \/ RenderRepo(r, found)
  \/ \E h \in Holders : RowRead(h) \/ RowPut(h)
  \/ CacheRestart

CacheSpec == CacheInit /\ [][CacheNext]_cacheVars

-----------------------------------------------------------------------------
(* Properties.                                                             *)

CacheTypeOK ==
  /\ url \in Pages /\ page \in Pages /\ probed \in Pages
  /\ reset \in [pc : {"idle", "sources", "request"}, url : Pages]
  /\ render \in [Renders -> [pc : {"idle", "page", "repo"}, url : Pages, epoch : Nat,
                             page : Pages, readme : BOOLEAN, late : BOOLEAN]]
  /\ probing \subseteq [url : Urls, epoch : Nat]
  /\ epoch \in Nat /\ pageEpoch \in Nat /\ probedEpoch \in Nat
  /\ readme \in BOOLEAN /\ latePage \in BOOLEAN /\ lateProbe \in BOOLEAN
  /\ held \in [Holders -> [pc : {"idle", "row"}, page : Pages, readme : BOOLEAN, probed : Pages,
                            pageEpoch : Nat, probedEpoch : Nat, latePage : BOOLEAN, lateProbe : BOOLEAN]]
  /\ resets \in Nat /\ renders \in Nat /\ puts \in Nat /\ cacheRestarts \in Nat

\* Raters are shown the page of the request (rate_v2.stimulus), unless a rating page
\* or a put of the whole row wrote last what it had read before the reset, or a
\* restart split the reset.
ShownIsAsked ==
  reset.pc # "request" /\ ~latePage /\ cacheRestarts = 0 => Shown = url

\* Once no probe is running, the evidence is about the page of the request
\* (judge.verdict), unless the thread of an older page was the last to end, a put of
\* the whole row brought back what it had read before the probes were stored, a
\* restart took the new one's thread or the page was taken off the request.
ProbedIsAsked ==
  probing = {} /\ url # NoUrl /\ ~lateProbe /\ cacheRestarts = 0 => probed = url
=============================================================================
