------------------------------ MODULE MCParts -------------------------------
\* The instance of the Parts run: the components that share no state with one
\* another, each checked by itself.  part says which one moves.
EXTENDS RaterList, SourceCache, Admission, EvidenceReport, HackathonStamp, RatingPages,
        ReplayQA, TLC

VARIABLE part

PartNames == {"raters", "sources", "admission", "report", "stamps", "pages", "replay"}

PartsInit ==
  /\ part \in PartNames
  /\ RatersInit /\ CacheInit /\ AdmissionInit /\ ReportInit /\ StampInit /\ PagesInit
  /\ ReplayInit
  /\ part # "admission" => ~dev
  /\ part # "pages" => ~brief
  /\ part # "sources" => page = NoUrl /\ ~readme

PartsNext ==
  \/ part = "raters" /\ RatersNext
     /\ UNCHANGED <<part, cacheVars, admissionVars, reportVars, stampVars, pageVars, replayVars>>
  \/ part = "sources" /\ CacheNext
     /\ UNCHANGED <<part, raterVars, admissionVars, reportVars, stampVars, pageVars, replayVars>>
  \/ part = "admission" /\ AdmissionNext
     /\ UNCHANGED <<part, raterVars, cacheVars, reportVars, stampVars, pageVars, replayVars>>
  \/ part = "report" /\ ReportNext
     /\ UNCHANGED <<part, raterVars, cacheVars, admissionVars, stampVars, pageVars, replayVars>>
  \/ part = "stamps" /\ StampNext
     /\ UNCHANGED <<part, raterVars, cacheVars, admissionVars, reportVars, pageVars, replayVars>>
  \/ part = "pages" /\ PagesNext
     /\ UNCHANGED <<part, raterVars, cacheVars, admissionVars, reportVars, stampVars, replayVars>>
  \/ part = "replay" /\ ReplayNext
     /\ UNCHANGED <<part, raterVars, cacheVars, admissionVars, reportVars, stampVars, pageVars>>

partsVars ==
  <<part, raterVars, cacheVars, admissionVars, reportVars, stampVars, pageVars, replayVars>>

PartsSpec == PartsInit /\ [][PartsNext]_partsVars

PartsTypeOK ==
  /\ RatersTypeOK /\ CacheTypeOK /\ AdmissionTypeOK /\ ReportTypeOK /\ StampTypeOK /\ PagesTypeOK
  /\ ReplayTypeOK

-----------------------------------------------------------------------------
MCAux == <<"robots", "privacy">>
MCSpace == [title |-> "audit", link |-> "audit", robots |-> "audit", privacy |-> "live",
            commerce |-> "agentready", selfserve |-> "autonomy"]
MCReportClaims == {"indexable", "policy", "agents", "buy"}
MCCheckOf == [indexable |-> {"title", "robots"}, policy |-> {"privacy"}, agents |-> {"commerce"},
              buy |-> {"selfserve"}]
MCGap == [indexable |-> "take_money", policy |-> "take_money", agents |-> "take_money", buy |-> "payer"]
NoConsensus == [side |-> "unknown", p |-> 50]
MCConsensus == [indexable |-> NoConsensus, policy |-> NoConsensus, agents |-> NoConsensus,
                buy |-> [side |-> "yes", p |-> 55]]

MCItemClaims == [runs |-> {"j1"}, craft |-> {"j2"}, terac |-> {"s1", "s2"}, stall |-> {"a1"}, spend |-> {"a2"}]

Fellows == Permutations(Respondents) \cup Permutations(Sources)
=============================================================================
