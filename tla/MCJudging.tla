----------------------------- MODULE MCJudging -----------------------------
(* A small rubric for TLC: three claims before one persona, in two windows, *)
(* one claim before three, and one that only probes can decide; the arms at *)
(* the prices of core/voi.py.                                               *)
EXTENDS Judging

MCBatches == <<<<1, 2, 4>>, <<3>>>>
MCSeats == <<1, 3>>
ByArm(a, b, c, d) ==
  [arm \in ArmNames |->
     CASE arm = "ensemble" -> a [] arm = "linq_panel" -> b
       [] arm = "terac_general" -> c [] arm = "terac_expert" -> d]
MCPrice == ByArm(2, 100, 1350, 2800)
MCLatency == ByArm(1, 5, 60, 360)
MCPriorGain == ByArm(15, 45, 60, 75)
Flags ==
  [given : {"unset"}, force : BOOLEAN, room : BOOLEAN]
    \cup [given : Standards, force : {FALSE}, room : {FALSE}]
MCRequests ==
  {[given |-> f.given, force |-> f.force, room |-> f.room,
    stake |-> s, budget |-> b, deadline |-> t] :
     f \in Flags, s \in {20, 200}, b \in {800, 3000}, t \in {NoDeadline, 0, 30}}
=============================================================================
