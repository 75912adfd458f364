--------------------------- MODULE MCSpendEnvelope ---------------------------
(* An instance of SpendEnvelope for TLC: the arms, scaled down in price.   *)
EXTENDS SpendEnvelope, TLC

CONSTANTS t1, t2

MCThreads == {t1, t2}
MCArms == {"ensemble", "linq_panel", "terac_general", "terac_expert"}
MCListPrice ==
  [a \in MCArms |-> CASE a = "ensemble" -> 1 [] a = "linq_panel" -> 1
                      [] a = "terac_general" -> 4 [] a = "terac_expert" -> 9]
MCBackend ==
  [a \in MCArms |-> CASE a = "ensemble" -> "local" [] a = "linq_panel" -> "linq"
                      [] OTHER -> "terac"]
MCAllowedArms == {"ensemble", "linq_panel", "terac_general"}

Buy(arm, paid, forced) == [kind |-> "start", paid |-> paid, arm |-> arm, forced |-> forced]
Recruit(arm, sum) == [kind |-> "operator", paid |-> sum, arm |-> arm, forced |-> FALSE]
\* Paid and unpaid buyers, with and without humans sold, through each backend and an arm the
\* envelope does not allow; operators with a sum that is enough for some quotes and not others.
MCPurchases ==
  { Buy("terac_general", 8, TRUE), Buy("terac_general", 5, FALSE), Buy("terac_general", 0, TRUE),
    Buy("linq_panel", 8, TRUE), Buy("ensemble", 5, FALSE), Buy("terac_expert", 8, TRUE),
    Recruit("terac_general", 8), Recruit("linq_panel", 0), Recruit("ensemble", 5) }

ThreadSymmetry == Permutations(MCThreads)
=============================================================================
