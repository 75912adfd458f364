----------------------------- MODULE MCPayments -----------------------------
(* Instances of Payments for TLC: which session pays for which job.        *)
EXTENDS Payments, TLC

CONSTANT Shape   \* the name of the instance below

Instances ==
  \* two sessions race for order 1, an unknown reference, no reference
  [ shop    |-> [jobOf |-> <<1, 1, 11, 12>>, referenced |-> {1, 2, 3}, amount |-> <<8, 8, 8, 5>>],
  \* one session per job: an order, a free order and a walk-up
    apart   |-> [jobOf |-> <<1, 2, 11>>, referenced |-> {1, 2}, amount |-> <<8, 0, 5>>],
  \* one order, one session
    single  |-> [jobOf |-> <<1>>, referenced |-> {1}, amount |-> <<8>>] ]

MCJobOf == Instances[Shape].jobOf
MCReferenced == Instances[Shape].referenced
MCAmount == Instances[Shape].amount
MCSessions == DOMAIN MCJobOf
=============================================================================
