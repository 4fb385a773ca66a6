----------------------------- MODULE MCLeaseStore -----------------------------
(* Three cells (two asking for blocks, one for a single IP) against two    *)
(* network lists whose pools hold exactly one lease per cell, in a 5-bit   *)
(* space: any lease handed out twice, or any subnet getAvailable misses,  *)
(* leaves a cell without one.                                              *)
EXTENDS LeaseStore, TLC

CONSTANTS h1, h2, h3, none

MCHosts == {h1, h2, h3}
MCSingle == (h1 :> FALSE) @@ (h2 :> FALSE) @@ (h3 :> TRUE)

\* 0.0.0.0/3 and 8.0.0.0/3 with mask 4: blocks 2/4 and 10/4, single IP
\* 1/5; after the change 16.0.0.0/3 and 24.0.0.0/3: blocks 18/4 and 26/4,
\* single IP 17/5.
C1 == [ranges |-> << [addr |-> 0, prefix |-> 3], [addr |-> 8, prefix |-> 3] >>, mask |-> 4]
C2 == [ranges |-> << [addr |-> 16, prefix |-> 3], [addr |-> 24, prefix |-> 3] >>, mask |-> 4]
MCConfigs == {C1, C2}
====
