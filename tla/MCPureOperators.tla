-------------------------- MODULE MCPureOperators --------------------------
(***************************************************************************)
(* The two input-enumeration suites of the operators the controller and   *)
(* the daemon build from the operator's network configuration: the pool   *)
(* of NewCIDRPool (MCCIDRPool) and ConfigCreator.locateInterface         *)
(* (MCVTEPConfigCreator).  Their inputs are independent, so a state is an *)
(* input of one suite with a fixed, deployable input of the other: the    *)
(* two input sets are checked side by side rather than as a product.      *)
(***************************************************************************)
EXTENDS MCCIDRPool, MCVTEPConfigCreator

vars == <<ranges, mask, ad>>

\* One network 0/1 with blocks of mask 3, and one interface carrying the
\* underlay address.
FixedPool == ranges = << [addr |-> 0, prefix |-> 1] >> /\ mask = 3
FixedLocate ==
    ad = [interfaces |-> <<e1>>, addrs |-> [i \in MCIfaces |-> <<ip1>>]]

Init == (PoolInit /\ FixedLocate) \/ (LocateInit /\ FixedPool)

Next == UNCHANGED vars

Spec == Init /\ [][Next]_vars
====
