----------------------------- MODULE MCCIDRPool -----------------------------
(***************************************************************************)
(* Checks the pool generation of cidrpool.go against reference            *)
(* definitions over every small configuration: the input is one choice   *)
(* of overlay ranges and subnet mask, and each invariant is a statement   *)
(* about the pool NewCIDRPool builds for it.  MCPureOperators runs it.    *)
(***************************************************************************)
EXTENDS CIDRPool, VTEPConfig, Functions

\* Addresses an operator may write (aligned and unaligned ones).
CONSTANT RangeAddrs

VARIABLES ranges, mask

CIDRs == [addr : RangeAddrs, prefix : 0 .. AddrBits]

PoolInit ==
    /\ ranges \in [1..1 -> CIDRs] \cup [1..2 -> CIDRs]
    /\ mask \in 0 .. AddrBits

Pool == NewCIDRPool(ranges, mask)
Nets == NewMultipleCIDRNetwork(ranges).Networks

\* The configurations the system runs with: the pool does not panic, the
\* daemon's ConfigCreator accepts the networks for this mask, and the
\* operator keeps the networks disjoint.
Deployable ==
    /\ ~PoolPanics(ranges, mask)
    /\ OverlayNetworksAccepted(ranges, mask)
    /\ \A i, j \in DOMAIN Nets :
          i # j => \A a \in Addresses : ~(NetContains(Nets[i], a) /\ NetContains(Nets[j], a))

\* Block pool size (spec, testable properties): the sum over the networks
\* of 2^(32-prefix) / 2^(32-mask) - 1, i.e. every aligned block but the
\* first of every network.
BlockPoolSizeMatchesReference ==
    Deployable =>
        BlockPoolSize(Pool) =
            SumFunction([i \in DOMAIN Nets |->
                            RangeSize(Nets[i].prefix) \div RangeSize(mask) - 1])

\* Single-IP pool size: 2^(32-mask) - 1, whatever the number of networks.
SingleIPPoolSizeMatchesReference ==
    Deployable => SingleIPPoolSize(Pool) = RangeSize(mask) - 1

\* Every candidate lies inside a configured network, never covers a
\* network's first address (reserved for the cell-to-cell setup), and no
\* two candidates (block or single) share an address, so leases handed out
\* from one pool never overlap.
PoolCandidatesDisjointAndInside ==
    Deployable =>
        LET all == Pool.blockPool \cup Pool.singlePool
        IN  /\ \A s \in all :
                 /\ \E i \in DOMAIN Nets : SubnetAddrs(s) \subseteq
                        Nets[i].ip .. Nets[i].ip + RangeSize(Nets[i].prefix) - 1
                 /\ \A i \in DOMAIN Nets : Nets[i].ip \notin SubnetAddrs(s)
            /\ \A s, t \in all : s # t => SubnetAddrs(s) \cap SubnetAddrs(t) = {}
=============================================================================
