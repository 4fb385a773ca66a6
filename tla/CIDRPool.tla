------------------------------ MODULE CIDRPool ------------------------------
(***************************************************************************)
(* silk/controller/leaser/cidrpool.go: the candidate subnets the lease    *)
(* controller hands out.  A subnet string "<addr>/<mask>" is the record   *)
(* [ip, mask]; two subnets are the same string exactly when the records   *)
(* are equal, which is what IsMember and the taken-list filter compare.   *)
(***************************************************************************)
EXTENDS MultipleCIDRNetwork, FiniteSets

Subnet(ip, mask) == [ip |-> ip, mask |-> mask]

\* getAvailable's "" result.
NoSubnet == Subnet(-1, -1)

\* The addresses a subnet covers.
SubnetAddrs(s) == s.ip .. s.ip + RangeSize(s.mask) - 1

\* netaddr.IPAdd on an IPv4 address: a 32-bit addition.
IPAdd(ip, i) == (ip + i) % Pow2(AddrBits)

\* NewCIDRPool panics on an empty range list, an unparsable range or a
\* mask outside [0-32].
PoolPanics(ranges, mask) ==
    \/ ranges = << >>
    \/ ~CIDRsValid(ranges)
    \/ mask \notin 0 .. AddrBits

\* Plausible faults, for mutation checks: the block loop stopping one
\* block early, the single loop stopping one address early, and the block
\* string written with the network's mask (cidrMask) instead of the block's.
BlockOffsetsStopEarly(blockSize, fullRange) ==
    {k * blockSize : k \in 1 .. (fullRange - 1) \div blockSize - 1}
SingleOffsetsStopEarly(blockSize) == 1 .. blockSize - 2
BlockSubnetNetworkMask(n, i, cidrMaskBlock) == Subnet(IPAdd(n.ip, i), n.prefix)

\* for i := blockSize; i < fullRange; i += blockSize
BlockOffsets(blockSize, fullRange) ==
    {k * blockSize : k \in 1 .. (fullRange - 1) \div blockSize}

\* for i := 1; i < blockSize; i++
SingleOffsets(blockSize) == 1 .. blockSize - 1

\* fmt.Sprintf("%s/%d", netaddr.IPAdd(ipStart, i), cidrMaskBlock)
BlockSubnet(n, i, cidrMaskBlock) == Subnet(IPAdd(n.ip, i), cidrMaskBlock)

\* generateBlockPool: in every network, every block from the second one
\* (i := blockSize) while i < fullRange, at stride blockSize.
generateBlockPool(overlayNetworks, cidrMaskBlock) ==
    LET blockSize == RangeSize(cidrMaskBlock)
        BlocksOf(n) ==
            { BlockSubnet(n, i, cidrMaskBlock) :
                i \in BlockOffsets(blockSize, RangeSize(n.prefix)) }
    IN  UNION { BlocksOf(overlayNetworks.Networks[i]) :
                    i \in DOMAIN overlayNetworks.Networks }

\* generateSingleIPPool: only the first network, offsets 1 .. blockSize-1.
generateSingleIPPool(overlayNetworks, cidrMaskBlock) ==
    LET firstNetwork == overlayNetworks.Networks[1]
    IN  { Subnet(IPAdd(firstNetwork.ip, i), AddrBits) :
            i \in SingleOffsets(RangeSize(cidrMaskBlock)) }

NewCIDRPool(subnetRanges, subnetMask) ==
    LET overlayNetworks == NewMultipleCIDRNetwork(subnetRanges)
    IN  [blockPool  |-> generateBlockPool(overlayNetworks, subnetMask),
         singlePool |-> generateSingleIPPool(overlayNetworks, subnetMask)]

GetBlockPool(pool) == pool.blockPool
GetSinglePool(pool) == pool.singlePool

BlockPoolSize(pool) == Cardinality(pool.blockPool)
SingleIPPoolSize(pool) == Cardinality(pool.singlePool)

\* A plausible fault, for mutation checks: "" returned while one subnet
\* is still available (len(available) <= 1).
getAvailableOffByOne(taken, pool) ==
    IF Cardinality(pool \ taken) <= 1 THEN {NoSubnet} ELSE pool \ taken

\* getAvailable: the pool minus every taken string; when nothing is left
\* the result is "", otherwise a uniformly random member.  The set of
\* results it can return:
getAvailable(taken, pool) ==
    IF pool \ taken = {} THEN {NoSubnet} ELSE pool \ taken

GetAvailableBlock(pool, taken) == getAvailable(taken, pool.blockPool)
GetAvailableSingleIP(pool, taken) == getAvailable(taken, pool.singlePool)

IsMember(pool, subnet) ==
    subnet \in pool.blockPool \/ subnet \in pool.singlePool
=============================================================================
