------------------------- MODULE MultipleCIDRNetwork -------------------------
(***************************************************************************)
(* lib/multiple-cidr-network: one or more overlay ranges and the questions *)
(* asked of them.  An IPv4 address is a natural number below 2^AddrBits;  *)
(* the code's 32 is the constant AddrBits, so that TLC can enumerate small *)
(* address spaces while every "32 - prefix" keeps its meaning.            *)
(*                                                                         *)
(* A CIDR string as written by the operator is a record [addr, prefix];   *)
(* net.ParseCIDR turns it into a network [ip, prefix] whose ip is the     *)
(* address with the host bits cleared.                                    *)
(***************************************************************************)
EXTENDS Integers, Sequences

CONSTANT AddrBits            \* the width of an address (32 in the code)

ASSUME AddrBits \in Nat \ {0}

RECURSIVE Pow2(_)
Pow2(n) == IF n = 0 THEN 1 ELSE 2 * Pow2(n - 1)

Addresses == 0 .. Pow2(AddrBits) - 1

\* The size of the range a prefix length denotes: 1 << (32 - prefix).
RangeSize(prefix) == Pow2(AddrBits - prefix)

\* net.ParseCIDR: fails on a bad address or a prefix outside [0, 32];
\* otherwise the network address is the given address masked to prefix.
ValidCIDR(c) == c.addr \in Addresses /\ c.prefix \in 0 .. AddrBits

ParseCIDR(c) == [ip     |-> c.addr - (c.addr % RangeSize(c.prefix)),
                 prefix |-> c.prefix]

\* net.IPNet.Contains
NetContains(n, a) == n.ip <= a /\ a < n.ip + RangeSize(n.prefix)

\* NewMultipleCIDRNetwork: parses every entry in order (the first invalid
\* entry is an error) and tracks the numerically largest prefix, starting
\* from the first entry's and 0 for an empty list.
CIDRsValid(cidrs) == \A i \in DOMAIN cidrs : ValidCIDR(cidrs[i])

NewMultipleCIDRNetwork(cidrs) ==
    LET nets == [i \in DOMAIN cidrs |-> ParseCIDR(cidrs[i])]
        masks == {nets[i].prefix : i \in DOMAIN nets}
    IN  [Networks     |-> nets,
         SmallestMask |-> IF masks = {} THEN 0
                          ELSE CHOOSE m \in masks : \A o \in masks : m >= o]

\* Contains: some member network contains the address.
MCNContains(m, a) == \E i \in DOMAIN m.Networks : NetContains(m.Networks[i], a)

\* WhichNetworkContains: the first member network containing the address,
\* NoNetwork when there is none.
NoNetwork == [ip |-> -1, prefix |-> -1]

WhichNetworkContains(m, a) ==
    LET hits == {i \in DOMAIN m.Networks : NetContains(m.Networks[i], a)}
    IN  IF hits = {} THEN NoNetwork
        ELSE m.Networks[CHOOSE i \in hits : \A j \in hits : i <= j]
=============================================================================
