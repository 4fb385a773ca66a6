------------------------- MODULE MCVTEPConfigCreator -------------------------
(***************************************************************************)
(* Checks ConfigCreator.locateInterface against a reference definition   *)
(* over every small input: the state is one set of network-adapter       *)
(* answers, and the invariant is a statement about what the scan returns *)
(* for them.  MCPureOperators runs it.                                   *)
(***************************************************************************)
EXTENDS VTEPConfigCreator, FiniteSets, SequencesExt

CONSTANTS e1, e2, ip1, ip2, bad, noName, err

MCIfaces == {e1, e2}
MCIPs == {ip1, ip2}

VARIABLES ad

LocateInit ==
    ad \in [interfaces : {err, << >>, <<e1>>, <<e1, e2>>, <<e2, e1>>},
           addrs      : [MCIfaces -> {err, << >>, <<ip1>>, <<ip2>>, <<bad, ip1>>, <<ip2, ip1>>}]]

\* Where the scan over (interface, address) pairs, in list order, must
\* stop: an interface whose addresses cannot be read (address index 0),
\* an address that does not parse, or the address sought.
Stops(toFind) ==
    LET ifs == ad.interfaces IN
    UNION { IF ad.addrs[ifs[k]] = Err THEN {<<k, 0>>}
            ELSE {<<k, j>> : j \in {j \in 1 .. Len(ad.addrs[ifs[k]]) :
                                      ad.addrs[ifs[k]][j] \in {Bad, toFind}}}
          : k \in 1 .. Len(ifs) }

\* Reference for locateInterface: the earliest stop, taken in
\* lexicographic order; only a stop at the address sought finds one.
LocateReference(toFind) ==
    IF ad.interfaces = Err \/ Stops(toFind) = {} THEN Err
    ELSE LET s == CHOOSE s \in Stops(toFind) :
                      \A t \in Stops(toFind) : s[1] < t[1] \/ (s[1] = t[1] /\ s[2] <= t[2])
         IN  IF s[2] > 0 /\ ad.addrs[ad.interfaces[s[1]]][s[2]] = toFind
             THEN ad.interfaces[s[1]] ELSE Err

\* locateInterface returns the first interface, in the adapter's order,
\* that carries the underlay address, and an error whenever an interface
\* listed before it has unreadable addresses or an address that does not
\* parse: a broken interface earlier in the list stops the daemon from
\* finding its underlay device.
LocateMatchesReference ==
    \A toFind \in MCIPs : locateInterface(ad, toFind) = LocateReference(toFind)

====
