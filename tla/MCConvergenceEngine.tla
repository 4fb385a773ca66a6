------------------------- MODULE MCConvergenceEngine -------------------------
(***************************************************************************)
(* Three cells: the local one (hL, lease sL on network n1) and two remote *)
(* ones.  s1 and s3 are on n1 (s3 a single IP), s2 on n2, s4 outside     *)
(* both networks.  The lease lists re-lease s1 to another cell, hand out  *)
(* a lease outside the networks and a single IP; a previous run may have  *)
(* left the entries of a lease that is gone.  One list serves a          *)
(* malformed lease next to good ones.                                     *)
(***************************************************************************)
EXTENDS ConvergenceEngine, TLC

CONSTANTS hL, hA, hB, sL, s1, s2, s3, s4, n1, n2, outside, fr

MCHosts == {hL, hA, hB}
MCSubnets == {sL, s1, s2, s3, s4}
MCNetOf == (sL :> n1) @@ (s1 :> n1) @@ (s2 :> n2) @@ (s3 :> n1) @@ (s4 :> outside)
MCSingleIP == [s \in MCSubnets |-> s = s3]
MCForeign == {fr}

L(h, s) == [host |-> h, subnet |-> s, ok |-> TRUE]
Bad(h, s) == [host |-> h, subnet |-> s, ok |-> FALSE]

MCLists ==
    { {L(hL, sL), L(hA, s1), L(hB, s2)},
      {L(hL, sL), L(hB, s1), L(hA, s4)},
      {L(hL, sL), L(hA, s3)},
      {L(hL, sL), L(hA, s1), Bad(hB, s2)} }

MCInitKernels ==
    { [routes |-> {fr}, arp |-> {}, fdb |-> {}],
      [routes |-> {fr, s2}, arp |-> {s2}, fdb |-> {<<s2, hA>>}] }
====
