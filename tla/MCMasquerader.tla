---------------------------- MODULE MCMasquerader ----------------------------
(* Two plugin invocations, one asking the daemon and one with a custom     *)
(* range, against a daemon with two possible leases.                       *)
EXTENDS Masquerader, TLC

CONSTANTS i1, i2, l1, l2, none

MCInstances == {i1, i2}
MCLeases == {l1, l2}
MCCustom == (i1 :> none) @@ (i2 :> l2)
====
