----------------------------- MODULE MCASGCycle -----------------------------
(***************************************************************************)
(* Two containers (so a full poll handles one while cleaning the other), *)
(* two rule sets (a change and its revert), three timestamps per         *)
(* container (recorded, stray and new chain), two updates, two failures. *)
(* Only c1's rule set carries an app Guid.                                 *)
(***************************************************************************)
EXTENDS ASGCycle

CONSTANTS c1, c2, a1, a2, noRules

MCContainers == {c1, c2}
MCASGRules == {a1, a2}
MCHasGuid == {c1}
=============================================================================
