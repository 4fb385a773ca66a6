---------------------------- MODULE MCPolicyCycle ----------------------------
(***************************************************************************)
(* Two planners (the policy agent has a vxlan and a dynamic-egress one),  *)
(* two rule sets per chain so that a change and its revert both happen,   *)
(* two server updates and two failures.                                   *)
(***************************************************************************)
EXTENDS PolicyCycle

CONSTANTS r1, r2, none

MCPlanners == 1 .. 2
MCRules == {r1, r2}
=============================================================================
