----------------------------- MODULE VTEPConfig -----------------------------
(***************************************************************************)
(* silk/daemon/vtep/config_creator.go: the check ConfigCreator.Create    *)
(* makes of the overlay networks before the daemon builds its VTEP.  The  *)
(* other checks of Create (name, port, underlay address and interface,   *)
(* lease subnet, MAC) only parse operator input and are not modelled.    *)
(***************************************************************************)
EXTENDS MultipleCIDRNetwork

\* The overlay-network part of Create: a non-empty list, every entry a
\* valid CIDR, and the largest network prefix strictly below the subnet
\* prefix length.
OverlayNetworksAccepted(overlayNetworks, subnetPrefixLength) ==
    /\ overlayNetworks # << >>
    /\ CIDRsValid(overlayNetworks)
    /\ NewMultipleCIDRNetwork(overlayNetworks).SmallestMask < subnetPrefixLength

=============================================================================
