-------------------------- MODULE VTEPConfigCreator --------------------------
(***************************************************************************)
(* silk/daemon/vtep/config_creator.go: ConfigCreator.Create, which turns  *)
(* the daemon's client config and its lease into the VTEP config, with   *)
(* its early returns in the order the code makes them, and               *)
(* locateInterface, which scans the host's interfaces for the underlay   *)
(* address.  The network adapter's answers are inputs: an interface list *)
(* or an error, and for each interface its addresses or an error.        *)
(* Strings are abstracted to what the checks tell apart: Bad is a value  *)
(* that fails to parse (an IP, a CIDR, a MAC or an address), NoName the  *)
(* empty interface name.                                                 *)
(***************************************************************************)
EXTENDS VTEPConfig, Sequences

CONSTANTS
    Ifaces,     \* the host's network interfaces (their names)
    IPs,        \* addresses an interface can carry, the underlay IP among them
    Bad,        \* an input string that does not parse
    NoName,     \* clientConf.VxlanInterfaceName == ""
    Err         \* an error returned by the network adapter

ASSUME Bad \notin IPs \cup Ifaces /\ NoName \notin Ifaces

\* The adapter's answers: Interfaces() and InterfaceAddrs(iface).
Adapters ==
    [interfaces : Seq(Ifaces) \cup {Err},
     addrs      : [Ifaces -> Seq(IPs \cup {Bad}) \cup {Err}]]

\* A plausible fault, for mutation checks: a bad address skipped instead
\* of returned as an error.
RECURSIVE ScanAddrsSkippingBad(_, _)
ScanAddrsSkippingBad(addrs, toFind) ==
    CASE addrs = << >>       -> "none"
      [] Head(addrs) = toFind -> "found"
      [] OTHER                -> ScanAddrsSkippingBad(Tail(addrs), toFind)

\* The inner loop of locateInterface over one interface's addresses:
\* "err" when an address fails net.ParseCIDR, "found" when its IP is
\* toFind, "none" when the addresses run out.
RECURSIVE ScanAddrs(_, _)
ScanAddrs(addrs, toFind) ==
    CASE addrs = << >>       -> "none"
      [] Head(addrs) = Bad    -> "err"
      [] Head(addrs) = toFind -> "found"
      [] OTHER                -> ScanAddrs(Tail(addrs), toFind)

\* The outer loop: the first interface whose scan finds toFind; an error
\* of InterfaceAddrs or of an address ends the search.
RECURSIVE Locate(_, _, _)
Locate(ifaces, ad, toFind) ==
    IF ifaces = << >> THEN Err
    ELSE LET i == Head(ifaces) IN
         IF ad.addrs[i] = Err THEN Err
         ELSE CASE ScanAddrs(ad.addrs[i], toFind) = "found" -> i
                [] ScanAddrs(ad.addrs[i], toFind) = "err"   -> Err
                [] OTHER -> Locate(Tail(ifaces), ad, toFind)

\* locateInterface(toFind): the interface carrying toFind, or Err.
locateInterface(ad, toFind) ==
    IF ad.interfaces = Err THEN Err ELSE Locate(ad.interfaces, ad, toFind)

\* The underlay interface: by name (InterfaceByName fails for a name no
\* interface has) or by the underlay address.
UnderlayInterface(conf, ad) ==
    IF conf.vxlanInterfaceName # NoName
    THEN IF conf.vxlanInterfaceName \in Ifaces THEN conf.vxlanInterfaceName ELSE Err
    ELSE locateInterface(ad, conf.underlayIP)

\* clientConf.VTEPPort < 1
PortTooSmall(port) == port < 1

\* The Config Create returns, with err "none"; VNI is passed through and
\* left out.
NewConfig(conf, iface, lease) ==
    [err                 |-> "none",
     vtepName            |-> conf.vtepName,
     underlayInterface   |-> iface,
     underlayIP          |-> conf.underlayIP,
     leaseIP             |-> lease.overlaySubnet.addr,
     overlayHardwareAddr |-> lease.overlayHardwareAddr,
     overlayNetworks     |-> NewMultipleCIDRNetwork(conf.overlayNetworks),
     vtepPort            |-> conf.vtepPort]

\* ConfigCreator.Create: the first failing check names the error;
\* otherwise the VTEP config.  net.ParseCIDR of the lease subnet returns
\* its address as written, not the network address.
Create(conf, lease, ad) ==
    LET Fail(e) == [err |-> e]
        iface == UnderlayInterface(conf, ad)
    IN
    CASE conf.vtepName = ""                  -> Fail("empty vtep name")
      [] PortTooSmall(conf.vtepPort)        -> Fail("vtep port")
      [] conf.underlayIP = Bad              -> Fail("parse underlay ip")
      [] iface = Err                        -> Fail("find device")
      [] lease.overlaySubnet = Bad          -> Fail("determine vtep overlay ip")
      [] lease.overlayHardwareAddr = Bad    -> Fail("parsing hardware address")
      [] conf.overlayNetworks = << >>       -> Fail("no overlay networks")
      [] ~CIDRsValid(conf.overlayNetworks)  -> Fail("creating multiple CIDR Network")
      [] NewMultipleCIDRNetwork(conf.overlayNetworks).SmallestMask >= conf.subnetPrefixLength
                                            -> Fail("overlay prefix")
      [] OTHER -> NewConfig(conf, iface, lease)
====
