-------------------------- MODULE NetworkOverview --------------------------
(***************************************************************************)
(* Network discovery of one device: the overview merges a scan, the        *)
(* configured endpoints and services, and the statuses stored last; it     *)
(* stores what the scan says, hosts and ports in two commits.  The scan    *)
(* range is the smallest block around the addresses of the endpoints and   *)
(* the range stored before, between a narrowest and a widest size.         *)
(*                                                                         *)
(* A request reads all it needs in one step.  Addresses are numbers and a  *)
(* range is an aligned block of them.  One endpoint type has a default     *)
(* address; which type is suggested for a host or a port is left out, and  *)
(* a scan lists no host twice.                                             *)
(***************************************************************************)
EXTENDS Requests, Naturals, FiniteSetsExt

CONSTANTS
    Addresses,       \* IPv4 addresses of the device's network
    SixAddresses,    \* IPv6 addresses, which only the range counts as such
    Space,           \* 2^32: from here on a number is an IPv6 address
    Scale,           \* 2^96: an IPv6 block against an IPv4 one of its mask
    NotAnAddress,    \* stored for the ip role and no address
    Ports,
    NetEndpoints,    \* endpoints, numbered in the order of their creation
    NetServices,
    EndpointOf,      \* [NetServices -> NetEndpoints]
    Configurations,  \* what users may have configured
    Scans,           \* the scans clients post
    Sizes,           \* of IPv4 blocks, from narrowest (/24) to widest (/21)
    MaxTime          \* bound of the clock

Statuses == {"online", "offline", "unknown"}
Times == 0..MaxTime
Values == Addresses \cup SixAddresses \cup {NotAnAddress}
HostPorts == Addresses \X Ports
StatusRows == [status : Statuses, at : Times]

ConfigurationRows ==
    [ip : [NetEndpoints -> Values \cup {Null}],  \* what an endpoint stores
     default : Addresses \cup {Null},            \* the default of their type
     port : [NetServices -> Ports \cup {Null}]]

ScanRows ==
    [covers : SUBSET Addresses, ports : SUBSET Ports,
     found : PartialFunctions(Addresses,
                [status : Statuses, ports : PartialFunctions(Ports, Statuses)])]

Ranges == [base : Nat, size : Sizes \cup {n * Scale : n \in Sizes}]

ASSUME NetworkValues ==
    /\ MaxTime \in Nat
    /\ Addresses \subseteq Nat /\ SixAddresses \subseteq Nat \ Addresses
    /\ Space \in Nat /\ Scale \in Nat \ {0}
    /\ NetEndpoints \subseteq Nat
    /\ EndpointOf \in [NetServices -> NetEndpoints]
    /\ Configurations \subseteq ConfigurationRows
    /\ Scans \subseteq ScanRows
    /\ Sizes \subseteq Nat \ {0}
    /\ IsFiniteSet(Sizes) /\ Sizes # {}
    /\ NotAnAddress \notin Addresses \cup SixAddresses
    /\ Null \notin Values \cup Ports \cup StatusRows \cup Ranges \cup NetEndpoints \cup NetServices

NoScan == [covers |-> {}, ports |-> {}, found |-> Nothing]

VARIABLES
    netConfig,   \* endpoint and service rows of the device
    hostStatus,  \* table device_host_status
    portStatus,  \* table device_port_status
    scanRange,   \* table device_network_range
    netClock,
    netPc,
    netArg       \* what each request has been sent and has read

netVars == <<netConfig, hostStatus, portStatus, scanRange, netClock, netPc, netArg>>

NetBlank == [scan |-> NoScan, at |-> 0, config |-> Null, hosts |-> Null, ports |-> Null,
             range |-> Null]

NetInit ==
    /\ netConfig \in Configurations
    /\ hostStatus = [ip \in Addresses |-> Null]
    /\ portStatus = [x \in HostPorts |-> Null]
    /\ scanRange = Null
    /\ netClock = 0
    /\ netPc = [r \in Requests |-> "idle"]
    /\ netArg = [r \in Requests |-> NetBlank]

NetBegin(r, step, a) ==
    /\ netPc[r] = "idle"
    /\ netPc' = [netPc EXCEPT ![r] = step]
    /\ netArg' = [netArg EXCEPT ![r] = a]
    /\ UNCHANGED <<netConfig, hostStatus, portStatus, scanRange, netClock>>

NetEnd(r) ==
    /\ netPc' = [netPc EXCEPT ![r] = "idle"]
    /\ netArg' = [netArg EXCEPT ![r] = NetBlank]
    /\ UNCHANGED <<netConfig, netClock>>

-----------------------------------------------------------------------------
(* The overview, from a request's scan and what it has read *)

(* _is_probeable_ip *)
Probeable(value) == value \in Addresses

EndpointsAt(a, ip) == {e \in NetEndpoints : a.config.ip[e] = ip}
ServicesOf(e) == {s \in NetServices : EndpointOf[s] = e}
ClaimedPorts(a, ip) ==
    {a.config.port[s] : s \in {x \in NetServices : EndpointOf[x] \in EndpointsAt(a, ip)}}
        \ {Null}

(* _resolve_status_change *)
ResolveStatusChange(previous, status, now) ==
    IF previous = Null THEN now
    ELSE IF previous.status # status THEN now ELSE previous.at

Observed(previous, status, now) ==
    [status |-> status, at |-> ResolveStatusChange(previous, status, now)]

LastKnown(previous, now) ==
    IF previous # Null THEN previous ELSE [status |-> "offline", at |-> now]

(* Covered by the scan and not reported: gone. *)
Vanished(a) ==
    {ip \in a.scan.covers \ DOMAIN a.scan.found : EndpointsAt(a, ip) # {}}

(* new_host_statuses *)
NewHosts(a) ==
    [ip \in DOMAIN a.scan.found \cup Vanished(a) |->
        Observed(a.hosts[ip],
                 IF ip \in DOMAIN a.scan.found THEN a.scan.found[ip].status ELSE "offline",
                 a.at)]

ReportedPorts(a) ==
    {x \in HostPorts : x[1] \in DOMAIN a.scan.found /\ x[2] \in DOMAIN a.scan.found[x[1]].ports}

(* Mutant of VanishedPorts: ports that were not scanned are gone too. *)
UnreportedPorts(a) ==
    {x \in HostPorts : /\ x[2] \in ClaimedPorts(a, x[1])
                       /\ x[1] \in Vanished(a) \cup DOMAIN a.scan.found} \ ReportedPorts(a)

(* On a host that was reported, only the ports that were scanned are gone; *)
(* on one that vanished, all.                                              *)
VanishedPorts(a) ==
    {x \in HostPorts :
        /\ x[2] \in ClaimedPorts(a, x[1])
        /\ \/ x[1] \in Vanished(a)
           \/ x[1] \in DOMAIN a.scan.found /\ x[2] \in a.scan.ports}
    \ ReportedPorts(a)

(* new_port_statuses *)
NewPorts(a) ==
    [x \in ReportedPorts(a) \cup VanishedPorts(a) |->
        Observed(a.ports[x],
                 IF x \in ReportedPorts(a) THEN a.scan.found[x[1]].ports[x[2]] ELSE "offline",
                 a.at)]

(* _unknown_port, and the status of what cannot be probed *)
Unknown == [status |-> "unknown", at |-> Null]

PortShown(a, ip, port) ==
    IF port = Null THEN Unknown
    ELSE IF <<ip, port>> \in DOMAIN NewPorts(a) THEN NewPorts(a)[<<ip, port>>]
    ELSE LastKnown(a.ports[<<ip, port>>], a.at)

ServiceEntries(a, e, ip) ==
    {[service |-> s, port |-> a.config.port[s], row |-> PortShown(a, ip, a.config.port[s])] :
        s \in ServicesOf(e)}

(* Suggested or unidentified ports of a host *)
UnclaimedPorts(a, ip) ==
    {[service |-> Null, port |-> p, row |-> NewPorts(a)[<<ip, p>>]] :
        p \in DOMAIN a.scan.found[ip].ports \ ClaimedPorts(a, ip)}

EndpointEntry(e, ip, row, ports) == [endpoint |-> e, ip |-> ip, row |-> row, ports |-> ports]

(* _build_endpoint_without_ip *)
EndpointWithoutIp(a, e) ==
    EndpointEntry(e, a.config.ip[e], Unknown,
        {[service |-> s, port |-> a.config.port[s], row |-> Unknown] : s \in ServicesOf(e)})

(* _build_last_known_endpoint *)
LastKnownEndpoint(a, e) ==
    LET ip == a.config.ip[e]
    IN  EndpointEntry(e, ip, LastKnown(a.hosts[ip], a.at), ServiceEntries(a, e, ip))

(* _build_confirmed_offline_endpoint *)
ConfirmedOfflineEndpoint(a, e) ==
    LET ip == a.config.ip[e]
    IN  EndpointEntry(e, ip, NewHosts(a)[ip], ServiceEntries(a, e, ip))

(* Mutant of FoundHost: every endpoint of a host lists its unclaimed ports. *)
FoundHostEach(a, ip) ==
    IF EndpointsAt(a, ip) = {}
    THEN {EndpointEntry(Null, ip, NewHosts(a)[ip], UnclaimedPorts(a, ip))}
    ELSE {EndpointEntry(e, ip, NewHosts(a)[ip], ServiceEntries(a, e, ip) \cup UnclaimedPorts(a, ip)) :
            e \in EndpointsAt(a, ip)}

(* The endpoints that share a reported host: the eldest carries the ports  *)
(* that no service of any of them has.                                     *)
FoundHost(a, ip) ==
    IF EndpointsAt(a, ip) = {}
    THEN {EndpointEntry(Null, ip, NewHosts(a)[ip], UnclaimedPorts(a, ip))}
    ELSE {EndpointEntry(e, ip, NewHosts(a)[ip],
                        ServiceEntries(a, e, ip)
                          \cup IF e = Min(EndpointsAt(a, ip)) THEN UnclaimedPorts(a, ip) ELSE {}) :
            e \in EndpointsAt(a, ip)}

(* build_network_overview *)
Overview(a) ==
    (UNION {FoundHost(a, ip) : ip \in DOMAIN a.scan.found})
    \cup {ConfirmedOfflineEndpoint(a, e) :
            e \in {x \in NetEndpoints : a.config.ip[x] \in Vanished(a)}}
    \cup {LastKnownEndpoint(a, e) :
            e \in {x \in NetEndpoints :
                    /\ Probeable(a.config.ip[x])
                    /\ a.config.ip[x] \notin Vanished(a) \cup DOMAIN a.scan.found}}
    \cup {EndpointWithoutIp(a, e) : e \in {x \in NetEndpoints : ~Probeable(a.config.ip[x])}}

(* build_last_known_network_overview: GET /network/last-known stores nothing *)
LastKnownOverview(a) ==
    LET unscanned == [a EXCEPT !.scan = NoScan]
    IN  {IF Probeable(a.config.ip[e]) THEN LastKnownEndpoint(unscanned, e)
         ELSE EndpointWithoutIp(unscanned, e) : e \in NetEndpoints}

PostOverview(r, scan) ==
    NetBegin(r, "hosts", [NetBlank EXCEPT !.scan = scan, !.at = netClock, !.config = netConfig,
                                          !.hosts = hostStatus, !.ports = portStatus])

(* set_host_statuses *)
StoreHosts(r) ==
    LET new == NewHosts(netArg[r])
    IN  /\ netPc[r] = "hosts"
        /\ hostStatus' = [ip \in Addresses |-> IF ip \in DOMAIN new THEN new[ip] ELSE hostStatus[ip]]
        /\ netPc' = [netPc EXCEPT ![r] = "ports"]
        /\ UNCHANGED <<netConfig, portStatus, scanRange, netClock, netArg>>

(* set_port_statuses *)
StorePorts(r) ==
    LET new == NewPorts(netArg[r])
    IN  /\ netPc[r] = "ports"
        /\ portStatus' = [x \in HostPorts |-> IF x \in DOMAIN new THEN new[x] ELSE portStatus[x]]
        /\ NetEnd(r)
        /\ UNCHANGED <<hostStatus, scanRange>>

-----------------------------------------------------------------------------
(* The scan range *)

Block(address, size) == [base |-> address - (address % size), size |-> size]
Covers(range, address) == range.base <= address /\ address < range.base + range.size

(* _network_bounds *)
NetworkBounds(range) == {range.base, range.base + range.size - 1}

(* ip_network of a number and a mask: IPv6 if the number is too big *)
IpNetwork(address, size) == Block(address, IF address < Space THEN size ELSE size * Scale)

(* Mutant of CoveringNetwork: the block is the narrowest. *)
NarrowestNetwork(points) == IpNetwork(Min(points), Min(Sizes))

(* _covering_network: the mask is reckoned in the 32 bits of IPv4. *)
CoveringNetwork(points) ==
    LET fitting == {n \in Sizes : \A p \in points : Covers(Block(Min(points), n), p)}
    IN  IpNetwork(Min(points), IF fitting # {} THEN Min(fitting) ELSE Max(Sizes))

IpAddresses == Addresses \cup SixAddresses

(* resolved_value: the default of the type for an endpoint that has none. *)
KnownAddresses(config) ==
    {IF config.ip[e] = Null THEN config.default ELSE config.ip[e] : e \in NetEndpoints}
        \cap IpAddresses

RangeOf(addresses, stored) ==
    LET points == addresses \cup IF stored # Null THEN NetworkBounds(stored) ELSE {}
    IN  IF points = {} THEN Null ELSE CoveringNetwork(points)

GetScanRange(r) ==
    NetBegin(r, "range", [NetBlank EXCEPT !.config = netConfig, !.range = scanRange])

(* set_range, when there is a range; an equal one is not written. *)
SetRange(r) ==
    LET a == netArg[r]
        new == RangeOf(KnownAddresses(a.config), a.range)
    IN  /\ netPc[r] = "range"
        /\ scanRange' = IF new \in {Null, a.range} THEN scanRange ELSE new
        /\ NetEnd(r)
        /\ UNCHANGED <<hostStatus, portStatus>>

-----------------------------------------------------------------------------
(* POST, PATCH and DELETE of endpoints and services *)
Reconfigure(config) ==
    /\ netConfig' = config
    /\ UNCHANGED <<hostStatus, portStatus, scanRange, netClock, netPc, netArg>>

TimePasses ==
    /\ netClock < MaxTime
    /\ netClock' = netClock + 1
    /\ UNCHANGED <<netConfig, hostStatus, portStatus, scanRange, netPc, netArg>>

NetNext ==
    \/ \E c \in Configurations \ {netConfig} : Reconfigure(c)
    \/ TimePasses
    \/ \E r \in Requests :
        \/ \E scan \in Scans : PostOverview(r, scan)
        \/ StoreHosts(r) \/ StorePorts(r)
        \/ GetScanRange(r) \/ SetRange(r)

NetSpec == NetInit /\ [][NetNext]_netVars

-----------------------------------------------------------------------------
(* The tables have the shape of their rows. *)
NetTypeOK ==
    /\ netConfig \in Configurations
    /\ \A ip \in Addresses : hostStatus[ip] \in StatusRows \cup {Null}
    /\ \A x \in HostPorts : portStatus[x] \in StatusRows \cup {Null}
    /\ scanRange \in Ranges \cup {Null}
    /\ netClock \in Times
    /\ netPc \in [Requests -> {"idle", "hosts", "ports", "range"}]

(* The entries of an overview for a service and a port *)
Listed(overview, service, port) ==
    UNION {{<<x.endpoint, y>> : y \in {z \in x.ports : z.service = service /\ z.port = port}} :
            x \in overview}

ListsOnce(a, overview) ==
    /\ \A e \in NetEndpoints : Cardinality({x \in overview : x.endpoint = e}) = 1
    /\ \A s \in NetServices :
        \E y \in UNION {x.ports : x \in overview} :
            Listed(overview, s, a.config.port[s]) = {<<EndpointOf[s], y>>}
    /\ \A x \in ReportedPorts(a) :
        Cardinality(Listed({y \in overview : y.ip = x[1]}, Null, x[2]))
            = IF x[2] \in ClaimedPorts(a, x[1]) THEN 0 ELSE 1

(* Whatever a scan reports, an overview has every configured endpoint and  *)
(* every service once, at its endpoint, even where several share an        *)
(* address or a port, and every port that no service has once.             *)
EveryConfiguredIsListed ==
    \A r \in Requests :
        netPc[r] = "hosts" =>
            /\ ListsOnce(netArg[r], Overview(netArg[r]))
            /\ ListsOnce([netArg[r] EXCEPT !.scan = NoScan], LastKnownOverview(netArg[r]))

(* The change time of a status that a scan at this time writes *)
Recorded(old, new, at) ==
    IF old = Null THEN new.at = at
    ELSE new.at = IF new.status = old.status THEN old.at ELSE at

Probed(scan, ip) == ip \in DOMAIN scan.found \cup scan.covers

HostsRecorded(r) ==
    LET a == netArg[r]
    IN  netPc[r] = "hosts" /\ netPc'[r] = "ports" /\ hostStatus = a.hosts =>
            \A ip \in Addresses :
                /\ hostStatus'[ip] # hostStatus[ip] =>
                    Probed(a.scan, ip) /\ Recorded(a.hosts[ip], hostStatus'[ip], a.at)
                /\ ip \in DOMAIN a.scan.found => hostStatus'[ip].status = a.scan.found[ip].status

PortsRecorded(r) ==
    LET a == netArg[r]
    IN  netPc[r] = "ports" /\ netPc'[r] = "idle" /\ portStatus = a.ports =>
            \A x \in HostPorts :
                /\ portStatus'[x] # portStatus[x] =>
                    Probed(a.scan, x[1]) /\ Recorded(a.ports[x], portStatus'[x], a.at)
                /\ portStatus'[x] # portStatus[x] /\ x[1] \in DOMAIN a.scan.found =>
                    x \in ReportedPorts(a) \/ x[2] \in a.scan.ports

(* A scan that nobody else's overlaps says only what it probed: a status   *)
(* changes where the scan reported it, a host vanishes where the scan      *)
(* looked, a port of a reported host where the scan asked for it; and a    *)
(* change time is that of the scan which changed the status.               *)
OnlyProbesAreRecorded == [][\A r \in Requests : HostsRecorded(r) /\ PortsRecorded(r)]_netVars

(* What is evidence of where the device's network is: the addresses        *)
(* configured on its own endpoints and the range stored before             *)
OwnAddresses(config) == {config.ip[e] : e \in NetEndpoints} \cap IpAddresses
Bounds(stored) == IF stored # Null THEN NetworkBounds(stored) ELSE {}
Evidence(a) == OwnAddresses(a.config) \cup Bounds(a.range)

(* Request r replaces the range that it read. *)
Replaces(r) ==
    /\ netPc[r] = "range" /\ netPc'[r] = "idle"
    /\ scanRange' # scanRange /\ scanRange = netArg[r].range

(* The lowest point that the code reckons with decides where the range is. *)
Lowest(a) == Min(KnownAddresses(a.config) \cup Bounds(a.range))

RangeWidensBy(r) ==
    Replaces(r) =>
        \A p \in Evidence(netArg[r]) :
            Covers(IpNetwork(Lowest(netArg[r]), Max(Sizes)), p) => Covers(scanRange', p)

(* A stored range is replaced by one that covers, of the old one and of    *)
(* the addresses of the device's endpoints, whatever shares a block of the *)
(* widest size with the lowest point: an outlier above costs nothing.      *)
(* What an outlier below costs, or a default, is RangeFollowsEvidence.     *)
RangeWidens == [][\A r \in Requests : RangeWidensBy(r)]_netVars

(* The range "can only widen to also cover newly known IPs", and defaults  *)
(* of types "must never widen or seed" it: what replaces a stored range    *)
(* covers it, and is what the device's own addresses make of it.  The code *)
(* is false to both: it reads resolved values, and an address far below    *)
(* the stored range, such as a default, takes the block with it.           *)
RangeFollowsEvidence ==
    [][\A r \in Requests :
        Replaces(r) /\ scanRange # Null =>
            /\ \A p \in Bounds(scanRange) : Covers(scanRange', p)
            /\ scanRange' = RangeOf(OwnAddresses(netArg[r].config), scanRange)]_netVars
=============================================================================
