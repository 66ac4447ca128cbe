--------------------------- MODULE PlatformProofs ---------------------------
(***************************************************************************)
(* Proofs about the smaller parts, each under its own specification:       *)
(* network discovery, compose deployments, the configuration routes of     *)
(* SmartEMS, extension dispatch and health, and the bootstrap.             *)
(***************************************************************************)
EXTENDS NetworkOverview, ComposeDeployments, SemsDeviceConfig, ExtensionDispatch,
        ExtensionHealth, SemsStartup, FiniteSetTheorems, SequenceTheorems, TLAPS

-----------------------------------------------------------------------------
(* Numbers *)

(* A set of numbers has a least one.                                       *)
LEMMA NatMin ==
    ASSUME NEW S, S \subseteq Nat, S # {}
    PROVE  /\ Min(S) \in S
           /\ \A n \in S : Min(S) <= n
<1>1. PICK m \in S : \A n \in S : ~ (<<n, m>> \in OpToRel(<, Nat))
  BY NatLessThanWellFounded, WFMin
<1>2. \A n \in S : m <= n
  <2>1. \A n \in Nat, k \in Nat : <<n, k>> \in OpToRel(<, Nat) <=> n < k
    BY DEF OpToRel
  <2>2. m \in Nat /\ \A n \in S : n \in Nat /\ ~ (n < m)
    BY <1>1, <2>1
  <2>3. QED
    BY <2>2
<1>3. QED
  BY <1>2 DEF Min

(* A finite set of numbers has a greatest one: of the subsets that have    *)
(* none, a smallest one would have a greatest element without one of its   *)
(* own.                                                                    *)
LEMMA FiniteMax ==
    ASSUME NEW S, S \subseteq Nat, S # {}, IsFiniteSet(S)
    PROVE  /\ Max(S) \in S
           /\ \A n \in S : Max(S) >= n
<1> DEFINE Bad == {T \in SUBSET S : T # {} /\ ~ \E m \in T : \A n \in T : m >= n}
<1>1. Bad = {}
  <2> SUFFICES ASSUME Bad # {} PROVE FALSE
    OBVIOUS
  <2>1. IsWellFoundedOn(StrictSubsetOrdering(S), SUBSET S)
    BY FS_StrictSubsetOrderingWellFounded, FS_FiniteSubsetsOfFinite
  <2>2. PICK T \in Bad : \A U \in Bad : ~ (<<U, T>> \in StrictSubsetOrdering(S))
    BY <2>1, WFMin
  <2>3. PICK t \in T : TRUE
    BY <2>2
  <2>4. T \ {t} \notin Bad
    BY <2>2, <2>3 DEF StrictSubsetOrdering
  <2>5. CASE T = {t}
    BY <2>2, <2>3, <2>5
  <2>6. CASE T \ {t} # {}
    <3>1. PICK m \in T \ {t} : \A n \in T \ {t} : m >= n
      BY <2>4, <2>6, <2>2
    <3>2. m \in Nat /\ t \in Nat
      BY <3>1, <2>2, <2>3
    <3>3. CASE m >= t
      BY <3>1, <3>3, <2>2, <2>3
    <3>4. CASE t >= m
      <4>1. \A n \in T : n \in Nat
        BY <2>2
      <4>2. \A n \in T : t >= n
        BY <3>1, <3>2, <3>4, <4>1
      <4> QED BY <4>2, <2>2, <2>3
    <3>5. QED BY <3>2, <3>3, <3>4
  <2>7. QED BY <2>5, <2>6, <2>3
<1>2. \E m \in S : \A n \in S : m >= n
  BY <1>1
<1>3. QED BY <1>2 DEF Max

-----------------------------------------------------------------------------
(* NetworkOverview *)

HostRows == [Addresses -> StatusRows \cup {Null}]
PortRows == [HostPorts -> StatusRows \cup {Null}]

(* What a request that has read the tables for a scan, or the range, holds *)
ScanArgs ==
    [scan : ScanRows, at : Times, config : Configurations, hosts : HostRows,
     ports : PortRows, range : {Null}]
RangeArgs ==
    [scan : {NoScan}, at : {0}, config : Configurations, hosts : {Null}, ports : {Null},
     range : Ranges \cup {Null}]

NetRequestInv(r) ==
    /\ netPc[r] \in {"hosts", "ports"} => netArg[r] \in ScanArgs
    /\ netPc[r] = "range" => netArg[r] \in RangeArgs

NetInv ==
    /\ netConfig \in Configurations
    /\ hostStatus \in HostRows
    /\ portStatus \in PortRows
    /\ scanRange \in Ranges \cup {Null}
    /\ netClock \in Times
    /\ netPc \in [Requests -> {"idle", "hosts", "ports", "range"}]
    /\ netArg = [r \in Requests |-> netArg[r]]
    /\ \A r \in Requests : NetRequestInv(r)

LEMMA ObservedIsRow ==
    ASSUME NEW previous \in StatusRows \cup {Null}, NEW status \in Statuses, NEW now \in Times
    PROVE  /\ Observed(previous, status, now) \in StatusRows
           /\ Observed(previous, status, now).status = status
           /\ Recorded(previous, Observed(previous, status, now), now)
BY DEF Observed, ResolveStatusChange, Recorded, StatusRows

LEMMA FoundOnHosts ==
    ASSUME NEW a \in ScanArgs
    PROVE  /\ DOMAIN a.scan.found \subseteq Addresses
           /\ \A ip \in DOMAIN a.scan.found :
                 /\ a.scan.found[ip].status \in Statuses
                 /\ DOMAIN a.scan.found[ip].ports \subseteq Ports
                 /\ \A p \in DOMAIN a.scan.found[ip].ports :
                       a.scan.found[ip].ports[p] \in Statuses
           /\ Vanished(a) \subseteq Addresses
           /\ Vanished(a) \subseteq a.scan.covers
           /\ Vanished(a) \cap DOMAIN a.scan.found = {}
<1>1. /\ a.scan.covers \subseteq Addresses
      /\ a.scan.found \in PartialFunctions(Addresses,
              [status : Statuses, ports : PartialFunctions(Ports, Statuses)])
  BY DEF ScanArgs, ScanRows
<1>2. PICK D \in SUBSET Addresses :
        a.scan.found \in [D -> [status : Statuses, ports : PartialFunctions(Ports, Statuses)]]
  BY <1>1 DEF PartialFunctions
<1>3. ASSUME NEW ip \in D
      PROVE  /\ a.scan.found[ip].status \in Statuses
             /\ DOMAIN a.scan.found[ip].ports \subseteq Ports
             /\ \A p \in DOMAIN a.scan.found[ip].ports : a.scan.found[ip].ports[p] \in Statuses
  <2>1. /\ a.scan.found[ip].status \in Statuses
        /\ a.scan.found[ip].ports \in PartialFunctions(Ports, Statuses)
    BY <1>2, <1>3
  <2>2. PICK E \in SUBSET Ports : a.scan.found[ip].ports \in [E -> Statuses]
    BY <2>1 DEF PartialFunctions
  <2>3. QED
    BY <2>1, <2>2
<1>4. QED
  BY <1>1, <1>2, <1>3 DEF Vanished

(* What is stored of a scan is of an address that the scan probed, and has *)
(* the status and the time that it should.                                 *)
LEMMA NewHostsRecorded ==
    ASSUME NEW a \in ScanArgs
    PROVE  /\ DOMAIN NewHosts(a) = DOMAIN a.scan.found \cup Vanished(a)
           /\ \A ip \in DOMAIN NewHosts(a) :
                 /\ NewHosts(a)[ip] \in StatusRows
                 /\ Recorded(a.hosts[ip], NewHosts(a)[ip], a.at)
                 /\ ip \in DOMAIN a.scan.found =>
                       NewHosts(a)[ip].status = a.scan.found[ip].status
<1>1. DOMAIN NewHosts(a) = DOMAIN a.scan.found \cup Vanished(a)
  BY DEF NewHosts
<1>2. ASSUME NEW ip \in DOMAIN NewHosts(a)
      PROVE  /\ NewHosts(a)[ip] \in StatusRows
             /\ Recorded(a.hosts[ip], NewHosts(a)[ip], a.at)
             /\ ip \in DOMAIN a.scan.found => NewHosts(a)[ip].status = a.scan.found[ip].status
  <2> DEFINE status == IF ip \in DOMAIN a.scan.found THEN a.scan.found[ip].status ELSE "offline"
  <2>1. NewHosts(a)[ip] = Observed(a.hosts[ip], status, a.at)
    BY <1>1 DEF NewHosts
  <2>2. status \in Statuses /\ ip \in Addresses
    BY <1>1, FoundOnHosts DEF Statuses
  <2>3. a.at \in Times /\ a.hosts[ip] \in StatusRows \cup {Null}
    BY <2>2 DEF ScanArgs, HostRows
  <2>4. QED
    BY <2>1, <2>2, <2>3, ObservedIsRow
<1>3. QED
  BY <1>1, <1>2

LEMMA NewPortsRecorded ==
    ASSUME NEW a \in ScanArgs
    PROVE  /\ DOMAIN NewPorts(a) = ReportedPorts(a) \cup VanishedPorts(a)
           /\ DOMAIN NewPorts(a) \subseteq HostPorts
           /\ \A x \in DOMAIN NewPorts(a) :
                 /\ NewPorts(a)[x] \in StatusRows
                 /\ Recorded(a.ports[x], NewPorts(a)[x], a.at)
<1>1. /\ DOMAIN NewPorts(a) = ReportedPorts(a) \cup VanishedPorts(a)
      /\ ReportedPorts(a) \cup VanishedPorts(a) \subseteq HostPorts
  BY DEF NewPorts, ReportedPorts, VanishedPorts
<1>2. ASSUME NEW x \in DOMAIN NewPorts(a)
      PROVE  NewPorts(a)[x] \in StatusRows /\ Recorded(a.ports[x], NewPorts(a)[x], a.at)
  <2> DEFINE status == IF x \in ReportedPorts(a) THEN a.scan.found[x[1]].ports[x[2]] ELSE "offline"
  <2>1. NewPorts(a)[x] = Observed(a.ports[x], status, a.at)
    BY <1>1 DEF NewPorts
  <2>2. status \in Statuses
    BY FoundOnHosts DEF ReportedPorts, Statuses
  <2>3. a.at \in Times /\ a.ports[x] \in StatusRows \cup {Null}
    BY <1>1 DEF ScanArgs, PortRows
  <2>4. QED
    BY <2>1, <2>2, <2>3, ObservedIsRow
<1>3. QED
  BY <1>1, <1>2

-----------------------------------------------------------------------------
(* The scan range *)

LEMMA BlockIsRange ==
    ASSUME NEW address \in Nat, NEW size \in Nat \ {0},
           size \in Sizes \cup {n * Scale : n \in Sizes}
    PROVE  Block(address, size) \in Ranges
<1>1. \A n \in Nat, k \in Nat \ {0} : n % k \in Nat /\ n % k <= n
  OBVIOUS
<1>2. address - (address % size) \in Nat
  BY <1>1
<1>3. QED
  BY <1>2 DEF Block, Ranges

(* A block of a size that is a multiple holds the smaller one. *)
LEMMA BlocksNest ==
    ASSUME NEW x \in Nat, NEW y \in Nat, NEW n \in Nat \ {0}, NEW k \in Nat \ {0},
           Covers(Block(x, n), y)
    PROVE  n * k \in Nat \ {0} /\ Covers(Block(x, n * k), y)
<1> DEFINE i == x \div n
           b == n * k
           j == x \div b
<1>1. b \in Nat \ {0}
  OBVIOUS
<1>2. ASSUME NEW m \in Nat \ {0}
      PROVE  /\ x \div m \in Nat
             /\ x - (x % m) = m * (x \div m)
             /\ m * (x \div m) <= x
             /\ x < m * (x \div m) + m
  OBVIOUS
<1>3. /\ i \in Nat /\ x - (x % n) = n * i /\ n * i <= x /\ x < n * i + n
      /\ j \in Nat /\ x - (x % b) = b * j /\ b * j <= x /\ x < b * j + b
  BY <1>1, <1>2
<1> HIDE DEF i, j
<1>4. n * i <= y /\ y < n * i + n
  BY <1>3 DEF Block, Covers
<1>5. b * j = n * (k * j) /\ b * j + b = n * (k * j + k) /\ n * i + n = n * (i + 1)
  BY <1>3
<1>6. ASSUME NEW u \in Nat, NEW v \in Nat, n * u < n * v PROVE u < v
  <2>1. SUFFICES ASSUME v <= u PROVE FALSE
    BY <1>6
  <2>2. PICK c \in Nat : u = v + c
    BY <2>1
  <2>3. n * u = n * v + n * c /\ n * c \in Nat
    BY <2>2
  <2>4. n * v \in Nat /\ n * u \in Nat
    OBVIOUS
  <2>5. QED
    BY <1>6, <2>3, <2>4
<1>7. k * j \in Nat /\ k * j + k \in Nat /\ n * i \in Nat /\ b * j \in Nat
  BY <1>1, <1>3
<1>8. k * j < i + 1
  BY <1>3, <1>5, <1>6, <1>7
<1>9. i < k * j + k
  BY <1>3, <1>5, <1>6, <1>7
<1>10. \E c \in Nat : i = k * j + c
  <2>1. i - k * j \in Nat /\ i = k * j + (i - k * j)
    BY <1>3, <1>7, <1>8
  <2>2. QED
    BY <2>1
<1>11. \E c \in Nat : k * j + k = (i + 1) + c
  <2>1. k * j + k - (i + 1) \in Nat /\ k * j + k = (i + 1) + (k * j + k - (i + 1))
    BY <1>3, <1>7, <1>9
  <2>2. QED
    BY <2>1
<1>12. n * (k * j) <= n * i
  <2>1. PICK c \in Nat : i = k * j + c
    BY <1>10
  <2>2. n * i = n * (k * j) + n * c /\ n * c \in Nat /\ n * (k * j) \in Nat
    BY <1>7, <2>1
  <2>3. QED
    BY <2>2
<1>13. n * (i + 1) <= n * (k * j + k)
  <2>1. PICK c \in Nat : k * j + k = (i + 1) + c
    BY <1>11
  <2>2. n * (k * j + k) = n * (i + 1) + n * c /\ n * c \in Nat /\ n * (i + 1) \in Nat
    BY <1>3, <2>1
  <2>3. QED
    BY <2>2
<1>14. b * j <= y /\ y < b * j + b
  BY <1>1, <1>3, <1>4, <1>5, <1>7, <1>12, <1>13
<1>15. QED
  BY <1>1, <1>3, <1>14 DEF Block, Covers

(* A mask gives a range, which holds what the block of its IPv4 size does. *)
LEMMA NetworkNests ==
    ASSUME NetworkValues, NEW x \in Nat, NEW n \in Sizes
    PROVE  /\ IpNetwork(x, n) \in Ranges
           /\ \A y \in Nat : Covers(Block(x, n), y) => Covers(IpNetwork(x, n), y)
<1>1. n \in Nat \ {0} /\ Scale \in Nat \ {0}
  BY DEF NetworkValues
<1>2. n * Scale \in Nat \ {0}
  BY <1>1
<1>3. Block(x, n) \in Ranges /\ Block(x, n * Scale) \in Ranges
  BY <1>1, <1>2, BlockIsRange
<1>4. \A y \in Nat : Covers(Block(x, n), y) => Covers(Block(x, n * Scale), y)
  BY <1>1, BlocksNest
<1>5. QED
  BY <1>3, <1>4 DEF IpNetwork

(* The range around some points is of a size that a range may have, and    *)
(* holds those of them that share the widest block of the lowest.          *)
LEMMA NetworkCovers ==
    ASSUME NetworkValues, NEW points \in SUBSET Nat, points # {}
    PROVE  /\ CoveringNetwork(points) \in Ranges
           /\ \A p \in points :
                 Covers(IpNetwork(Min(points), Max(Sizes)), p) => Covers(CoveringNetwork(points), p)
<1> DEFINE fitting == {n \in Sizes : \A p \in points : Covers(Block(Min(points), n), p)}
           size == IF fitting # {} THEN Min(fitting) ELSE Max(Sizes)
<1>1. Min(points) \in points
  BY NatMin
<1>2. Sizes \subseteq Nat \ {0} /\ Sizes # {} /\ IsFiniteSet(Sizes)
  BY DEF NetworkValues
<1>3. fitting # {} => Min(fitting) \in fitting
  <2>1. fitting \subseteq Nat
    BY <1>2
  <2>2. QED
    BY <2>1, NatMin
<1>4. Max(Sizes) \in Sizes
  BY <1>2, FiniteMax
<1>5. CoveringNetwork(points) = IpNetwork(Min(points), size)
  BY DEF CoveringNetwork
<1>6. size \in Sizes
  BY <1>3, <1>4
<1>7. CoveringNetwork(points) \in Ranges
  <2>1. Min(points) \in Nat
    BY <1>1
  <2> HIDE DEF size
  <2>2. QED
    BY <1>5, <1>6, <2>1, NetworkNests
<1>8. ASSUME NEW p \in points, Covers(IpNetwork(Min(points), Max(Sizes)), p)
      PROVE  Covers(IpNetwork(Min(points), size), p)
  <2>1. CASE fitting # {}
    <3>1. size \in fitting
      BY <1>3, <2>1
    <3>2. Covers(Block(Min(points), size), p)
      BY <3>1
    <3>3. Min(points) \in Nat /\ p \in Nat /\ size \in Sizes
      BY <1>1, <1>6
    <3> HIDE DEF size, fitting
    <3>4. QED
      BY <3>2, <3>3, NetworkNests
  <2>2. CASE fitting = {}
    BY <1>8, <2>2
  <2>3. QED
    BY <2>1, <2>2
<1>9. QED
  BY <1>5, <1>7, <1>8

PointsOf(config, stored) == KnownAddresses(config) \cup Bounds(stored)

LEMMA PointsAreNumbers ==
    ASSUME NetworkValues, NEW config, NEW stored \in Ranges \cup {Null}
    PROVE  PointsOf(config, stored) \subseteq Nat
<1>1. KnownAddresses(config) \subseteq Nat
  BY DEF NetworkValues, KnownAddresses, IpAddresses
<1>2. ASSUME stored \in Ranges PROVE NetworkBounds(stored) \subseteq Nat
  <2>1. \A n \in Sizes : n \in Nat \ {0} /\ n * Scale \in Nat \ {0}
    BY DEF NetworkValues
  <2>2. stored.base \in Nat /\ stored.size \in Nat \ {0}
    BY <1>2, <2>1 DEF Ranges
  <2>3. stored.base + stored.size - 1 \in Nat
    BY <2>2
  <2>4. QED
    BY <2>2, <2>3 DEF NetworkBounds
<1>3. QED
  BY <1>1, <1>2 DEF PointsOf, Bounds

LEMMA RangeOfPoints ==
    ASSUME NetworkValues, NEW config, NEW stored \in Ranges \cup {Null}
    PROVE  LET new == RangeOf(KnownAddresses(config), stored)
               points == PointsOf(config, stored)
           IN  /\ new \in Ranges \cup {Null}
               /\ new # Null =>
                    \A p \in points :
                        Covers(IpNetwork(Min(points), Max(Sizes)), p) => Covers(new, p)
<1> DEFINE points == PointsOf(config, stored)
           new == RangeOf(KnownAddresses(config), stored)
<1>1. points \in SUBSET Nat
  BY PointsAreNumbers
<1>2. new = IF points = {} THEN Null ELSE CoveringNetwork(points)
  BY DEF RangeOf, PointsOf, Bounds
<1>3. CASE points = {}
  BY <1>2, <1>3
<1>4. CASE points # {}
  BY <1>1, <1>2, <1>4, NetworkCovers
<1>5. QED
  BY <1>3, <1>4

(* What endpoints store themselves is among what they resolve to. *)
LEMMA EvidenceIsKnown ==
    ASSUME NetworkValues, NEW config, NEW stored
    PROVE  OwnAddresses(config) \cup Bounds(stored) \subseteq PointsOf(config, stored)
<1>1. Null \notin IpAddresses
  BY DEF NetworkValues, Values, IpAddresses
<1>2. QED
  BY <1>1 DEF OwnAddresses, KnownAddresses, PointsOf

-----------------------------------------------------------------------------
(* The steps *)

LEMMA NetInitially == NetInit => NetInv
BY NetworkValues DEF NetworkValues, NetInit, NetInv, NetRequestInv, HostRows, PortRows, Times

(* A request that has ended, or gone on, holds what it should, and the     *)
(* others hold what they did.                                              *)
LEMMA OthersScan ==
    ASSUME NetInv, NEW r \in Requests, NEW step \in {"idle", "hosts", "ports", "range"}, NEW a,
           netPc' = [netPc EXCEPT ![r] = step],
           netArg' = [netArg EXCEPT ![r] = a],
           step \in {"hosts", "ports"} => a \in ScanArgs,
           step = "range" => a \in RangeArgs
    PROVE  /\ netPc' \in [Requests -> {"idle", "hosts", "ports", "range"}]
           /\ netArg' = [q \in Requests |-> netArg'[q]]
           /\ \A q \in Requests : NetRequestInv(q)'
<1>1. /\ netPc \in [Requests -> {"idle", "hosts", "ports", "range"}]
      /\ netArg = [q \in Requests |-> netArg[q]]
      /\ \A q \in Requests : NetRequestInv(q)
  BY DEF NetInv
<1>2. /\ netPc' \in [Requests -> {"idle", "hosts", "ports", "range"}]
      /\ netArg' = [q \in Requests |-> netArg'[q]]
      /\ netPc'[r] = step /\ netArg'[r] = a
      /\ \A q \in Requests \ {r} : netPc'[q] = netPc[q] /\ netArg'[q] = netArg[q]
  BY <1>1
<1>3. QED
  BY <1>1, <1>2 DEF NetRequestInv

LEMMA NetBegins ==
    ASSUME NetInv, NetworkValues, NEW r \in Requests,
           GetScanRange(r) \/ \E scan \in Scans : PostOverview(r, scan)
    PROVE  NetInv'
<1>1. CASE GetScanRange(r)
  <2> DEFINE a == [NetBlank EXCEPT !.config = netConfig, !.range = scanRange]
  <2>1. a \in RangeArgs
    BY DEF NetInv, RangeArgs, NetBlank
  <2>2. QED
    BY <1>1, <2>1, OthersScan DEF GetScanRange, NetBegin, NetInv
<1>2. ASSUME NEW scan \in Scans, PostOverview(r, scan) PROVE NetInv'
  <2> DEFINE a == [NetBlank EXCEPT !.scan = scan, !.at = netClock, !.config = netConfig,
                                   !.hosts = hostStatus, !.ports = portStatus]
  <2>1. a \in ScanArgs
    BY DEF NetInv, ScanArgs, NetBlank, NetworkValues
  <2>2. QED
    BY <1>2, <2>1, OthersScan DEF PostOverview, NetBegin, NetInv
<1>3. QED
  BY <1>1, <1>2

LEMMA HostsStored ==
    ASSUME NetInv, NEW r \in Requests, StoreHosts(r)
    PROVE  NetInv'
<1> DEFINE a == netArg[r]
<1>1. a \in ScanArgs
  BY DEF NetInv, NetRequestInv, StoreHosts
<1>2. \A ip \in DOMAIN NewHosts(a) : NewHosts(a)[ip] \in StatusRows
  BY <1>1, NewHostsRecorded
<1>3. hostStatus' \in HostRows
  BY <1>2 DEF NetInv, StoreHosts, HostRows
<1>4. netArg' = [netArg EXCEPT ![r] = a]
  BY DEF NetInv, StoreHosts
<1>5. QED
  BY <1>1, <1>3, <1>4, OthersScan DEF StoreHosts, NetInv

LEMMA PortsStored ==
    ASSUME NetInv, NEW r \in Requests, StorePorts(r)
    PROVE  NetInv'
<1> DEFINE a == netArg[r]
<1>1. a \in ScanArgs
  BY DEF NetInv, NetRequestInv, StorePorts
<1>2. \A x \in DOMAIN NewPorts(a) : NewPorts(a)[x] \in StatusRows
  BY <1>1, NewPortsRecorded
<1>3. portStatus' \in PortRows
  BY <1>2 DEF NetInv, StorePorts, PortRows
<1>4. QED
  BY <1>3, OthersScan DEF StorePorts, NetEnd, NetInv

LEMMA RangeSet ==
    ASSUME NetInv, NetworkValues, NEW r \in Requests, SetRange(r)
    PROVE  NetInv'
<1>1. netArg[r].range \in Ranges \cup {Null}
  BY DEF NetInv, NetRequestInv, SetRange, RangeArgs
<1>2. scanRange' \in Ranges \cup {Null}
  BY <1>1, RangeOfPoints DEF SetRange, NetInv
<1>3. QED
  BY <1>2, OthersScan DEF SetRange, NetEnd, NetInv

LEMMA NetStep ==
    ASSUME NetInv, NetworkValues, [NetNext]_netVars
    PROVE  NetInv'
<1>1. CASE UNCHANGED netVars
  BY <1>1 DEF netVars, NetInv, NetRequestInv
<1>2. CASE \E c \in Configurations \ {netConfig} : Reconfigure(c)
  BY <1>2 DEF Reconfigure, NetInv, NetRequestInv
<1>3. CASE TimePasses
  BY <1>3 DEF TimePasses, NetInv, NetRequestInv, Times, NetworkValues
<1>4. QED
  BY <1>1, <1>2, <1>3, NetBegins, HostsStored, PortsStored, RangeSet DEF NetNext

LEMMA NetAlways == NetSpec => []NetInv
<1>1. NetInv /\ [NetNext]_netVars => NetInv'
  BY NetStep, NetworkValues
<1>2. QED
  BY <1>1, NetInitially, PTL DEF NetSpec

(* In every state, what is stored of hosts, ports and the range is of its  *)
(* type.                                                                   *)
THEOREM NetTyped == NetSpec => []NetTypeOK
<1>1. NetInv => NetTypeOK
  BY DEF NetInv, NetTypeOK, HostRows, PortRows
<1>2. QED
  BY <1>1, NetAlways, PTL

(* The step in which a request goes from one stage to another is its own.  *)
LEMMA WhoStores ==
    ASSUME NetInv, NEW r \in Requests, NetNext
    PROVE  /\ netPc[r] = "hosts" /\ netPc'[r] = "ports" => StoreHosts(r)
           /\ netPc[r] = "ports" /\ netPc'[r] = "idle" => StorePorts(r)
           /\ netPc[r] = "range" /\ netPc'[r] = "idle" => SetRange(r)
<1>1. netPc \in [Requests -> {"idle", "hosts", "ports", "range"}]
  BY DEF NetInv
<1>2. ASSUME NEW q \in Requests \ {r},
             \/ \E scan \in Scans : PostOverview(q, scan)
             \/ StoreHosts(q) \/ StorePorts(q) \/ GetScanRange(q) \/ SetRange(q)
      PROVE  netPc'[r] = netPc[r]
  BY <1>1, <1>2 DEF PostOverview, StoreHosts, StorePorts, GetScanRange, SetRange, NetBegin, NetEnd
<1>3. CASE \/ \E scan \in Scans : PostOverview(r, scan)
           \/ StoreHosts(r) \/ StorePorts(r) \/ GetScanRange(r) \/ SetRange(r)
  BY <1>1, <1>3 DEF PostOverview, StoreHosts, StorePorts, GetScanRange, SetRange, NetBegin, NetEnd
<1>4. CASE TimePasses \/ \E c \in Configurations \ {netConfig} : Reconfigure(c)
  BY <1>4 DEF TimePasses, Reconfigure
<1>5. QED
  BY <1>2, <1>3, <1>4 DEF NetNext

(* A scan changes only rows of what it probed, unless another request has  *)
(* written the table since it was read.                                    *)
THEOREM ScansAreHonest == NetSpec => OnlyProbesAreRecorded
<1>1. ASSUME NetInv, NetNext, NEW r \in Requests PROVE HostsRecorded(r)
  <2> SUFFICES ASSUME netPc[r] = "hosts", netPc'[r] = "ports" PROVE HostsRecorded(r)
    BY DEF HostsRecorded
  <2>1. StoreHosts(r) /\ netArg[r] \in ScanArgs
    BY <1>1, WhoStores DEF NetInv, NetRequestInv
  <2>2. \A ip \in Addresses : hostStatus'[ip] = IF ip \in DOMAIN NewHosts(netArg[r])
                                                THEN NewHosts(netArg[r])[ip] ELSE hostStatus[ip]
    BY <2>1 DEF StoreHosts
  <2>3. Vanished(netArg[r]) \subseteq netArg[r].scan.covers
    BY <2>1, FoundOnHosts
  <2>4. QED
    BY <2>1, <2>2, <2>3, NewHostsRecorded DEF Probed, HostsRecorded
<1>2. ASSUME NetInv, NetNext, NEW r \in Requests PROVE PortsRecorded(r)
  <2> SUFFICES ASSUME netPc[r] = "ports", netPc'[r] = "idle" PROVE PortsRecorded(r)
    BY DEF PortsRecorded
  <2> DEFINE a == netArg[r]
  <2>1. StorePorts(r) /\ a \in ScanArgs
    BY <1>2, WhoStores DEF NetInv, NetRequestInv
  <2>2. \A x \in HostPorts : portStatus'[x] = IF x \in DOMAIN NewPorts(a)
                                              THEN NewPorts(a)[x] ELSE portStatus[x]
    BY <2>1 DEF StorePorts
  <2>3. /\ Vanished(a) \subseteq a.scan.covers
        /\ Vanished(a) \cap DOMAIN a.scan.found = {}
    BY <2>1, FoundOnHosts
  <2>4. \A x \in DOMAIN NewPorts(a) :
           /\ Probed(a.scan, x[1])
           /\ x[1] \in DOMAIN a.scan.found => x \in ReportedPorts(a) \/ x[2] \in a.scan.ports
    BY <2>1, <2>3, NewPortsRecorded DEF ReportedPorts, VanishedPorts, Probed
  <2>5. QED
    BY <2>1, <2>2, <2>4, NewPortsRecorded DEF PortsRecorded
<1>3. NetInv /\ [NetNext]_netVars => [\A r \in Requests : HostsRecorded(r) /\ PortsRecorded(r)]_netVars
  BY <1>1, <1>2
<1>4. QED
  BY <1>3, NetAlways, PTL DEF NetSpec, OnlyProbesAreRecorded

(* A stored range is only replaced by one that covers, of it and of the    *)
(* addresses of the endpoints, what shares a widest block with the lowest  *)
(* point, when nobody else changed it meanwhile.                           *)
THEOREM RangesWiden == NetSpec => RangeWidens
<1>1. ASSUME NetInv, NetNext, NEW r \in Requests PROVE RangeWidensBy(r)
  <2> SUFFICES ASSUME Replaces(r) PROVE RangeWidensBy(r)
    BY DEF RangeWidensBy
  <2> DEFINE config == netArg[r].config
             new == RangeOf(KnownAddresses(config), scanRange)
             points == PointsOf(config, scanRange)
  <2>1. SetRange(r) /\ scanRange \in Ranges \cup {Null} /\ scanRange = netArg[r].range
    BY <1>1, WhoStores DEF NetInv, Replaces
  <2>2. new # Null /\ scanRange' = new
    BY <2>1 DEF SetRange, Replaces
  <2>3. \A p \in points : Covers(IpNetwork(Min(points), Max(Sizes)), p) => Covers(new, p)
    BY <2>1, <2>2, NetworkValues, RangeOfPoints
  <2>4. Evidence(netArg[r]) \subseteq points /\ Lowest(netArg[r]) = Min(points)
    BY <2>1, NetworkValues, EvidenceIsKnown DEF Evidence, Lowest, PointsOf
  <2>5. QED
    BY <2>2, <2>3, <2>4 DEF RangeWidensBy
<1>2. NetInv /\ [NetNext]_netVars => [\A r \in Requests : RangeWidensBy(r)]_netVars
  BY <1>1
<1>3. QED
  BY <1>2, NetAlways, PTL DEF NetSpec, RangeWidens

-----------------------------------------------------------------------------
(* The overview *)

(* The entry of an endpoint, and that of a host without one *)
FoundEntry(a, e) ==
    LET ip == a.config.ip[e]
    IN  EndpointEntry(e, ip, NewHosts(a)[ip],
            ServiceEntries(a, e, ip)
              \cup IF e = Min(EndpointsAt(a, ip)) THEN UnclaimedPorts(a, ip) ELSE {})

EntryOf(a, e) ==
    LET ip == a.config.ip[e]
    IN  IF ~Probeable(ip) THEN EndpointWithoutIp(a, e)
        ELSE IF ip \in DOMAIN a.scan.found THEN FoundEntry(a, e)
        ELSE IF ip \in Vanished(a) THEN ConfirmedOfflineEndpoint(a, e)
        ELSE LastKnownEndpoint(a, e)

HostEntry(a, ip) == EndpointEntry(Null, ip, NewHosts(a)[ip], UnclaimedPorts(a, ip))

HostsWithoutEndpoint(a) == {ip \in DOMAIN a.scan.found : EndpointsAt(a, ip) = {}}

(* The four ways in which an endpoint is listed exclude one another.       *)
LEMMA OverviewIsEntries ==
    ASSUME NetworkValues, NEW a \in ScanArgs
    PROVE  Overview(a) = {EntryOf(a, e) : e \in NetEndpoints}
                           \cup {HostEntry(a, ip) : ip \in HostsWithoutEndpoint(a)}
<1> DEFINE found == DOMAIN a.scan.found
           offline == {e \in NetEndpoints : a.config.ip[e] \in Vanished(a)}
           known == {e \in NetEndpoints : /\ Probeable(a.config.ip[e])
                                          /\ a.config.ip[e] \notin Vanished(a) \cup found}
           without == {e \in NetEndpoints : ~Probeable(a.config.ip[e])}
           hosts == {e \in NetEndpoints : a.config.ip[e] \in found}
           scanned == UNION {FoundHost(a, ip) : ip \in found}
           others == {HostEntry(a, ip) : ip \in HostsWithoutEndpoint(a)}
           entries == {EntryOf(a, e) : e \in NetEndpoints}
           shown == {FoundEntry(a, e) : e \in hosts}
           confirmed == {ConfirmedOfflineEndpoint(a, e) : e \in offline}
           last == {LastKnownEndpoint(a, e) : e \in known}
           unreached == {EndpointWithoutIp(a, e) : e \in without}
<1>1. /\ found \subseteq Addresses /\ Vanished(a) \subseteq Addresses
      /\ Vanished(a) \cap found = {}
  BY FoundOnHosts
<1>2. scanned = shown \cup others
  <2>1. ASSUME NEW ip \in found, EndpointsAt(a, ip) = {}
        PROVE  FoundHost(a, ip) = {HostEntry(a, ip)}
    BY <2>1 DEF FoundHost, HostEntry
  <2>2. ASSUME NEW ip \in found, EndpointsAt(a, ip) # {}
        PROVE  FoundHost(a, ip) = {FoundEntry(a, e) : e \in EndpointsAt(a, ip)}
    <3>1. FoundHost(a, ip) =
            {EndpointEntry(e, ip, NewHosts(a)[ip],
                ServiceEntries(a, e, ip)
                  \cup IF e = Min(EndpointsAt(a, ip)) THEN UnclaimedPorts(a, ip) ELSE {}) :
               e \in EndpointsAt(a, ip)}
      BY <2>2 DEF FoundHost
    <3>2. \A e \in EndpointsAt(a, ip) :
             FoundEntry(a, e) = EndpointEntry(e, ip, NewHosts(a)[ip],
                ServiceEntries(a, e, ip)
                  \cup IF e = Min(EndpointsAt(a, ip)) THEN UnclaimedPorts(a, ip) ELSE {})
      BY DEF FoundEntry, EndpointsAt
    <3>3. QED
      BY <3>1, <3>2
  <2>3. \A ip \in found : \A e \in EndpointsAt(a, ip) : e \in hosts /\ a.config.ip[e] = ip
    BY DEF EndpointsAt
  <2>4. \A e \in hosts : e \in EndpointsAt(a, a.config.ip[e])
    BY DEF EndpointsAt
  <2>5. \A x \in scanned : x \in shown \cup others
    <3> SUFFICES ASSUME NEW ip \in found, NEW x \in FoundHost(a, ip)
                 PROVE  \/ \E e \in hosts : x = FoundEntry(a, e)
                        \/ \E i \in HostsWithoutEndpoint(a) : x = HostEntry(a, i)
      OBVIOUS
    <3>1. CASE EndpointsAt(a, ip) = {}
      BY <3>1, <2>1 DEF HostsWithoutEndpoint
    <3>2. CASE EndpointsAt(a, ip) # {}
      BY <3>2, <2>2, <2>3
    <3>3. QED
      BY <3>1, <3>2
  <2>6. \A e \in hosts : FoundEntry(a, e) \in scanned
    <3> SUFFICES ASSUME NEW e \in hosts
                 PROVE  \E ip \in found : FoundEntry(a, e) \in FoundHost(a, ip)
      OBVIOUS
    <3>1. e \in EndpointsAt(a, a.config.ip[e]) /\ a.config.ip[e] \in found
      BY <2>4
    <3>2. FoundEntry(a, e) \in FoundHost(a, a.config.ip[e])
      BY <3>1, <2>2
    <3>3. QED
      BY <3>1, <3>2
  <2>7. \A i \in HostsWithoutEndpoint(a) : HostEntry(a, i) \in scanned
    BY <2>1 DEF HostsWithoutEndpoint
  <2>8. QED
    BY <2>5, <2>6, <2>7
<1>3. \A e \in NetEndpoints :
         /\ e \in hosts => EntryOf(a, e) = FoundEntry(a, e)
         /\ e \in offline => EntryOf(a, e) = ConfirmedOfflineEndpoint(a, e)
         /\ e \in known => EntryOf(a, e) = LastKnownEndpoint(a, e)
         /\ e \in without => EntryOf(a, e) = EndpointWithoutIp(a, e)
         /\ e \in hosts \cup offline \cup known \cup without
  BY <1>1 DEF EntryOf, Probeable
<1>4. Overview(a) = scanned \cup confirmed \cup last \cup unreached
  BY DEF Overview
<1>5. entries = shown \cup confirmed \cup last \cup unreached
  BY <1>3
<1> HIDE DEF scanned, others, entries, shown, confirmed, last, unreached
<1>6. Overview(a) = entries \cup others
  BY <1>2, <1>4, <1>5
<1>7. QED
  BY <1>6 DEF entries, others

(* Without a scan every endpoint is listed as it was known last.           *)
LEMMA LastKnownIsOverview ==
    ASSUME NetworkValues, NEW a \in ScanArgs
    PROVE  /\ [a EXCEPT !.scan = NoScan] \in ScanArgs
           /\ LastKnownOverview(a) = Overview([a EXCEPT !.scan = NoScan])
<1> DEFINE u == [a EXCEPT !.scan = NoScan]
<1>1. NoScan \in ScanRows
  BY DEF NoScan, ScanRows, Nothing, PartialFunctions
<1>2. u \in ScanArgs /\ u.config = a.config /\ u.scan = NoScan
  BY <1>1 DEF ScanArgs
<1>3. DOMAIN u.scan.found = {} /\ Vanished(u) = {}
  BY <1>2 DEF NoScan, Nothing, Vanished
<1>4. Overview(u) = {EntryOf(u, e) : e \in NetEndpoints}
  <2>1. HostsWithoutEndpoint(u) = {}
    BY <1>3 DEF HostsWithoutEndpoint
  <2>2. Overview(u) = {EntryOf(u, e) : e \in NetEndpoints}
                        \cup {HostEntry(u, ip) : ip \in HostsWithoutEndpoint(u)}
    BY <1>2, OverviewIsEntries
  <2>3. QED
    BY <2>1, <2>2
<1>5. \A e \in NetEndpoints :
         EntryOf(u, e) = IF Probeable(a.config.ip[e]) THEN LastKnownEndpoint(u, e)
                         ELSE EndpointWithoutIp(u, e)
  BY <1>2, <1>3 DEF EntryOf
<1>6. LastKnownOverview(a) = {EntryOf(u, e) : e \in NetEndpoints}
  BY <1>5 DEF LastKnownOverview
<1>7. QED
  BY <1>2, <1>4, <1>6

(* The ports of a host that no service has.                                *)
LEMMA UnclaimedShape ==
    ASSUME NEW a, NEW ip, NEW z \in UnclaimedPorts(a, ip)
    PROVE  /\ z.service = Null
           /\ z.port \notin ClaimedPorts(a, ip)
           /\ z = [service |-> Null, port |-> z.port, row |-> NewPorts(a)[<<ip, z.port>>]]
<1>1. PICK p \in DOMAIN a.scan.found[ip].ports \ ClaimedPorts(a, ip) :
        z = [service |-> Null, port |-> p, row |-> NewPorts(a)[<<ip, p>>]]
  BY DEF UnclaimedPorts
<1>2. QED
  BY <1>1

(* An entry has one port entry for each of its endpoint's services.        *)
HasServices(a, e, ports) ==
    \A s \in NetServices :
        IF EndpointOf[s] = e
        THEN \E y \in ports : y.port = a.config.port[s] /\ {z \in ports : z.service = s} = {y}
        ELSE {z \in ports : z.service = s} = {}

(* Such are the ports that are made of the endpoint's services, and of no  *)
(* other.                                                                  *)
LEMMA ServicesListed ==
    ASSUME NetworkValues, NEW a, NEW e, NEW ports,
           \A s \in ServicesOf(e) :
              \E y \in ports : /\ y.service = s /\ y.port = a.config.port[s]
                              /\ \A z \in ports : z.service = s => z = y,
           \A z \in ports : z.service \in NetServices => z.service \in ServicesOf(e)
    PROVE  HasServices(a, e, ports)
<1>1. ASSUME NEW s \in NetServices, EndpointOf[s] = e
      PROVE  \E y \in ports : y.port = a.config.port[s] /\ {z \in ports : z.service = s} = {y}
  <2>1. s \in ServicesOf(e)
    BY <1>1 DEF ServicesOf
  <2>2. PICK y \in ports : /\ y.service = s /\ y.port = a.config.port[s]
                           /\ \A z \in ports : z.service = s => z = y
    BY <2>1
  <2>3. {z \in ports : z.service = s} = {y}
    BY <2>2
  <2>4. QED
    BY <2>2, <2>3
<1>2. ASSUME NEW s \in NetServices, EndpointOf[s] # e
      PROVE  {z \in ports : z.service = s} = {}
  BY <1>2 DEF ServicesOf
<1>3. QED
  BY <1>1, <1>2 DEF HasServices

LEMMA EntryShape ==
    ASSUME NetworkValues, NEW a \in ScanArgs, NEW e \in NetEndpoints
    PROVE  /\ EntryOf(a, e).endpoint = e
           /\ EntryOf(a, e).ip = a.config.ip[e]
           /\ HasServices(a, e, EntryOf(a, e).ports)
           /\ \A z \in EntryOf(a, e).ports :
                 z.service = Null => /\ a.config.ip[e] \in DOMAIN a.scan.found
                                     /\ e = Min(EndpointsAt(a, a.config.ip[e]))
                                     /\ z \in UnclaimedPorts(a, a.config.ip[e])
<1> DEFINE ip == a.config.ip[e]
           serviceEntry(s) == [service |-> s, port |-> a.config.port[s],
                               row |-> PortShown(a, ip, a.config.port[s])]
           unknownEntry(s) == [service |-> s, port |-> a.config.port[s], row |-> Unknown]
<1>1. Null \notin NetServices
  BY DEF NetworkValues
<1>2. /\ \A s \in ServicesOf(e) : s \in NetServices /\ EndpointOf[s] = e
      /\ \A s \in NetServices : EndpointOf[s] = e => s \in ServicesOf(e)
  BY DEF ServicesOf
<1>3. \A z \in UnclaimedPorts(a, ip) : z.service = Null
  BY UnclaimedShape
<1>4. ASSUME NEW unclaimed, unclaimed \in {{}, UnclaimedPorts(a, ip)}
      PROVE  HasServices(a, e, ServiceEntries(a, e, ip) \cup unclaimed)
  <2> DEFINE ports == ServiceEntries(a, e, ip) \cup unclaimed
  <2>1. ports = {serviceEntry(s) : s \in ServicesOf(e)} \cup unclaimed
    BY DEF ServiceEntries
  <2>2. ASSUME NEW z \in ports, z.service \in NetServices
        PROVE  z.service \in ServicesOf(e) /\ z = serviceEntry(z.service)
    <3>1. z \notin unclaimed
      BY <1>1, <1>3, <1>4, <2>2
    <3>2. PICK s \in ServicesOf(e) : z = serviceEntry(s)
      BY <2>1, <3>1
    <3>3. QED
      BY <3>2
  <2>3. \A s \in ServicesOf(e) : /\ serviceEntry(s) \in ports /\ serviceEntry(s).service = s
                                 /\ serviceEntry(s).port = a.config.port[s]
    BY <2>1
  <2> HIDE DEF ports, serviceEntry
  <2>4. QED
    BY <1>2, <2>2, <2>3, ServicesListed DEF ports
<1>5. HasServices(a, e, {unknownEntry(s) : s \in ServicesOf(e)})
  <2> DEFINE ports == {unknownEntry(s) : s \in ServicesOf(e)}
  <2>1. \A z \in ports : z.service \in ServicesOf(e) /\ z = unknownEntry(z.service)
    OBVIOUS
  <2>2. \A s \in ServicesOf(e) : /\ unknownEntry(s) \in ports /\ unknownEntry(s).service = s
                                 /\ unknownEntry(s).port = a.config.port[s]
    OBVIOUS
  <2> HIDE DEF ports, unknownEntry
  <2>3. HasServices(a, e, ports)
    BY <1>2, <2>1, <2>2, ServicesListed
  <2>4. QED
    BY <2>3 DEF ports
<1>6. CASE ~Probeable(ip)
  <2>1. EntryOf(a, e) = [endpoint |-> e, ip |-> ip, row |-> Unknown,
                         ports |-> {unknownEntry(s) : s \in ServicesOf(e)}]
    BY <1>6 DEF EntryOf, EndpointWithoutIp, EndpointEntry
  <2>2. QED
    BY <1>1, <1>2, <1>5, <2>1
<1>7. CASE Probeable(ip) /\ ip \in DOMAIN a.scan.found
  <2> DEFINE unclaimed == IF e = Min(EndpointsAt(a, ip)) THEN UnclaimedPorts(a, ip) ELSE {}
  <2>1. EntryOf(a, e) = [endpoint |-> e, ip |-> ip, row |-> NewHosts(a)[ip],
                         ports |-> ServiceEntries(a, e, ip) \cup unclaimed]
    BY <1>7 DEF EntryOf, FoundEntry, EndpointEntry
  <2>2. HasServices(a, e, ServiceEntries(a, e, ip) \cup unclaimed)
    BY <1>4
  <2>3. \A z \in ServiceEntries(a, e, ip) : z.service \in NetServices
    BY <1>2 DEF ServiceEntries
  <2>4. QED
    BY <1>1, <1>7, <2>1, <2>2, <2>3
<1>8. CASE Probeable(ip) /\ ip \notin DOMAIN a.scan.found
  <2>1. /\ EntryOf(a, e).endpoint = e /\ EntryOf(a, e).ip = ip
        /\ EntryOf(a, e).ports = ServiceEntries(a, e, ip)
    BY <1>8 DEF EntryOf, ConfirmedOfflineEndpoint, LastKnownEndpoint, EndpointEntry
  <2>2. HasServices(a, e, ServiceEntries(a, e, ip))
    BY <1>4
  <2>3. \A z \in ServiceEntries(a, e, ip) : z.service \in NetServices
    BY <1>2 DEF ServiceEntries
  <2>4. QED
    BY <1>1, <2>1, <2>2, <2>3
<1>9. QED
  BY <1>6, <1>7, <1>8

LEMMA HostShape ==
    ASSUME NEW a, NEW ip
    PROVE  /\ HostEntry(a, ip).endpoint = Null /\ HostEntry(a, ip).ip = ip
           /\ HostEntry(a, ip).ports = UnclaimedPorts(a, ip)
           /\ \A z \in UnclaimedPorts(a, ip) : z.service = Null
BY UnclaimedShape DEF HostEntry, EndpointEntry

(* A port that no service has is listed once, whoever shares its host.     *)
LEMMA ReportedListedOnce ==
    ASSUME NetworkValues, NEW a \in ScanArgs, NEW x \in ReportedPorts(a)
    PROVE  Cardinality(Listed({y \in Overview(a) : y.ip = x[1]}, Null, x[2]))
             = IF x[2] \in ClaimedPorts(a, x[1]) THEN 0 ELSE 1
<1> DEFINE ip == x[1]
           p == x[2]
           here == {y \in Overview(a) : y.ip = ip}
           row == [service |-> Null, port |-> p, row |-> NewPorts(a)[<<ip, p>>]]
           carrier == IF EndpointsAt(a, ip) = {} THEN HostEntry(a, ip)
                      ELSE EntryOf(a, Min(EndpointsAt(a, ip)))
<1>1. ip \in DOMAIN a.scan.found /\ p \in DOMAIN a.scan.found[ip].ports
  BY DEF ReportedPorts
<1>2. Overview(a) = {EntryOf(a, e) : e \in NetEndpoints}
                      \cup {HostEntry(a, i) : i \in HostsWithoutEndpoint(a)}
  BY OverviewIsEntries
<1>3. UnclaimedPorts(a, ip) =
        {[service |-> Null, port |-> q, row |-> NewPorts(a)[<<ip, q>>]] :
            q \in DOMAIN a.scan.found[ip].ports \ ClaimedPorts(a, ip)}
  BY DEF UnclaimedPorts
<1>4. \A z \in UnclaimedPorts(a, ip) : z.port = p => z = row /\ p \notin ClaimedPorts(a, ip)
  BY UnclaimedShape
<1>5. p \notin ClaimedPorts(a, ip) => row \in UnclaimedPorts(a, ip)
  BY <1>1, <1>3
<1>6. ASSUME NEW y \in here, NEW z \in y.ports, z.service = Null
      PROVE  y = carrier /\ z \in UnclaimedPorts(a, ip)
  <2>1. CASE \E e \in NetEndpoints : y = EntryOf(a, e)
    <3>1. PICK e \in NetEndpoints : y = EntryOf(a, e)
      BY <2>1
    <3>2. /\ a.config.ip[e] = ip
          /\ e = Min(EndpointsAt(a, ip))
          /\ z \in UnclaimedPorts(a, ip)
      <4>1. a.config.ip[e] = ip /\ z \in EntryOf(a, e).ports
        BY <1>6, <3>1, EntryShape
      <4>2. /\ e = Min(EndpointsAt(a, a.config.ip[e]))
            /\ z \in UnclaimedPorts(a, a.config.ip[e])
        BY <1>6, <4>1, EntryShape
      <4>3. QED
        BY <4>1, <4>2
    <3>3. e \in EndpointsAt(a, ip)
      BY <3>2 DEF EndpointsAt
    <3>4. QED
      BY <3>1, <3>2, <3>3
  <2>2. CASE \E i \in HostsWithoutEndpoint(a) : y = HostEntry(a, i)
    <3>1. PICK i \in HostsWithoutEndpoint(a) : y = HostEntry(a, i)
      BY <2>2
    <3>2. i = ip /\ EndpointsAt(a, ip) = {} /\ z \in UnclaimedPorts(a, ip)
      BY <1>6, <3>1, HostShape DEF HostsWithoutEndpoint
    <3>3. QED
      BY <3>1, <3>2
  <2>3. QED
    BY <1>2, <2>1, <2>2
<1>7. carrier \in here /\ UnclaimedPorts(a, ip) \subseteq carrier.ports
  <2>1. CASE EndpointsAt(a, ip) = {}
    BY <1>1, <1>2, <2>1, HostShape DEF HostsWithoutEndpoint
  <2>2. CASE EndpointsAt(a, ip) # {}
    <3> DEFINE e == Min(EndpointsAt(a, ip))
    <3>1. e \in EndpointsAt(a, ip)
      BY <2>2, NatMin DEF EndpointsAt, NetworkValues
    <3>2. e \in NetEndpoints /\ a.config.ip[e] = ip
      BY <3>1 DEF EndpointsAt
    <3>3. Probeable(ip)
      BY <1>1, FoundOnHosts DEF Probeable
    <3>4. EntryOf(a, e) = FoundEntry(a, e)
      BY <1>1, <3>2, <3>3 DEF EntryOf
    <3>5. UnclaimedPorts(a, ip) \subseteq EntryOf(a, e).ports
      BY <3>2, <3>4 DEF FoundEntry, EndpointEntry
    <3>6. EntryOf(a, e) \in here
      BY <1>2, <3>2, EntryShape
    <3>7. QED
      BY <2>2, <3>5, <3>6
  <2>3. QED
    BY <2>1, <2>2
<1> HIDE DEF carrier, here
<1>8. CASE p \in ClaimedPorts(a, ip)
  <2>1. \A y \in here : {z \in y.ports : z.service = Null /\ z.port = p} = {}
    BY <1>4, <1>6, <1>8
  <2>2. Listed(here, Null, p) = {}
    BY <2>1 DEF Listed
  <2>3. QED
    BY <1>8, <2>2, FS_EmptySet DEF here
<1>9. CASE p \notin ClaimedPorts(a, ip)
  <2>1. \A y \in here : \A z \in y.ports :
           z.service = Null /\ z.port = p => y = carrier /\ z = row
    BY <1>4, <1>6
  <2>2. carrier \in here /\ row \in carrier.ports /\ row.service = Null /\ row.port = p
    BY <1>5, <1>7, <1>9
  <2>3. \A w \in Listed(here, Null, p) : w = <<carrier.endpoint, row>>
    BY <2>1 DEF Listed
  <2>4. <<carrier.endpoint, row>> \in Listed(here, Null, p)
    BY <2>2 DEF Listed
  <2>5. Listed(here, Null, p) = {<<carrier.endpoint, row>>}
    BY <2>3, <2>4
  <2>6. QED
    BY <1>9, <2>5, FS_Singleton DEF here
<1>10. QED
  BY <1>8, <1>9

LEMMA OverviewListsOnce ==
    ASSUME NetworkValues, NEW a \in ScanArgs
    PROVE  ListsOnce(a, Overview(a))
<1> DEFINE overview == Overview(a)
<1>1. overview = {EntryOf(a, e) : e \in NetEndpoints}
                   \cup {HostEntry(a, ip) : ip \in HostsWithoutEndpoint(a)}
  BY OverviewIsEntries
<1>2. /\ \A e \in NetEndpoints : EntryOf(a, e) \in overview /\ EntryOf(a, e).endpoint = e
      /\ \A x \in overview : x.endpoint \in NetEndpoints => x = EntryOf(a, x.endpoint)
      /\ \A x \in overview : x.endpoint \notin NetEndpoints =>
            \A z \in x.ports : z.service = Null
  BY <1>1, EntryShape, HostShape DEF NetworkValues
<1> HIDE DEF overview
<1>3. ASSUME NEW e \in NetEndpoints PROVE Cardinality({x \in overview : x.endpoint = e}) = 1
  <2>1. {x \in overview : x.endpoint = e} = {EntryOf(a, e)}
    BY <1>2
  <2>2. QED
    BY <2>1, FS_Singleton
<1>4. ASSUME NEW s \in NetServices
      PROVE  \E y \in UNION {x.ports : x \in overview} :
                Listed(overview, s, a.config.port[s]) = {<<EndpointOf[s], y>>}
  <2> DEFINE e == EndpointOf[s]
  <2>1. e \in NetEndpoints /\ s # Null
    BY DEF NetworkValues
  <2>2. HasServices(a, e, EntryOf(a, e).ports)
    BY <2>1, EntryShape
  <2>3. PICK y \in EntryOf(a, e).ports :
          y.port = a.config.port[s] /\ {z \in EntryOf(a, e).ports : z.service = s} = {y}
    BY <2>2 DEF HasServices
  <2>4. ASSUME NEW x \in overview, NEW z \in x.ports, z.service = s
        PROVE  x = EntryOf(a, e) /\ x.endpoint = e /\ z = y
    <3>1. x.endpoint \in NetEndpoints
      BY <1>2, <2>1, <2>4
    <3>2. x = EntryOf(a, x.endpoint) /\ HasServices(a, x.endpoint, x.ports)
      BY <1>2, <3>1, EntryShape
    <3>3. x.endpoint = e
      BY <2>4, <3>2 DEF HasServices
    <3>4. QED
      BY <2>3, <2>4, <3>2, <3>3
  <2>5. \A w \in Listed(overview, s, a.config.port[s]) : w = <<e, y>>
    BY <2>4 DEF Listed
  <2>6. <<e, y>> \in Listed(overview, s, a.config.port[s])
    <3>1. y.service = s /\ EntryOf(a, e) \in overview /\ EntryOf(a, e).endpoint = e
      BY <1>2, <2>1, <2>3
    <3>2. QED
      BY <2>3, <3>1 DEF Listed
  <2>7. Listed(overview, s, a.config.port[s]) = {<<e, y>>}
    BY <2>5, <2>6
  <2>8. y \in UNION {x.ports : x \in overview}
    BY <1>2, <2>1
  <2>9. QED
    BY <2>7, <2>8
<1>5. QED
  BY <1>3, <1>4, ReportedListedOnce DEF ListsOnce, overview

(* Every overview lists each configured endpoint and service exactly once, *)
(* and each reported port that no service claims, whatever a scan found.   *)
THEOREM ConfiguredAreListed == NetSpec => []EveryConfiguredIsListed
<1>1. NetInv => EveryConfiguredIsListed
  BY NetworkValues, OverviewListsOnce, LastKnownIsOverview
     DEF NetInv, NetRequestInv, EveryConfiguredIsListed
<1>2. QED
  BY <1>1, NetAlways, PTL

-----------------------------------------------------------------------------
(* ComposeDeployments *)

(* SetToSeq lists a finite set, each member once.                          *)
LEMMA SetListed ==
    ASSUME NEW S, IsFiniteSet(S)
    PROVE  /\ SetToSeq(S) \in Seq(S)
           /\ IsInjective(SetToSeq(S))
<1>1. PICK f \in [1..Cardinality(S) -> S] : IsInjective(f)
  BY FS_CardinalityType DEF IsInjective, ExistsBijection, Bijection, Injection, IsInjective
<1>2. SetToSeq(S) \in [1..Cardinality(S) -> S] /\ IsInjective(SetToSeq(S))
  BY <1>1 DEF SetToSeq
<1>3. QED
  BY <1>2, FS_CardinalityType

LEMMA Members ==
    ASSUME NEW S, NEW s \in Seq(S)
    PROVE  /\ \A x : x \in ToSet(s) <=> \E i \in 1..Len(s) : s[i] = x
           /\ ToSet(s) \subseteq S
           /\ IsInjective(s) <=> \A i, j \in 1..Len(s) : s[i] = s[j] => i = j
<1>1. DOMAIN s = 1..Len(s) /\ \A i \in 1..Len(s) : s[i] \in S
  OBVIOUS
<1>2. QED
  BY <1>1 DEF ToSet, IsInjective

LEMMA JoinListed ==
    ASSUME NEW S, NEW s \in Seq(S), IsInjective(s), NEW d \in S, d \notin ToSet(s)
    PROVE  <<d>> \o s \in Seq(S) /\ IsInjective(<<d>> \o s)
<1> DEFINE t == <<d>> \o s
<1>1. /\ t \in Seq(S) /\ Len(t) = Len(s) + 1 /\ Len(s) \in Nat
      /\ t[1] = d /\ \A i \in 2..Len(t) : t[i] = s[i - 1]
  OBVIOUS
<1>2. \A i \in 1..Len(s) : s[i] # d
  BY DEF ToSet
<1>3. \A i, j \in 1..Len(t) : t[i] = t[j] => i = j
  <2> SUFFICES ASSUME NEW i \in 1..Len(t), NEW j \in 1..Len(t), t[i] = t[j]
               PROVE  i = j
    OBVIOUS
  <2>1. CASE i = 1 \/ j = 1
    BY <1>1, <1>2, <2>1
  <2>2. CASE i # 1 /\ j # 1
    <3>1. i - 1 \in 1..Len(s) /\ j - 1 \in 1..Len(s) /\ s[i - 1] = s[j - 1]
      BY <1>1, <2>2
    <3>2. i - 1 = j - 1
      BY <3>1 DEF IsInjective
    <3>3. QED
      BY <1>1, <3>2
  <2>3. QED
    BY <2>1, <2>2
<1>4. QED
  BY <1>1, <1>3 DEF IsInjective

LEMMA LeaveListed ==
    ASSUME NEW S, NEW s \in Seq(S), IsInjective(s), NEW k \in 1..Len(s)
    PROVE  RemoveAt(s, k) \in Seq(S) /\ IsInjective(RemoveAt(s, k))
<1> DEFINE t == RemoveAt(s, k)
           u == SubSeq(s, 1, k - 1)
           v == SubSeq(s, k + 1, Len(s))
           at(i) == IF i < k THEN i ELSE i + 1
<1>1. /\ Len(s) \in Nat /\ k \in Nat /\ k >= 1 /\ k <= Len(s)
      /\ u \in Seq(S) /\ Len(u) = k - 1
      /\ v \in Seq(S) /\ Len(v) = Len(s) - k
  OBVIOUS
<1>2. /\ \A i \in 1..(k - 1) : u[i] = s[i]
      /\ \A i \in 1..(Len(s) - k) : v[i] = s[k + i]
  OBVIOUS
<1>3. /\ t = u \o v /\ t \in Seq(S) /\ Len(t) = Len(s) - 1
      /\ \A i \in 1..Len(t) : t[i] = IF i <= Len(u) THEN u[i] ELSE v[i - Len(u)]
  <2>1. t = u \o v
    BY DEF RemoveAt
  <2> HIDE DEF t, u, v
  <2>2. QED
    BY <1>1, <2>1
<1> HIDE DEF t, u, v
<1>4. ASSUME NEW i \in 1..Len(t)
      PROVE  t[i] = s[at(i)] /\ at(i) \in 1..Len(s)
  <2>1. CASE i < k
    BY <1>1, <1>2, <1>3, <2>1
  <2>2. CASE i >= k
    <3>1. i - (k - 1) \in 1..(Len(s) - k) /\ t[i] = v[i - (k - 1)]
      BY <1>1, <1>3, <2>2
    <3>2. QED
      BY <1>1, <1>2, <1>3, <2>2, <3>1
  <2>3. QED
    BY <1>1, <1>3, <2>1, <2>2
<1>5. \A i, j \in 1..Len(t) : t[i] = t[j] => i = j
  <2> SUFFICES ASSUME NEW i \in 1..Len(t), NEW j \in 1..Len(t), t[i] = t[j]
               PROVE  i = j
    OBVIOUS
  <2>1. s[at(i)] = s[at(j)] /\ at(i) \in 1..Len(s) /\ at(j) \in 1..Len(s)
    BY <1>4
  <2>2. at(i) = at(j)
    BY <2>1 DEF IsInjective
  <2>3. QED
    BY <1>1, <1>3, <2>2
<1>6. IsInjective(t)
  BY <1>3, <1>5, Members
<1>7. QED
  BY <1>3, <1>6 DEF t

(* The pages read so far hold the devices listed so far.                   *)
LEMMA PageListed ==
    ASSUME NEW S, NEW s \in Seq(S), NEW f \in Seq(S), NEW k \in Nat, NEW n \in Nat,
           \A i \in 1..Len(s) : i <= k => s[i] \in ToSet(f)
    PROVE  LET last == IF k + n <= Len(s) THEN k + n ELSE Len(s)
               g == f \o SubSeq(s, k + 1, last)
           IN  /\ g \in Seq(S)
               /\ \A i \in 1..Len(s) : i <= k + n => s[i] \in ToSet(g)
<1> DEFINE last == IF k + n <= Len(s) THEN k + n ELSE Len(s)
           page == SubSeq(s, k + 1, last)
           g == f \o page
<1>1. Len(s) \in Nat /\ last \in Nat /\ last <= Len(s)
  OBVIOUS
<1>2. /\ page \in Seq(S)
      /\ k + 1 <= last => Len(page) = last - k
      /\ \A j \in 1..Len(page) : page[j] = s[k + j]
  OBVIOUS
<1> HIDE DEF last, page
<1>3. /\ g \in Seq(S) /\ Len(g) = Len(f) + Len(page)
      /\ Len(f) \in Nat /\ Len(page) \in Nat
      /\ \A j \in 1..Len(f) : g[j] = f[j]
      /\ \A j \in 1..Len(page) : g[Len(f) + j] = page[j]
  BY <1>2
<1> HIDE DEF g
<1>4. ASSUME NEW i \in 1..Len(s), i <= k + n
      PROVE  s[i] \in ToSet(g)
  <2>1. CASE i <= k
    <3>1. PICK j \in 1..Len(f) : f[j] = s[i]
      BY <2>1 DEF ToSet
    <3>2. j \in 1..Len(g) /\ g[j] = s[i]
      BY <1>3, <3>1
    <3>3. QED
      BY <1>3, <3>2, Members
  <2>2. CASE i > k
    <3>1. i <= last /\ k + 1 <= last
      BY <1>1, <1>4, <2>2 DEF last
    <3>2. i - k \in 1..Len(page) /\ page[i - k] = s[i]
      BY <1>1, <1>2, <2>2, <3>1
    <3> DEFINE j == i - k
    <3>3. j \in 1..Len(page) /\ page[j] = s[i]
      BY <3>2
    <3> HIDE DEF j
    <3>4. g[Len(f) + j] = s[i] /\ Len(f) + j \in 1..Len(g)
      BY <1>3, <3>3
    <3>5. QED
      BY <1>3, <3>4, Members
  <2>3. QED
    BY <2>1, <2>2
<1>5. QED
  BY <1>3, <1>4 DEF last, page, g

(* The last page reaches the end of the list.                              *)
LEMMA LastPage ==
    ASSUME NEW rows \in Nat
    PROVE  /\ PageCount(rows) \in Nat
           /\ rows <= PageCount(rows) * RowsPerPage
<1>1. RowsPerPage \in Nat \ {0}
  BY ComposeValues
<1>2. rows < (rows \div RowsPerPage + 1) * RowsPerPage /\ rows \div RowsPerPage \in Nat
  BY <1>1
<1>3. QED
  BY <1>1, <1>2 DEF PageCount

-----------------------------------------------------------------------------
ComposeArgs ==
    [name : Deployments \cup {Null}, compose : Composes \cup {Null},
     found : Seq(EdgeDevices), page : Nat, rows : Nat]

ComposeRequestInv(r) ==
    /\ composeArg[r] \in ComposeArgs
    /\ composePc[r] \in {"insert", "update"} =>
          composeArg[r].name \in Deployments /\ composeArg[r].compose \in ComposeRequests
    /\ composePc[r] \in {"list", "batch", "activate"} => composeArg[r].compose \in Composes
    /\ composePc[r] = "activate" => composeArg[r].name \in Deployments

(* What an activation or a clearing has read is still so.                  *)
StillActivating(r) ==
    LET a == composeArg[r]
    IN  /\ a.name = Null => active = Null /\ a.compose = NoCompose
        /\ a.name # Null => a.name \in Deployments /\ deployments[a.name] = a.compose

(* What a request that nobody has disturbed may rely on.                   *)
ComposeSoloInv(r) ==
    LET a == composeArg[r]
    IN  /\ composePc[r] \in {"insert", "update"} =>
              /\ composePc[r] = "insert" <=> deployments[a.name] = Null
              /\ PortsAreFree(a.name, a.compose)
        /\ composePc[r] \in {"list", "batch", "activate"} => StillActivating(r)
        /\ composePc[r] = "list" =>
              /\ \A i \in 1..Len(edgeDevices) :
                    i <= a.page * RowsPerPage => edgeDevices[i] \in ToSet(a.found)
              /\ a.page > 0 => a.rows = Len(edgeDevices)
        /\ composePc[r] = "batch" => ToSet(edgeDevices) \subseteq ToSet(a.found)
        /\ composePc[r] = "activate" =>
              \A d \in ToSet(edgeDevices) : edgeVariable[d] = a.compose

ComposeTablesInv ==
    /\ deployments \in [Deployments -> ComposeRequests \cup {Null}]
    /\ active \in Deployments \cup {Null}
    /\ active # Null => deployments[active] # Null
    /\ edgeDevices \in Seq(EdgeDevices) /\ IsInjective(edgeDevices)
    /\ edgeVariable \in [EdgeDevices -> Composes \cup {Null}]

ComposePcInv ==
    /\ composePc \in [Requests -> {"idle", "insert", "update", "list", "batch", "activate"}]
    /\ composeArg \in [Requests -> ComposeArgs]
    /\ composeSolo \subseteq Requests

ComposeInv ==
    /\ ComposeTablesInv
    /\ ComposePcInv
    /\ \A r \in Requests : ComposeRequestInv(r)
    /\ \A r \in composeSolo : ComposeSoloInv(r)

LEMMA ComposeInitInv == ComposeInit => ComposeInv
<1> SUFFICES ASSUME ComposeInit PROVE ComposeInv
  OBVIOUS
<1>1. edgeDevices \in Seq(EdgeDevices) /\ IsInjective(edgeDevices)
  <2>1. PICK S \in SUBSET EdgeDevices : edgeDevices = SetToSeq(S)
    BY DEF ComposeInit
  <2>2. IsFiniteSet(S)
    BY <2>1, ComposeValues, FS_Subset
  <2>3. edgeDevices \in Seq(S) /\ IsInjective(edgeDevices)
    BY <2>1, <2>2, SetListed
  <2>4. QED
    BY <2>3
<1>2. ComposeTablesInv
  BY <1>1 DEF ComposeInit, ComposeTablesInv
<1>3. ComposeBlank \in ComposeArgs
  BY DEF ComposeBlank, ComposeArgs
<1>4. QED
  BY <1>2, <1>3 DEF ComposeInit, ComposeInv, ComposePcInv, ComposeRequestInv

(* A step of one request, and of the tables.                               *)
OnlyComposeOf(r) ==
    /\ composePc' = [composePc EXCEPT ![r] = composePc'[r]]
    /\ composeArg' = [composeArg EXCEPT ![r] = composeArg'[r]]

LEMMA ComposeMoves ==
    ASSUME ComposeInv, NEW r \in Requests, OnlyComposeOf(r),
           composePc'[r] \in {"idle", "insert", "update", "list", "batch", "activate"},
           ComposeTablesInv', ComposeRequestInv(r)', composeSolo' \subseteq Requests,
           r \in composeSolo' => ComposeSoloInv(r)',
           \/ composeSolo' \subseteq {r}
           \/ composeSolo' \subseteq composeSolo \cup {r} /\ UNCHANGED composeTables
    PROVE  ComposeInv'
<1>1. composeArg'[r] \in ComposeArgs
  BY DEF ComposeRequestInv
<1>2. ComposePcInv'
  BY <1>1 DEF OnlyComposeOf, ComposeInv, ComposePcInv
<1>3. \A q \in Requests \ {r} : composePc'[q] = composePc[q] /\ composeArg'[q] = composeArg[q]
  BY DEF OnlyComposeOf, ComposeInv, ComposePcInv
<1>4. \A q \in Requests : ComposeRequestInv(q)'
  BY <1>3 DEF ComposeInv, ComposeRequestInv
<1>5. ASSUME NEW q \in composeSolo', q # r
      PROVE  ComposeSoloInv(q)'
  <2>1. UNCHANGED composeTables /\ q \in composeSolo /\ q \in Requests
    BY <1>5
  <2>2. ComposeSoloInv(q) /\ composePc'[q] = composePc[q] /\ composeArg'[q] = composeArg[q]
    BY <1>3, <1>5, <2>1 DEF ComposeInv
  <2>3. QED
    BY <2>1, <2>2 DEF ComposeSoloInv, composeTables, StillActivating, PortsAreFree, OtherPorts, PortsOf
<1>6. QED
  BY <1>2, <1>4, <1>5 DEF ComposeInv

LEMMA ComposeGoes ==
    ASSUME ComposeInv, NEW r \in Requests, NEW step, ComposeGoto(r, step)
    PROVE  /\ OnlyComposeOf(r)
           /\ composePc'[r] = step
           /\ composeArg'[r] = IF step = "idle" THEN ComposeBlank ELSE composeArg[r]
BY DEF ComposeInv, ComposePcInv, ComposeGoto, OnlyComposeOf

LEMMA BlankArg ==
    /\ ComposeBlank \in ComposeArgs
    /\ ComposeBlank.name = Null /\ ComposeBlank.page = 0
BY DEF ComposeBlank, ComposeArgs

LEMMA BlankFilled ==
    ASSUME NEW n \in Deployments, NEW c \in Composes
    PROVE  /\ [ComposeBlank EXCEPT !.name = n, !.compose = c] \in ComposeArgs
           /\ [ComposeBlank EXCEPT !.name = n, !.compose = c].name = n
           /\ [ComposeBlank EXCEPT !.name = n, !.compose = c].compose = c
           /\ [ComposeBlank EXCEPT !.name = n, !.compose = c].page = 0
BY BlankArg DEF ComposeArgs

LEMMA BlankCompose ==
    ASSUME NEW c \in Composes
    PROVE  /\ [ComposeBlank EXCEPT !.compose = c] \in ComposeArgs
           /\ [ComposeBlank EXCEPT !.compose = c].name = Null
           /\ [ComposeBlank EXCEPT !.compose = c].compose = c
           /\ [ComposeBlank EXCEPT !.compose = c].page = 0
BY BlankArg DEF ComposeArgs

LEMMA NextPage ==
    ASSUME NEW n \in Nat, NEW m \in Nat
    PROVE  n * m \in Nat /\ (n + 1) * m = n * m + m /\ ((n + 1) - 1) * m = n * m
OBVIOUS

LEMMA PutDeploymentInv ==
    ASSUME ComposeInv, NEW r \in Requests, NEW n \in Deployments, NEW q \in ComposeRequests,
           PutDeployment(r, n, q)
    PROVE  ComposeInv'
<1> DEFINE a == [ComposeBlank EXCEPT !.name = n, !.compose = q]
<1>1. a \in ComposeArgs /\ a.name = n /\ a.compose = q
  BY BlankFilled DEF Composes
<1>2. /\ OnlyComposeOf(r) /\ composeArg'[r] = a
      /\ composePc'[r] = IF deployments[n] = Null THEN "insert" ELSE "update"
      /\ composeSolo' = composeSolo \cup {r}
      /\ UNCHANGED composeTables
  BY DEF ComposeInv, ComposePcInv, PutDeployment, ComposeBegin, OnlyComposeOf
<1> HIDE DEF a
<1>3. ComposeRequestInv(r)'
  BY <1>1, <1>2 DEF ComposeRequestInv
<1>4. ComposeTablesInv'
  BY <1>2 DEF ComposeInv, ComposeTablesInv, composeTables
<1>5. ComposeSoloInv(r)'
  <2>1. PortsAreFree(n, q)'
    BY <1>2 DEF PutDeployment, PortsAreFree, OtherPorts, composeTables, PortsOf
  <2>2. QED
    BY <1>1, <1>2, <2>1 DEF ComposeSoloInv, composeTables, PortsAreFree, OtherPorts, PortsOf
<1>6. composeSolo' \subseteq Requests
  BY <1>2 DEF ComposeInv, ComposePcInv
<1>7. QED
  BY <1>2, <1>3, <1>4, <1>5, <1>6, ComposeMoves

LEMMA WriteDeploymentInv ==
    ASSUME ComposeInv, NEW r \in Requests, WriteDeployment(r)
    PROVE  ComposeInv'
<1>1. OnlyComposeOf(r) /\ composePc'[r] = "idle" /\ composeArg'[r] = ComposeBlank
  BY ComposeGoes DEF WriteDeployment
<1>2. ComposeRequestInv(r)' /\ ComposeSoloInv(r)'
  BY <1>1, BlankArg DEF ComposeRequestInv, ComposeSoloInv
<1>3. composeArg[r].name \in Deployments /\ composeArg[r].compose \in ComposeRequests
  BY DEF WriteDeployment, ComposeInv, ComposeRequestInv
<1>4. composeArg[r].compose # Null
  BY <1>3, ComposeValues DEF Composes
<1>5. ComposeTablesInv'
  BY <1>3, <1>4 DEF WriteDeployment, ComposeInv, ComposeTablesInv
<1>6. \/ composeSolo' \subseteq {r}
      \/ composeSolo' \subseteq composeSolo \cup {r} /\ UNCHANGED composeTables
  BY DEF WriteDeployment, composeTables
<1>7. composeSolo' \subseteq Requests
  BY DEF WriteDeployment, ComposeInv, ComposePcInv
<1>8. QED
  BY <1>1, <1>2, <1>5, <1>6, <1>7, ComposeMoves

LEMMA PutActiveInv ==
    ASSUME ComposeInv, NEW r \in Requests, NEW n \in Deployments, PutActive(r, n)
    PROVE  ComposeInv'
<1> DEFINE a == [ComposeBlank EXCEPT !.name = n, !.compose = deployments[n]]
<1>1. deployments[n] \in ComposeRequests
  BY DEF PutActive, ComposeInv, ComposeTablesInv
<1>2. /\ a \in ComposeArgs /\ a.name = n /\ a.compose = deployments[n]
      /\ a.page = 0 /\ n # Null
  <2>1. deployments[n] \in Composes /\ n # Null
    BY <1>1, ComposeValues DEF Composes
  <2>2. QED
    BY <2>1, BlankFilled
<1>3. /\ OnlyComposeOf(r) /\ composeArg'[r] = a /\ composePc'[r] = "list"
      /\ composeSolo' = composeSolo \cup {r}
      /\ UNCHANGED composeTables
  BY DEF ComposeInv, ComposePcInv, PutActive, ComposeBegin, OnlyComposeOf
<1> HIDE DEF a
<1>4. ComposeRequestInv(r)'
  BY <1>1, <1>2, <1>3 DEF ComposeRequestInv, Composes
<1>5. ComposeTablesInv'
  BY <1>3 DEF ComposeInv, ComposeTablesInv, composeTables
<1>6. ComposeSoloInv(r)'
  <2>1. RowsPerPage \in Nat /\ Len(edgeDevices) \in Nat
    BY ComposeValues DEF ComposeInv, ComposeTablesInv
  <2>2. 0 * RowsPerPage = 0
    BY <2>1
  <2>3. edgeDevices' = edgeDevices /\ deployments' = deployments
    BY <1>3 DEF composeTables
  <2>4. \A i \in 1..Len(edgeDevices) : ~ (i <= a.page * RowsPerPage)
    BY <1>2, <2>1, <2>2
  <2>5. QED
    BY <1>2, <1>3, <2>3, <2>4 DEF ComposeSoloInv, StillActivating
<1>7. composeSolo' \subseteq Requests
  BY <1>3 DEF ComposeInv, ComposePcInv
<1>8. QED
  BY <1>3, <1>4, <1>5, <1>6, <1>7, ComposeMoves

LEMMA ClearActiveInv ==
    ASSUME ComposeInv, NEW r \in Requests, ClearActive(r)
    PROVE  ComposeInv'
<1> DEFINE a == [ComposeBlank EXCEPT !.compose = NoCompose]
<1>1. /\ a \in ComposeArgs /\ a.name = Null /\ a.compose = NoCompose /\ a.page = 0
  <2>1. NoCompose \in Composes
    BY DEF Composes
  <2>2. QED
    BY <2>1, BlankCompose
<1>2. /\ OnlyComposeOf(r) /\ composeArg'[r] = a /\ composePc'[r] = "list"
      /\ composeSolo' = {r} /\ active' = Null
      /\ UNCHANGED <<deployments, edgeDevices, edgeVariable>>
  BY DEF ComposeInv, ComposePcInv, ClearActive, OnlyComposeOf
<1> HIDE DEF a
<1>3. ComposeRequestInv(r)'
  BY <1>1, <1>2 DEF ComposeRequestInv, Composes
<1>4. ComposeTablesInv'
  BY <1>2 DEF ComposeInv, ComposeTablesInv
<1>5. ComposeSoloInv(r)'
  <2>1. RowsPerPage \in Nat /\ Len(edgeDevices) \in Nat
    BY ComposeValues DEF ComposeInv, ComposeTablesInv
  <2>2. 0 * RowsPerPage = 0
    BY <2>1
  <2>3. \A i \in 1..Len(edgeDevices) : ~ (i <= a.page * RowsPerPage)
    BY <1>1, <2>1, <2>2
  <2>4. QED
    BY <1>1, <1>2, <2>3 DEF ComposeSoloInv, StillActivating
<1>6. QED
  BY <1>2, <1>3, <1>4, <1>5, ComposeMoves

LEMMA ListDevicesInv ==
    ASSUME ComposeInv, NEW r \in Requests, ListDevices(r)
    PROVE  ComposeInv'
<1> DEFINE a == composeArg[r]
           b == composeArg'[r]
           rows == IF a.page = 0 THEN Len(edgeDevices) ELSE a.rows
<1>1. /\ edgeDevices \in Seq(EdgeDevices) /\ a \in ComposeArgs /\ Len(edgeDevices) \in Nat
      /\ RowsPerPage \in Nat \ {0} /\ composePc[r] = "list" /\ a.compose \in Composes
  BY ComposeValues DEF ListDevices, ComposeInv, ComposeTablesInv, ComposeRequestInv
<1>2. /\ OnlyComposeOf(r) /\ UNCHANGED <<composeTables, composeSolo>>
      /\ b = [a EXCEPT !.found = a.found \o Page(a.page + 1), !.page = a.page + 1, !.rows = rows]
      /\ composePc'[r] = IF a.page + 1 = PageCount(rows) THEN "batch" ELSE "list"
  BY DEF ComposeInv, ComposePcInv, ListDevices, OnlyComposeOf
<1>3. a.page \in Nat /\ rows \in Nat /\ a.found \in Seq(EdgeDevices)
  BY <1>1 DEF ComposeArgs
<1> DEFINE k == a.page * RowsPerPage
           last == IF k + RowsPerPage <= Len(edgeDevices) THEN k + RowsPerPage ELSE Len(edgeDevices)
           g == a.found \o SubSeq(edgeDevices, k + 1, last)
<1>4. /\ k \in Nat /\ (a.page + 1) * RowsPerPage = k + RowsPerPage
      /\ ((a.page + 1) - 1) * RowsPerPage = k
  <2>1. a.page \in Nat /\ RowsPerPage \in Nat
    BY <1>1, <1>3
  <2>2. QED
    BY <2>1, NextPage
<1>5. Page(a.page + 1) = SubSeq(edgeDevices, k + 1, last)
  BY <1>4 DEF Page
<1>6. g \in Seq(EdgeDevices)
  <2>1. Len(edgeDevices) \in Nat /\ k \in Nat /\ RowsPerPage \in Nat
    BY <1>1, <1>4
  <2>2. last \in Nat
    BY <2>1
  <2> HIDE DEF last, k
  <2>3. SubSeq(edgeDevices, k + 1, last) \in Seq(EdgeDevices)
    BY <1>1, <2>1, <2>2 DEF last
  <2>4. QED
    BY <1>3, <2>3
<1>7. b = [a EXCEPT !.found = g, !.page = a.page + 1, !.rows = rows]
  BY <1>2, <1>5
<1>8. /\ b \in ComposeArgs /\ b.found = g /\ b.page = a.page + 1 /\ b.rows = rows
      /\ b.name = a.name /\ b.compose = a.compose
  <2>1. a.page + 1 \in Nat /\ a \in ComposeArgs
    BY <1>1, <1>3
  <2> DEFINE p == a.page + 1
  <2>2. p \in Nat /\ b = [a EXCEPT !.found = g, !.page = p, !.rows = rows]
    BY <1>7, <2>1
  <2> HIDE DEF a, b, g, rows, p
  <2>3. /\ b \in ComposeArgs /\ b.found = g /\ b.page = p /\ b.rows = rows
        /\ b.name = a.name /\ b.compose = a.compose
    BY <1>3, <1>6, <2>1, <2>2 DEF ComposeArgs
  <2>4. QED
    BY <2>3 DEF p
<1> HIDE DEF a, b, k, g, rows, last
<1>9. ComposeRequestInv(r)'
  BY <1>1, <1>2, <1>8 DEF ComposeRequestInv, b
<1>10. ASSUME r \in composeSolo'
       PROVE  ComposeSoloInv(r)'
  <2>1. /\ StillActivating(r)
        /\ \A i \in 1..Len(edgeDevices) : i <= k => edgeDevices[i] \in ToSet(a.found)
        /\ a.page > 0 => a.rows = Len(edgeDevices)
    BY <1>1, <1>2, <1>10 DEF ComposeInv, ComposeSoloInv, a, k
  <2>2. rows = Len(edgeDevices)
    BY <1>3, <2>1 DEF rows
  <2>3. \A i \in 1..Len(edgeDevices) : i <= k + RowsPerPage => edgeDevices[i] \in ToSet(g)
    <3>1. k \in Nat /\ RowsPerPage \in Nat
      BY <1>1, <1>4
    <3>2. QED
      BY <1>1, <1>3, <2>1, <3>1, PageListed DEF g, last
  <2>4. a.page + 1 = PageCount(rows) => ToSet(edgeDevices) \subseteq ToSet(g)
    <3>1. SUFFICES ASSUME a.page + 1 = PageCount(rows) PROVE ToSet(edgeDevices) \subseteq ToSet(g)
      OBVIOUS
    <3>2. Len(edgeDevices) <= k + RowsPerPage
      BY <1>1, <1>4, <2>2, <3>1, LastPage
    <3>3. \A i \in 1..Len(edgeDevices) : edgeDevices[i] \in ToSet(g)
      BY <1>1, <1>4, <2>3, <3>2
    <3>4. QED
      BY <1>1, <3>3, Members
  <2>5. UNCHANGED <<deployments, active, edgeDevices, edgeVariable>>
    BY <1>2 DEF composeTables
  <2>6. StillActivating(r)'
    BY <1>8, <2>1, <2>5 DEF StillActivating, a, b
  <2>7. CASE a.page + 1 = PageCount(rows)
    BY <1>2, <1>8, <2>4, <2>5, <2>6, <2>7 DEF ComposeSoloInv, b
  <2>8. CASE a.page + 1 # PageCount(rows)
    <3>1. b.page * RowsPerPage = k + RowsPerPage
      BY <1>4, <1>8
    <3>2. \A i \in 1..Len(edgeDevices) : i <= b.page * RowsPerPage => edgeDevices[i] \in ToSet(b.found)
      BY <1>8, <2>3, <3>1
    <3>3. composePc'[r] = "list" /\ b.rows = Len(edgeDevices)
      BY <1>2, <1>8, <2>2, <2>8
    <3>4. QED
      BY <2>5, <2>6, <3>2, <3>3 DEF ComposeSoloInv, b
  <2>9. QED
    BY <2>7, <2>8
<1>11. ComposeTablesInv'
  BY <1>2 DEF ComposeInv, ComposeTablesInv, composeTables
<1>12. composeSolo' \subseteq Requests /\ composeSolo' \subseteq composeSolo \cup {r}
  BY <1>2 DEF ComposeInv, ComposePcInv
<1>13. composePc'[r] \in {"idle", "insert", "update", "list", "batch", "activate"}
  BY <1>2
<1>14. QED
  BY <1>2, <1>9, <1>10, <1>11, <1>12, <1>13, ComposeMoves

LEMMA AppliedTyped ==
    ASSUME ComposeInv, NEW r \in Requests, composePc[r] = "batch"
    PROVE  /\ Applied(composeArg[r]) \in [EdgeDevices -> Composes \cup {Null}]
           /\ \A d \in ToSet(edgeDevices) :
                 d \in ToSet(composeArg[r].found) => Applied(composeArg[r])[d] = composeArg[r].compose
<1>1. composeArg[r].compose \in Composes /\ edgeVariable \in [EdgeDevices -> Composes \cup {Null}]
  BY DEF ComposeInv, ComposeRequestInv, ComposeTablesInv
<1>2. ToSet(edgeDevices) \subseteq EdgeDevices
  BY Members DEF ComposeInv, ComposeTablesInv
<1>3. QED
  BY <1>1, <1>2 DEF Applied

LEMMA SetVariablesInv ==
    ASSUME ComposeInv, NEW r \in Requests, SetVariables(r)
    PROVE  ComposeInv'
<1>1. /\ OnlyComposeOf(r) /\ composePc'[r] = AfterBatch(composeArg[r])
      /\ composeArg'[r] = IF composePc'[r] = "idle" THEN ComposeBlank ELSE composeArg[r]
  BY ComposeGoes DEF SetVariables
<1>2. /\ composePc[r] = "batch" /\ composeArg[r] \in ComposeArgs /\ composeArg[r].compose \in Composes
      /\ composeArg[r].name \in Deployments \cup {Null}
  BY DEF SetVariables, ComposeInv, ComposeRequestInv, ComposeArgs
<1>3. ComposeRequestInv(r)'
  BY <1>1, <1>2, BlankArg DEF AfterBatch, ComposeRequestInv
<1>4. ComposeTablesInv'
  <2>1. edgeVariable' \in [EdgeDevices -> Composes \cup {Null}]
    BY <1>2, AppliedTyped DEF SetVariables
  <2>2. QED
    BY <2>1 DEF SetVariables, ComposeInv, ComposeTablesInv
<1>5. ASSUME r \in composeSolo'
      PROVE  ComposeSoloInv(r)'
  <2>1. StillActivating(r) /\ ToSet(edgeDevices) \subseteq ToSet(composeArg[r].found)
    BY <1>2, <1>5 DEF SetVariables, ComposeInv, ComposeSoloInv
  <2>2. \A d \in ToSet(edgeDevices) : edgeVariable'[d] = composeArg[r].compose
    BY <1>2, <2>1, AppliedTyped DEF SetVariables
  <2>3. CASE composePc'[r] = "idle"
    BY <2>3 DEF ComposeSoloInv
  <2>4. CASE composePc'[r] # "idle"
    <3>1. composePc'[r] = "activate" /\ composeArg'[r] = composeArg[r]
      BY <1>1, <2>4 DEF AfterBatch
    <3>2. UNCHANGED <<deployments, active, edgeDevices>>
      BY DEF SetVariables
    <3>3. StillActivating(r)'
      BY <2>1, <3>1, <3>2 DEF StillActivating
    <3>4. QED
      BY <2>2, <3>1, <3>2, <3>3 DEF ComposeSoloInv
  <2>5. QED
    BY <2>3, <2>4
<1>6. composeSolo' \subseteq {r} /\ composeSolo' \subseteq Requests
  BY DEF SetVariables
<1>7. composePc'[r] \in {"idle", "insert", "update", "list", "batch", "activate"}
  BY <1>1 DEF AfterBatch
<1>8. QED
  BY <1>1, <1>3, <1>4, <1>5, <1>6, <1>7, ComposeMoves

LEMMA LoseSmartEmsInv ==
    ASSUME ComposeInv, NEW r \in Requests, LoseSmartEms(r)
    PROVE  ComposeInv'
<1>1. OnlyComposeOf(r) /\ composePc'[r] = "idle" /\ composeArg'[r] = ComposeBlank
  BY ComposeGoes DEF LoseSmartEms
<1>2. ComposeRequestInv(r)'
  BY <1>1, BlankArg DEF ComposeRequestInv
<1>3. edgeVariable' \in [EdgeDevices -> Composes \cup {Null}]
  <2>1. CASE edgeVariable' = edgeVariable
    BY <2>1 DEF ComposeInv, ComposeTablesInv
  <2>2. CASE composePc[r] = "batch" /\ edgeVariable' = Applied(composeArg[r])
    BY <2>2, AppliedTyped
  <2>3. QED
    BY <2>1, <2>2 DEF LoseSmartEms
<1>4. ComposeTablesInv'
  BY <1>3 DEF LoseSmartEms, ComposeInv, ComposeTablesInv
<1>5. composeSolo' = {}
  BY DEF LoseSmartEms
<1>6. QED
  BY <1>1, <1>2, <1>4, <1>5, ComposeMoves

LEMMA ActivateInv ==
    ASSUME ComposeInv, NEW r \in Requests, Activate(r)
    PROVE  ComposeInv'
<1>1. OnlyComposeOf(r) /\ composePc'[r] = "idle" /\ composeArg'[r] = ComposeBlank
  BY ComposeGoes DEF Activate
<1>2. ComposeRequestInv(r)' /\ ComposeSoloInv(r)'
  BY <1>1, BlankArg DEF ComposeRequestInv, ComposeSoloInv
<1>3. composeArg[r].name \in Deployments
  BY DEF Activate, ComposeInv, ComposeRequestInv
<1>4. ComposeTablesInv'
  BY <1>3 DEF Activate, ComposeInv, ComposeTablesInv
<1>5. \/ composeSolo' \subseteq {r}
      \/ composeSolo' \subseteq composeSolo \cup {r} /\ UNCHANGED composeTables
  BY DEF Activate, composeTables
<1>6. composeSolo' \subseteq Requests
  BY DEF Activate, ComposeInv, ComposePcInv
<1>7. QED
  BY <1>1, <1>2, <1>4, <1>5, <1>6, ComposeMoves

(* What SmartEMS or a deletion does leaves no request undisturbed.         *)
LEMMA ComposeDisturbed ==
    ASSUME ComposeInv, ComposeTablesInv', composeSolo' = {}, UNCHANGED <<composePc, composeArg>>
    PROVE  ComposeInv'
BY DEF ComposeInv, ComposePcInv, ComposeRequestInv

LEMMA DeleteDeploymentInv ==
    ASSUME ComposeInv, NEW n \in Deployments, DeleteDeployment(n)
    PROVE  ComposeInv'
<1>1. ComposeTablesInv'
  BY DEF DeleteDeployment, ComposeInv, ComposeTablesInv
<1>2. QED
  BY <1>1, ComposeDisturbed DEF DeleteDeployment

LEMMA JoinInv ==
    ASSUME ComposeInv, NEW d \in EdgeDevices, Join(d)
    PROVE  ComposeInv'
<1>1. edgeDevices' \in Seq(EdgeDevices) /\ IsInjective(edgeDevices)'
  <2>1. edgeDevices \in Seq(EdgeDevices) /\ IsInjective(edgeDevices)
    BY DEF ComposeInv, ComposeTablesInv
  <2>2. <<d>> \o edgeDevices \in Seq(EdgeDevices) /\ IsInjective(<<d>> \o edgeDevices)
    BY <2>1, JoinListed DEF Join
  <2>3. QED
    BY <2>2 DEF Join, IsInjective
<1>2. ComposeTablesInv'
  BY <1>1 DEF Join, ComposeInv, ComposeTablesInv
<1>3. QED
  BY <1>2, ComposeDisturbed DEF Join

LEMMA LeaveInv ==
    ASSUME ComposeInv, NEW d \in EdgeDevices, Leave(d)
    PROVE  ComposeInv'
<1>1. edgeDevices' \in Seq(EdgeDevices) /\ IsInjective(edgeDevices)'
  <2>1. edgeDevices \in Seq(EdgeDevices) /\ IsInjective(edgeDevices)
    BY DEF ComposeInv, ComposeTablesInv
  <2>2. PICK i \in 1..Len(edgeDevices) : edgeDevices' = RemoveAt(edgeDevices, i)
    BY DEF Leave
  <2>3. RemoveAt(edgeDevices, i) \in Seq(EdgeDevices) /\ IsInjective(RemoveAt(edgeDevices, i))
    BY <2>1, LeaveListed
  <2>4. QED
    BY <2>2, <2>3 DEF IsInjective
<1>2. edgeVariable' \in [EdgeDevices -> Composes \cup {Null}]
  BY DEF Leave, ComposeInv, ComposeTablesInv
<1>3. ComposeTablesInv'
  BY <1>1, <1>2 DEF Leave, ComposeInv, ComposeTablesInv
<1>4. QED
  BY <1>3, ComposeDisturbed DEF Leave

LEMMA ComposeNextInv == ComposeInv /\ [ComposeNext]_composeVars => ComposeInv'
<1> SUFFICES ASSUME ComposeInv, [ComposeNext]_composeVars PROVE ComposeInv'
  OBVIOUS
<1>1. CASE \E n \in Deployments : DeleteDeployment(n)
  BY <1>1, DeleteDeploymentInv
<1>2. ASSUME NEW r \in Requests,
             \/ \E n \in Deployments, q \in ComposeRequests : PutDeployment(r, n, q)
             \/ WriteDeployment(r)
             \/ \E n \in Deployments : PutActive(r, n)
             \/ ClearActive(r)
      PROVE  ComposeInv'
  BY <1>2, PutDeploymentInv, WriteDeploymentInv, PutActiveInv, ClearActiveInv
<1>3. ASSUME NEW r \in Requests,
             ListDevices(r) \/ SetVariables(r) \/ LoseSmartEms(r) \/ Activate(r)
      PROVE  ComposeInv'
  BY <1>3, ListDevicesInv, SetVariablesInv, LoseSmartEmsInv, ActivateInv
<1>4. CASE \E d \in EdgeDevices : Join(d) \/ Leave(d)
  BY <1>4, JoinInv, LeaveInv
<1>5. CASE UNCHANGED composeVars
  BY <1>5 DEF composeVars, composeTables, ComposeInv, ComposeTablesInv, ComposePcInv, ComposeRequestInv,
              ComposeSoloInv, StillActivating, PortsAreFree, OtherPorts, PortsOf, IsInjective
<1>6. QED
  BY <1>1, <1>2, <1>3, <1>4, <1>5 DEF ComposeNext

LEMMA ComposeInvHolds == ComposeSpec => []ComposeInv
BY ComposeInitInv, ComposeNextInv, PTL DEF ComposeSpec

(* In every state: the active row names a deployment that exists, SmartEMS *)
(* lists no device twice, and the variables hold composes.                 *)
THEOREM ComposeTyped == ComposeSpec => []ComposeTypeOK
<1>1. ComposeInv => ComposeTypeOK
  <2>1. ComposeInv => ToSet(edgeDevices) \subseteq EdgeDevices
    BY Members DEF ComposeInv, ComposeTablesInv
  <2>2. QED
    BY <2>1 DEF ComposeInv, ComposeTablesInv, ComposePcInv, ComposeTypeOK
<1>2. QED
  BY <1>1, ComposeInvHolds, PTL

LEMMA PortsStayApartStep ==
    ASSUME ComposeInv, [ComposeNext]_composeVars, NEW r \in composeSolo,
           composePc[r] \in {"insert", "update"}, composePc'[r] = "idle"
    PROVE  ApartFrom(composeArg[r].name, deployments')
<1>1. /\ r \in Requests /\ ComposeSoloInv(r)
      /\ composePc \in [Requests -> {"idle", "insert", "update", "list", "batch", "activate"}]
  BY DEF ComposeInv, ComposePcInv
<1>2. WriteDeployment(r)
  <2>1. composePc' # composePc
    BY <1>1
  <2>2. PICK q \in Requests :
          \/ \E n \in Deployments, c \in ComposeRequests : PutDeployment(q, n, c)
          \/ WriteDeployment(q)
          \/ \E n \in Deployments : PutActive(q, n)
          \/ ClearActive(q)
          \/ ListDevices(q) \/ SetVariables(q) \/ LoseSmartEms(q) \/ Activate(q)
    BY <2>1 DEF ComposeNext, composeVars, DeleteDeployment, Join, Leave
  <2>3. CASE q = r
    BY <2>2, <2>3, <1>1 DEF PutDeployment, PutActive, ComposeBegin, ClearActive, ListDevices,
                            SetVariables, LoseSmartEms, Activate
  <2>4. CASE q # r
    BY <2>2, <2>4, <1>1 DEF PutDeployment, WriteDeployment, PutActive, ComposeBegin, ClearActive,
                            ListDevices, SetVariables, LoseSmartEms, Activate, ComposeGoto
  <2>5. QED
    BY <2>3, <2>4
<1> DEFINE name == composeArg[r].name
           compose == composeArg[r].compose
<1>3. PortsAreFree(name, compose) /\ name \in Deployments
      /\ (composePc[r] = "insert" <=> deployments[name] = Null)
  BY <1>1 DEF ComposeSoloInv, ComposeInv, ComposeRequestInv
<1>4. deployments' = [deployments EXCEPT ![name] = compose]
  BY <1>2, <1>3 DEF WriteDeployment
<1>5. DOMAIN deployments = Deployments
  BY DEF ComposeInv, ComposeTablesInv
<1> HIDE DEF name, compose
<1>6. ASSUME NEW n \in Deployments \ {name}, deployments'[n] # Null
      PROVE  PortsOf(deployments'[n]) \cap PortsOf(deployments'[name]) = {}
  <2>1. deployments'[n] = deployments[n] /\ deployments'[name] = compose
    BY <1>3, <1>4, <1>5
  <2>2. PortsOf(deployments[n]) \subseteq OtherPorts(name)
    BY <1>6, <2>1 DEF OtherPorts
  <2>3. QED
    BY <1>3, <2>1, <2>2 DEF PortsAreFree
<1>7. QED
  BY <1>6 DEF ApartFrom, name

(* A PUT that nobody disturbs leaves its deployment with no host port of   *)
(* another: what it read of the others' ports is still so when it writes.  *)
THEOREM PortsKeptApart == ComposeSpec => PortsStayApart
<1>1. ComposeInv /\ [ComposeNext]_composeVars =>
        [\A r \in composeSolo : PutKeepsApart(r)]_composeVars
  BY PortsStayApartStep DEF PutKeepsApart
<1>2. QED
  BY <1>1, ComposeInvHolds, PTL DEF ComposeSpec, PortsStayApart

LEMMA DevicesMatchStep ==
    ASSUME ComposeInv, [ComposeNext]_composeVars, NEW r \in composeSolo,
           composePc[r] \in {"batch", "activate"}, composePc'[r] = "idle", r \in composeSolo',
           NEW d \in ToSet(edgeDevices)
    PROVE  edgeVariable'[d] = IF active' = Null THEN NoCompose ELSE deployments'[active']
<1>1. /\ r \in Requests /\ ComposeSoloInv(r)
      /\ composePc \in [Requests -> {"idle", "insert", "update", "list", "batch", "activate"}]
  BY DEF ComposeInv, ComposePcInv
<1>2. SetVariables(r) \/ Activate(r)
  <2>1. composePc' # composePc /\ composeSolo' # {}
    BY <1>1
  <2>2. PICK q \in Requests :
          \/ \E n \in Deployments, c \in ComposeRequests : PutDeployment(q, n, c)
          \/ WriteDeployment(q)
          \/ \E n \in Deployments : PutActive(q, n)
          \/ ClearActive(q)
          \/ ListDevices(q) \/ SetVariables(q) \/ LoseSmartEms(q) \/ Activate(q)
    BY <2>1 DEF ComposeNext, composeVars, DeleteDeployment, Join, Leave
  <2>3. CASE q = r
    BY <2>1, <2>2, <2>3, <1>1 DEF PutDeployment, PutActive, ComposeBegin, ClearActive, ListDevices,
                            WriteDeployment, LoseSmartEms
  <2>4. CASE q # r
    BY <2>2, <2>4, <1>1 DEF PutDeployment, WriteDeployment, PutActive, ComposeBegin, ClearActive,
                            ListDevices, SetVariables, LoseSmartEms, Activate, ComposeGoto
  <2>5. QED
    BY <2>3, <2>4
<1>3. CASE SetVariables(r)
  <2>1. composePc[r] = "batch" /\ composePc'[r] = AfterBatch(composeArg[r])
    BY <1>1, <1>3 DEF SetVariables, ComposeGoto
  <2>2. composeArg[r].name = Null
    BY <2>1 DEF AfterBatch
  <2>3. active = Null /\ composeArg[r].compose = NoCompose
    BY <1>1, <2>1, <2>2 DEF ComposeSoloInv, StillActivating
  <2>4. edgeVariable'[d] = composeArg[r].compose
    BY <1>1, <1>3, <2>1, AppliedTyped DEF SetVariables, ComposeSoloInv
  <2>5. QED
    BY <1>3, <2>3, <2>4 DEF SetVariables
<1>4. CASE Activate(r)
  <2> DEFINE name == composeArg[r].name
  <2>1. composePc[r] = "activate" /\ deployments[name] # Null /\ active' = name
    BY <1>4 DEF Activate
  <2>2. name \in Deployments /\ name # Null
    BY <1>1, <2>1, ComposeValues DEF ComposeInv, ComposeRequestInv
  <2>3. deployments[name] = composeArg[r].compose /\ edgeVariable[d] = composeArg[r].compose
    BY <1>1, <2>1, <2>2 DEF ComposeSoloInv, StillActivating
  <2>4. QED
    BY <1>4, <2>1, <2>2, <2>3 DEF Activate
<1>5. QED
  BY <1>2, <1>3, <1>4

(* An undisturbed activation or clearing that succeeds has told every      *)
(* device, whatever the number of pages and whatever failed before it.     *)
THEOREM DevicesAreTold == ComposeSpec => DevicesMatchActive
<1>1. ComposeInv /\ [ComposeNext]_composeVars =>
        [\A r \in composeSolo : TellsDevices(r)]_composeVars
  BY DevicesMatchStep DEF TellsDevices
<1>2. QED
  BY <1>1, ComposeInvHolds, PTL DEF ComposeSpec, DevicesMatchActive

-----------------------------------------------------------------------------
(* SemsDeviceConfig *)

NatDocs == PartialFunctions(RuleIndexes, NatRules)
ForwardDocs == PartialFunctions(RuleIndexes, Forwards)
OtherDocs == PartialFunctions(VariableNames, VariableValues \cup {Null})
LanDocs == {Null} \cup Networks
EndpointDocs == PartialFunctions(EndpointNames, EndpointDevices)

(* A body differs from what was read in what its route sets.               *)
ExceptFor(fields, d, b) == \A field \in DOMAIN d \ fields : b[field] = d[field]

LEMMA Reinstall ==
    ASSUME semsDoc \in Docs
    PROVE  /\ Reinstalled \in Docs /\ Reinstalled.other = semsDoc.other /\ Reinstalled.tags = semsDoc.tags
           /\ Reinstalled.lan2 = semsDoc.lan2 /\ Reinstalled.lan3 = semsDoc.lan3
           /\ DOMAIN Reinstalled = DOMAIN semsDoc
           /\ Reinstalled.description = semsDoc.description
           /\ DOMAIN Reinstalled.endpoints = DOMAIN semsDoc.endpoints
           /\ ExceptFor({"installConfig", "endpoints"}, semsDoc, Reinstalled)
<1> DEFINE tagged == TaggedAsGateway(semsDoc.endpoints)
<1>1. tagged \in EndpointDocs /\ DOMAIN tagged = DOMAIN semsDoc.endpoints
  <2>1. semsDoc.tags \subseteq Tags /\ semsDoc.endpoints \in EndpointDocs
    BY DEF Docs, EndpointDocs
  <2>2. PICK D \in SUBSET EndpointNames : semsDoc.endpoints \in [D -> EndpointDevices]
    BY <2>1 DEF EndpointDocs, PartialFunctions
  <2>3. tagged \in [D -> EndpointDevices]
    BY <2>1, <2>2 DEF TaggedAsGateway, EndpointDevices
  <2>4. QED
    BY <2>2, <2>3 DEF EndpointDocs, PartialFunctions
<1>2. Reinstalled = [semsDoc EXCEPT !.installConfig = TRUE, !.endpoints = tagged]
  BY DEF Reinstalled
<1> HIDE DEF tagged
<1>3. QED
  BY <1>1, <1>2 DEF Docs, EndpointDocs, ExceptFor

(* What a body that sets neither of them has of both                       *)
LEMMA FilledKept ==
    ASSUME semsDoc \in Docs, NEW S, NEW b,
           "description" \notin S, "endpoints" \notin S, ExceptFor(S, Reinstalled, b)
    PROVE  /\ b.description = semsDoc.description
           /\ DOMAIN b.endpoints = DOMAIN semsDoc.endpoints
<1>1. "description" \in DOMAIN semsDoc /\ "endpoints" \in DOMAIN semsDoc
  BY DEF Docs
<1>2. b.description = Reinstalled.description /\ b.endpoints = Reinstalled.endpoints
  BY <1>1, Reinstall DEF ExceptFor
<1>3. QED
  BY <1>2, Reinstall

LEMMA CellDoc ==
    ASSUME NEW d \in Docs, NEW cellular \in CellValues \cup {Null}
    PROVE  LET b == [d EXCEPT !.cellular = cellular]
           IN  /\ b \in Docs /\ b.other = d.other /\ b.tags = d.tags
               /\ ExceptFor({"cellular"}, d, b)
BY DEF Docs, ExceptFor

LEMMA LanDoc ==
    ASSUME NEW d \in Docs, NEW lan2 \in LanDocs, NEW lan3 \in LanDocs
    PROVE  LET b == [d EXCEPT !.lan2 = lan2, !.lan3 = lan3]
           IN  /\ b \in Docs /\ b.other = d.other /\ b.tags = d.tags
               /\ ExceptFor({"lan2", "lan3"}, d, b)
BY DEF Docs, LanDocs, ExceptFor

LEMMA DocParts ==
    ASSUME NEW d \in Docs
    PROVE  /\ d.other \in OtherDocs /\ d.nat \in NatDocs /\ d.forwards \in ForwardDocs
           /\ d.tags \subseteq Tags /\ d.lan2 \in LanDocs /\ d.lan3 \in LanDocs
           /\ d.natOn \in BOOLEAN
BY DEF Docs, OtherDocs, NatDocs, ForwardDocs, LanDocs

(* A list of rules that is not too long is kept under consecutive indexes, *)
(* and read back as it is.                                                 *)
LEMMA RulesRead ==
    ASSUME NEW S, NEW rules \in Seq(S), Len(rules) <= MaxRules
    PROVE  /\ rules \in PartialFunctions(RuleIndexes, S)
           /\ Consecutive(rules) = rules
<1> DEFINE n == Len(rules)
           from1 == {m \in 0..MaxIndex : 1..m \subseteq DOMAIN rules}
<1>1. MaxRules \in Nat /\ MaxIndex \in Nat /\ MaxRules <= MaxIndex
  BY SemsValues
<1>2. n \in Nat /\ n <= MaxIndex /\ DOMAIN rules = 1..n /\ rules \in [1..n -> S]
      /\ rules = [i \in 1..n |-> rules[i]]
  BY <1>1
<1> HIDE DEF n
<1>3. rules \in PartialFunctions(RuleIndexes, S)
  <2>1. 1..n \in SUBSET RuleIndexes
    BY <1>1, <1>2 DEF RuleIndexes
  <2>2. QED
    BY <1>2, <2>1 DEF PartialFunctions
<1>4. n \in from1 /\ \A m \in from1 : m <= n
  <2>1. n \in from1
    BY <1>1, <1>2
  <2>2. ASSUME NEW m \in from1 PROVE m <= n
    <3>1. m \in Nat /\ 1..m \subseteq 1..n
      BY <1>1, <1>2
    <3>2. CASE m = 0
      BY <1>2, <3>2
    <3>3. CASE m # 0
      <4>1. m \in 1..m
        BY <3>1, <3>3
      <4>2. QED
        BY <1>2, <3>1, <4>1
    <3>4. QED
      BY <3>2, <3>3
  <2>3. QED
    BY <2>1, <2>2
<1>5. \A m \in from1 : (\A k \in from1 : k <= m) => m = n
  <2> SUFFICES ASSUME NEW m \in from1, \A k \in from1 : k <= m PROVE m = n
    OBVIOUS
  <2>1. m \in Nat /\ m <= n /\ n <= m
    BY <1>1, <1>4
  <2>2. QED
    BY <1>2, <2>1
<1> HIDE DEF from1
<1>6. (CHOOSE m \in from1 : \A k \in from1 : k <= m) = n
  BY <1>4, <1>5
<1>7. Consecutive(rules) = [i \in 1..n |-> rules[i]]
  BY <1>6 DEF Consecutive, from1
<1>8. QED
  BY <1>2, <1>3, <1>7

(* Text of text is the same text.                                          *)
LEMMA TextKept ==
    ASSUME NEW other \in OtherDocs
    PROVE  /\ AsText(other) \in OtherDocs
           /\ DOMAIN AsText(other) = DOMAIN other
           /\ \A v \in DOMAIN other : Text[AsText(other)[v]] = Text[other[v]]
<1>1. PICK D \in SUBSET VariableNames : other \in [D -> VariableValues \cup {Null}]
  BY DEF OtherDocs, PartialFunctions
<1>2. \A v \in D : Text[other[v]] \in VariableValues
  BY <1>1, SemsValues
<1>3. AsText(other) \in [D -> VariableValues \cup {Null}]
  BY <1>1, <1>2 DEF AsText
<1>4. \A v \in D : Text[AsText(other)[v]] = Text[other[v]]
  BY <1>1, <1>2, SemsValues DEF AsText
<1>5. QED
  BY <1>1, <1>3, <1>4 DEF OtherDocs, PartialFunctions, AsText

LEMMA VariablesPopulated ==
    ASSUME semsDoc \in Docs, NEW config \in ConfigsOfTypes
    PROVE  /\ PopulatedVariables(config) \in OtherDocs
           /\ \A v \in DOMAIN semsDoc.other :
                 /\ v \in DOMAIN PopulatedVariables(config)
                 /\ v \notin DOMAIN config.defined => PopulatedVariables(config)[v] = semsDoc.other[v]
<1>1. PICK D \in SUBSET VariableNames : semsDoc.other \in [D -> VariableValues \cup {Null}]
  BY DocParts DEF OtherDocs, PartialFunctions
<1>2. PICK E \in SUBSET VariableNames : config.defined \in [E -> VariableValues]
  BY DEF ConfigsOfTypes, PartialFunctions
<1>3. PopulatedVariables(config) \in [D \cup E -> VariableValues \cup {Null}]
  BY <1>1, <1>2 DEF PopulatedVariables
<1>4. D \cup E \in SUBSET VariableNames
  BY <1>1, <1>2
<1>5. QED
  BY <1>1, <1>2, <1>3, <1>4 DEF OtherDocs, PartialFunctions, PopulatedVariables

-----------------------------------------------------------------------------
NatBodies == [on : BOOLEAN, rules : Seq(NatRules)]

(* What a route has computed, of what it has been sent and has read        *)
KeepsVariables(a) ==
    \A v \in DOMAIN a.seen.other :
        /\ v \in DOMAIN a.body.other
        /\ (a.kind = "template" => v \notin DOMAIN a.sent.defined) =>
                Text[a.body.other[v]] = Text[a.seen.other[v]]

KeepsFilled(a) ==
    /\ a.seen.description # Null => a.body.description = a.seen.description
    /\ a.kind # "template" => DOMAIN a.body.endpoints = DOMAIN a.seen.endpoints

SentKept(a) ==
    /\ a.kind = "nat" =>
          /\ a.sent \in NatBodies
          /\ Len(a.sent.rules) <= MaxRules
          /\ a.body.natOn = a.sent.on
          /\ a.body.nat = IF a.sent.on THEN a.sent.rules ELSE <<>>
    /\ a.kind = "forwards" =>
          /\ a.sent \in Seq(Forwards)
          /\ Len(a.sent) <= MaxRules
          /\ a.body.forwards = a.sent

SemsRequestInv(a) ==
    /\ a.kind \in {"nat", "forwards", "cellular", "lan", "template"}
    /\ a.seen \in Docs /\ a.body \in Docs
    /\ ExceptFor(Own(a.kind) \cup Resets(a.kind) \cup {"other"}, a.seen, a.body)
    /\ a.seen.tags \subseteq a.body.tags
    /\ KeepsVariables(a)
    /\ KeepsFilled(a)
    /\ SentKept(a)

SemsInv ==
    /\ semsDoc \in Docs
    /\ vpnTags \subseteq Tags
    /\ semsPc \in [Requests -> {"idle", "edit", "vpn"}]
    /\ semsArg = [r \in Requests |-> semsArg[r]]
    /\ \A r \in Requests : semsPc[r] # "idle" => SemsRequestInv(semsArg[r])

LEMMA SemsInitInv == SemsInit => SemsInv
BY SemsValues DEF SemsInit, SemsInv

LEMMA ReadDeviceInv ==
    ASSUME SemsInv, NEW r \in Requests, NEW kind, NEW sent, NEW body,
           ReadDevice(r, kind, sent, body),
           SemsRequestInv([kind |-> kind, sent |-> sent, seen |-> semsDoc, body |-> body])
    PROVE  SemsInv'
<1> DEFINE a == [kind |-> kind, sent |-> sent, seen |-> semsDoc, body |-> body]
<1>1. semsPc' = [semsPc EXCEPT ![r] = "edit"] /\ semsArg' = [semsArg EXCEPT ![r] = a]
      /\ UNCHANGED <<semsDoc, vpnTags>>
  BY DEF ReadDevice
<1> HIDE DEF a
<1>2. semsArg'[r] = a /\ \A q \in Requests \ {r} : semsArg'[q] = semsArg[q] /\ semsPc'[q] = semsPc[q]
  BY <1>1 DEF SemsInv
<1>3. \A q \in Requests : semsPc'[q] # "idle" => SemsRequestInv(semsArg'[q])
  BY <1>2 DEF SemsInv, a
<1>4. QED
  BY <1>1, <1>3 DEF SemsInv

LEMMA OwnOf ==
    /\ Own("nat") = {"natOn", "nat"} /\ Own("forwards") = {"forwards"}
    /\ Own("cellular") = {"cellular"} /\ Own("lan") = {"lan2", "lan3"}
    /\ Own("template") = {"template", "installFirmware", "tags"}
    /\ \A kind \in {"nat", "forwards", "cellular", "lan"} : Resets(kind) = {"installConfig", "endpoints"}
    /\ Resets("template") = {"installConfig", "endpoints", "name", "description", "enabled", "staging",
                             "requestConfig", "masquerades"}
BY DEF Own, Resets

(* Two edits of a document, one after the other                            *)
LEMMA ExceptForBoth ==
    ASSUME NEW S, NEW T, NEW d, NEW e, NEW b, DOMAIN e = DOMAIN d,
           ExceptFor(S, d, e), ExceptFor(T, e, b)
    PROVE  ExceptFor(T \cup S, d, b)
BY DEF ExceptFor

LEMMA PostNatInv ==
    ASSUME SemsInv, NEW r \in Requests, NEW request \in NatRequests, PostNat(r, request)
    PROVE  SemsInv'
<1> DEFINE nat == NatVariables(semsDoc.nat, request)
           other == AsText(semsDoc.other)
           b == [Reinstalled EXCEPT !.natOn = request.on, !.nat = nat, !.other = other]
           a == [kind |-> "nat", sent |-> request, seen |-> semsDoc, body |-> b]
<1>1. /\ semsDoc \in Docs /\ request \in NatBodies /\ Len(request.rules) <= MaxRules
      /\ request.on \in BOOLEAN /\ request.rules \in Seq(NatRules)
  BY SemsValues DEF SemsInv, PostNat, NatBodies
<1>2. nat \in NatDocs
  <2>1. request.rules \in NatDocs
    BY <1>1, RulesRead DEF NatDocs
  <2>2. <<>> \in NatDocs
    <3>1. <<>> \in [{} -> NatRules]
      OBVIOUS
    <3>2. QED
      BY <3>1 DEF NatDocs, PartialFunctions
  <2>3. QED
    BY <2>1, <2>2 DEF NatVariables
<1>3. /\ other \in OtherDocs /\ DOMAIN other = DOMAIN semsDoc.other
      /\ \A v \in DOMAIN semsDoc.other : Text[other[v]] = Text[semsDoc.other[v]]
  BY <1>1, DocParts, TextKept
<1>4. ReadDevice(r, "nat", request, b)
  BY <1>1, Reinstall DEF PostNat
<1> HIDE DEF nat, other
<1>5. /\ b \in Docs /\ b.natOn = request.on /\ b.nat = nat /\ b.other = other /\ b.tags = semsDoc.tags
      /\ ExceptFor({"natOn", "nat", "other"}, Reinstalled, b)
  <2> DEFINE on == request.on
             d == Reinstalled
  <2>1. on \in BOOLEAN /\ d \in Docs /\ d.tags = semsDoc.tags
    BY <1>1, Reinstall
  <2>2. b = [d EXCEPT !.natOn = on, !.nat = nat, !.other = other]
    OBVIOUS
  <2> HIDE DEF on, d, b
  <2>3. /\ b \in Docs /\ b.natOn = on /\ b.nat = nat /\ b.other = other /\ b.tags = d.tags
        /\ ExceptFor({"natOn", "nat", "other"}, d, b)
    BY <1>2, <1>3, <2>1, <2>2 DEF Docs, NatDocs, OtherDocs, ExceptFor
  <2>4. QED
    BY <2>1, <2>3 DEF on, d
<1> HIDE DEF b
<1>6. ExceptFor(Own("nat") \cup Resets("nat") \cup {"other"}, semsDoc, b)
  BY <1>1, <1>5, Reinstall, ExceptForBoth, OwnOf DEF ExceptFor
<1>7. a.kind = "nat" /\ a.sent = request /\ a.seen = semsDoc /\ a.body = b
  OBVIOUS
<1> HIDE DEF a
<1>8. KeepsVariables(a) /\ KeepsFilled(a) /\ SentKept(a)
  BY <1>1, <1>3, <1>5, <1>7, FilledKept DEF KeepsVariables, KeepsFilled, SentKept, nat, NatVariables
<1>9. SemsRequestInv(a)
  BY <1>1, <1>5, <1>6, <1>7, <1>8 DEF SemsRequestInv
<1>10. QED
  BY <1>4, <1>9, ReadDeviceInv DEF a

LEMMA PostForwardingInv ==
    ASSUME SemsInv, NEW r \in Requests, NEW rules \in ForwardRequests, PostForwarding(r, rules)
    PROVE  SemsInv'
<1> DEFINE other == AsText(semsDoc.other)
           b == [Reinstalled EXCEPT !.forwards = rules, !.other = other]
           a == [kind |-> "forwards", sent |-> rules, seen |-> semsDoc, body |-> b]
<1>1. semsDoc \in Docs /\ rules \in Seq(Forwards) /\ Len(rules) <= MaxRules
  BY SemsValues DEF SemsInv, PostForwarding
<1>2. rules \in ForwardDocs
  BY <1>1, RulesRead DEF ForwardDocs
<1>3. /\ other \in OtherDocs /\ DOMAIN other = DOMAIN semsDoc.other
      /\ \A v \in DOMAIN semsDoc.other : Text[other[v]] = Text[semsDoc.other[v]]
  BY <1>1, DocParts, TextKept
<1>4. ReadDevice(r, "forwards", rules, b)
  BY <1>1, Reinstall DEF PostForwarding
<1> HIDE DEF other
<1>5. /\ b \in Docs /\ b.forwards = rules /\ b.other = other /\ b.tags = semsDoc.tags
      /\ ExceptFor({"forwards", "other"}, Reinstalled, b)
  <2> DEFINE d == Reinstalled
  <2>1. d \in Docs /\ d.tags = semsDoc.tags
    BY <1>1, Reinstall
  <2>2. b = [d EXCEPT !.forwards = rules, !.other = other]
    OBVIOUS
  <2> HIDE DEF d, b
  <2>3. /\ b \in Docs /\ b.forwards = rules /\ b.other = other /\ b.tags = d.tags
        /\ ExceptFor({"forwards", "other"}, d, b)
    BY <1>2, <1>3, <2>1, <2>2 DEF Docs, ForwardDocs, OtherDocs, ExceptFor
  <2>4. QED
    BY <2>1, <2>3 DEF d
<1> HIDE DEF b
<1>6. ExceptFor(Own("forwards") \cup Resets("forwards") \cup {"other"}, semsDoc, b)
  BY <1>1, <1>5, Reinstall, OwnOf DEF ExceptFor
<1>7. a.kind = "forwards" /\ a.sent = rules /\ a.seen = semsDoc /\ a.body = b
  OBVIOUS
<1> HIDE DEF a
<1>8. KeepsVariables(a) /\ KeepsFilled(a) /\ SentKept(a)
  BY <1>1, <1>3, <1>5, <1>7, FilledKept DEF KeepsVariables, KeepsFilled, SentKept
<1>9. SemsRequestInv(a)
  BY <1>1, <1>5, <1>6, <1>7, <1>8 DEF SemsRequestInv
<1>10. QED
  BY <1>4, <1>9, ReadDeviceInv DEF a

LEMMA PostCellularInv ==
    ASSUME SemsInv, NEW r \in Requests, NEW cellular \in CellRequests, PostCellular(r, cellular)
    PROVE  SemsInv'
<1> DEFINE b == [Reinstalled EXCEPT !.cellular = cellular]
           a == [kind |-> "cellular", sent |-> cellular, seen |-> semsDoc, body |-> b]
<1>1. semsDoc \in Docs /\ cellular \in CellValues \cup {Null}
  BY SemsValues DEF SemsInv
<1>2. ReadDevice(r, "cellular", cellular, b)
  BY DEF PostCellular
<1>3. /\ b \in Docs /\ b.other = semsDoc.other /\ b.tags = semsDoc.tags
      /\ ExceptFor({"cellular"}, Reinstalled, b)
  BY <1>1, Reinstall, CellDoc
<1> HIDE DEF b
<1>4. ExceptFor(Own("cellular") \cup Resets("cellular") \cup {"other"}, semsDoc, b)
  BY <1>1, <1>3, Reinstall, OwnOf DEF ExceptFor
<1>5. a.kind = "cellular" /\ a.sent = cellular /\ a.seen = semsDoc /\ a.body = b
  OBVIOUS
<1> HIDE DEF a
<1>6. KeepsVariables(a) /\ KeepsFilled(a) /\ SentKept(a)
  BY <1>1, <1>3, <1>5, FilledKept DEF KeepsVariables, KeepsFilled, SentKept
<1>7. SemsRequestInv(a)
  BY <1>1, <1>3, <1>4, <1>5, <1>6 DEF SemsRequestInv
<1>8. QED
  BY <1>2, <1>7, ReadDeviceInv DEF a

LEMMA InterfaceTyped ==
    ASSUME NEW old \in LanDocs, NEW interface \in {Null} \cup Interfaces,
           interface # Null => Static(interface)
    PROVE  Interface(old, interface) \in LanDocs
BY DEF LanDocs, Interfaces, Static, Interface

LEMMA PostLanInv ==
    ASSUME SemsInv, NEW r \in Requests, NEW request \in LanRequests, PostLan(r, request)
    PROVE  SemsInv'
<1> DEFINE lan2 == Interface(semsDoc.lan2, request.lan2)
           lan3 == Interface(semsDoc.lan3, request.lan3)
           b == [Reinstalled EXCEPT !.lan2 = lan2, !.lan3 = lan3]
           a == [kind |-> "lan", sent |-> request, seen |-> semsDoc, body |-> b]
<1>1. /\ semsDoc \in Docs
      /\ request.lan2 \in {Null} \cup Interfaces /\ request.lan3 \in {Null} \cup Interfaces
  BY SemsValues DEF SemsInv
<1>2. lan2 \in LanDocs /\ lan3 \in LanDocs
  BY <1>1, DocParts, InterfaceTyped DEF PostLan
<1>3. ReadDevice(r, "lan", request, b)
  <2>1. Reinstalled.lan2 = semsDoc.lan2 /\ Reinstalled.lan3 = semsDoc.lan3
    BY <1>1, Reinstall
  <2>2. ReadDevice(r, "lan", request,
                   [Reinstalled EXCEPT !.lan2 = Interface(Reinstalled.lan2, request.lan2),
                                       !.lan3 = Interface(Reinstalled.lan3, request.lan3)])
    BY DEF PostLan
  <2>3. QED
    BY <2>1, <2>2
<1> HIDE DEF lan2, lan3
<1>4. /\ b \in Docs /\ b.other = semsDoc.other /\ b.tags = semsDoc.tags
      /\ ExceptFor({"lan2", "lan3"}, Reinstalled, b)
  <2> DEFINE d == Reinstalled
  <2>1. d \in Docs /\ d.other = semsDoc.other /\ d.tags = semsDoc.tags
    BY <1>1, Reinstall
  <2>2. b = [d EXCEPT !.lan2 = lan2, !.lan3 = lan3]
    OBVIOUS
  <2> HIDE DEF d, b
  <2>3. b \in Docs /\ b.other = d.other /\ b.tags = d.tags /\ ExceptFor({"lan2", "lan3"}, d, b)
    BY <1>2, <2>1, <2>2, LanDoc
  <2>4. QED
    BY <2>1, <2>3 DEF d
<1> HIDE DEF b
<1>5. ExceptFor(Own("lan") \cup Resets("lan") \cup {"other"}, semsDoc, b)
  BY <1>1, <1>4, Reinstall, OwnOf DEF ExceptFor
<1>6. a.kind = "lan" /\ a.sent = request /\ a.seen = semsDoc /\ a.body = b
  OBVIOUS
<1> HIDE DEF a
<1>7. KeepsVariables(a) /\ KeepsFilled(a) /\ SentKept(a)
  BY <1>1, <1>4, <1>6, FilledKept DEF KeepsVariables, KeepsFilled, SentKept
<1>8. SemsRequestInv(a)
  BY <1>1, <1>4, <1>5, <1>6, <1>7 DEF SemsRequestInv
<1>9. QED
  BY <1>3, <1>8, ReadDeviceInv DEF a

LEMMA ApplyTemplateInv ==
    ASSUME SemsInv, NEW r \in Requests, NEW config \in TypeConfigs, ApplyTemplate(r, config)
    PROVE  SemsInv'
<1> DEFINE install == semsDoc.firmware # config.firmware
           tags == CombinedTags(config)
           other == PopulatedVariables(config)
           description == IF semsDoc.description = Null THEN "default" ELSE semsDoc.description
           b == [semsDoc EXCEPT !.template = config.template, !.enabled = TRUE,
                                !.installConfig = TRUE, !.installFirmware = install,
                                !.requestConfig = TRUE, !.staging = config.staging,
                                !.name = "serial", !.description = description,
                                !.tags = tags, !.other = other,
                                !.endpoints = Nothing, !.masquerades = FALSE]
           a == [kind |-> "template", sent |-> config, seen |-> semsDoc, body |-> b]
<1>1. /\ semsDoc \in Docs /\ config \in ConfigsOfTypes
      /\ config.template \in Templates /\ config.staging \in BOOLEAN
  BY SemsValues DEF SemsInv, ConfigsOfTypes
<1>2. /\ tags \in SUBSET Tags /\ semsDoc.tags \subseteq tags /\ install \in BOOLEAN
      /\ description \in {Null, "given", "default"}
      /\ semsDoc.description # Null => description = semsDoc.description
  <2>1. semsDoc.description \in {Null, "given", "default"}
    BY <1>1 DEF Docs
  <2>2. QED
    BY <1>1, <2>1, DocParts DEF CombinedTags, ConfigsOfTypes
<1>3. /\ other \in OtherDocs
      /\ \A v \in DOMAIN semsDoc.other :
            /\ v \in DOMAIN other
            /\ v \notin DOMAIN config.defined => other[v] = semsDoc.other[v]
  BY <1>1, VariablesPopulated
<1>4. ReadDevice(r, "template", config, b)
  BY DEF ApplyTemplate
<1> HIDE DEF tags, other, install, description
<1> DEFINE set == {"template", "enabled", "installConfig", "installFirmware", "requestConfig",
                   "staging", "name", "description", "tags", "other", "endpoints", "masquerades"}
<1>5. /\ b \in Docs /\ b.other = other /\ b.tags = tags /\ b.description = description
      /\ ExceptFor(set, semsDoc, b)
  <2> DEFINE d == semsDoc
             template == config.template
             staging == config.staging
  <2>1. d \in Docs /\ template \in Templates /\ staging \in BOOLEAN
    BY <1>1
  <2>2. Nothing \in EndpointDocs
    <3>1. Nothing \in [{} -> EndpointDevices]
      BY DEF Nothing
    <3>2. QED
      BY <3>1 DEF EndpointDocs, PartialFunctions
  <2>3. b = [d EXCEPT !.template = template, !.enabled = TRUE,
                      !.installConfig = TRUE, !.installFirmware = install,
                      !.requestConfig = TRUE, !.staging = staging,
                      !.name = "serial", !.description = description,
                      !.tags = tags, !.other = other,
                      !.endpoints = Nothing, !.masquerades = FALSE]
    OBVIOUS
  <2> HIDE DEF d, b, template, staging
  <2> DEFINE c == [d EXCEPT !.template = template, !.enabled = TRUE,
                            !.installConfig = TRUE, !.installFirmware = install,
                            !.requestConfig = TRUE, !.staging = staging]
  <2>4. c \in Docs /\ ExceptFor(set, d, c) /\ DOMAIN c = DOMAIN d
    BY <1>2, <2>1 DEF Docs, ExceptFor
  <2>5. b = [c EXCEPT !.name = "serial", !.description = description,
                      !.tags = tags, !.other = other,
                      !.endpoints = Nothing, !.masquerades = FALSE]
    BY <2>3
  <2> HIDE DEF c
  <2>6. /\ b \in Docs /\ b.other = other /\ b.tags = tags /\ b.description = description
        /\ ExceptFor(set, c, b)
    BY <1>2, <1>3, <2>2, <2>4, <2>5 DEF Docs, OtherDocs, EndpointDocs, ExceptFor
  <2>7. ExceptFor(set, d, b)
    BY <2>4, <2>6 DEF ExceptFor
  <2>8. QED
    BY <2>6, <2>7 DEF d
<1> HIDE DEF b
<1>6. ExceptFor(Own("template") \cup Resets("template") \cup {"other"}, semsDoc, b)
  BY <1>5, OwnOf DEF ExceptFor
<1>7. a.kind = "template" /\ a.sent = config /\ a.seen = semsDoc /\ a.body = b
  OBVIOUS
<1> HIDE DEF a
<1>8. KeepsVariables(a) /\ KeepsFilled(a) /\ SentKept(a)
  BY <1>2, <1>3, <1>5, <1>7 DEF KeepsVariables, KeepsFilled, SentKept
<1>9. SemsRequestInv(a)
  BY <1>1, <1>2, <1>5, <1>6, <1>7, <1>8 DEF SemsRequestInv
<1>10. QED
  BY <1>4, <1>9, ReadDeviceInv DEF a

LEMMA SemsEnds ==
    ASSUME SemsInv, NEW r \in Requests, SemsEnd(r), semsDoc' \in Docs, vpnTags' \subseteq Tags
    PROVE  SemsInv'
<1>1. \A q \in Requests \ {r} : semsArg'[q] = semsArg[q] /\ semsPc'[q] = semsPc[q]
  BY DEF SemsInv, SemsEnd
<1>2. semsPc'[r] = "idle" /\ semsArg' = [q \in Requests |-> semsArg'[q]]
      /\ semsPc' \in [Requests -> {"idle", "edit", "vpn"}]
  BY DEF SemsInv, SemsEnd
<1>3. QED
  BY <1>1, <1>2 DEF SemsInv

LEMMA EditDeviceInv ==
    ASSUME SemsInv, NEW r \in Requests, EditDevice(r)
    PROVE  SemsInv'
<1> DEFINE vpn == semsArg[r].kind = "template" /\ semsArg[r].sent.vpn
<1>1. semsArg[r].body \in Docs
  BY DEF EditDevice, SemsInv, SemsRequestInv
<1>2. semsDoc' \in Docs /\ vpnTags' \subseteq Tags
  BY <1>1 DEF EditDevice, SemsInv
<1>3. CASE vpn
  <2>1. semsPc' = [semsPc EXCEPT ![r] = "vpn"] /\ semsArg' = semsArg /\ semsPc[r] = "edit"
    BY <1>3 DEF EditDevice
  <2>2. QED
    BY <1>2, <2>1 DEF SemsInv
<1>4. CASE ~vpn
  BY <1>2, <1>4, SemsEnds DEF EditDevice, SemsEnd
<1>5. QED
  BY <1>3, <1>4

LEMMA LoseEditInv ==
    ASSUME SemsInv, NEW r \in Requests, LoseEdit(r)
    PROVE  SemsInv'
<1>1. semsArg[r].body \in Docs
  BY DEF LoseEdit, SemsInv, SemsRequestInv
<1>2. semsDoc' \in Docs /\ vpnTags' \subseteq Tags
  BY <1>1 DEF LoseEdit, SemsInv
<1>3. QED
  BY <1>2, SemsEnds DEF LoseEdit

LEMMA EditVpnClientInv ==
    ASSUME SemsInv, NEW r \in Requests, EditVpnClient(r)
    PROVE  SemsInv'
<1>1. semsArg[r].body.tags \subseteq Tags
  BY DocParts DEF EditVpnClient, SemsInv, SemsRequestInv
<1>2. semsDoc' \in Docs /\ vpnTags' \subseteq Tags
  BY <1>1 DEF EditVpnClient, SemsInv
<1>3. QED
  BY <1>2, SemsEnds DEF EditVpnClient

LEMMA SetVariableInv ==
    ASSUME SemsInv, NEW x \in OutsideEdits, SetVariable(x.name, x.value)
    PROVE  SemsInv'
<1> DEFINE other == [v \in DOMAIN semsDoc.other \cup {x.name} |->
                        IF v = x.name THEN x.value ELSE semsDoc.other[v]]
<1>1. x.name \in VariableNames /\ x.value \in VariableValues /\ semsDoc \in Docs
  BY SemsValues DEF SemsInv
<1>2. other \in OtherDocs
  <2>1. PICK D \in SUBSET VariableNames : semsDoc.other \in [D -> VariableValues \cup {Null}]
    BY <1>1, DocParts DEF OtherDocs, PartialFunctions
  <2>2. other \in [D \cup {x.name} -> VariableValues \cup {Null}] /\ D \cup {x.name} \in SUBSET VariableNames
    BY <1>1, <2>1
  <2>3. QED
    BY <2>2 DEF OtherDocs, PartialFunctions
<1>3. semsDoc' = [semsDoc EXCEPT !.other = other]
  BY DEF SetVariable
<1> HIDE DEF other
<1>4. semsDoc' \in Docs
  BY <1>1, <1>2, <1>3 DEF Docs, OtherDocs
<1>5. QED
  BY <1>4 DEF SetVariable, SemsInv

LEMMA InstallInv ==
    ASSUME SemsInv, Install
    PROVE  SemsInv'
<1>1. semsDoc' \in Docs
  BY DEF Install, SemsInv, Docs
<1>2. QED
  BY <1>1 DEF Install, SemsInv

LEMMA SemsNextInv == SemsInv /\ [SemsNext]_semsVars => SemsInv'
<1> SUFFICES ASSUME SemsInv, [SemsNext]_semsVars PROVE SemsInv'
  OBVIOUS
<1>1. ASSUME NEW r \in Requests,
             \/ \E q \in NatRequests : PostNat(r, q)
             \/ \E q \in ForwardRequests : PostForwarding(r, q)
             \/ \E q \in CellRequests : PostCellular(r, q)
             \/ \E q \in LanRequests : PostLan(r, q)
             \/ \E c \in TypeConfigs : ApplyTemplate(r, c)
      PROVE  SemsInv'
  BY <1>1, PostNatInv, PostForwardingInv, PostCellularInv, PostLanInv, ApplyTemplateInv
<1>2. ASSUME NEW r \in Requests, EditDevice(r) \/ LoseEdit(r) \/ EditVpnClient(r)
      PROVE  SemsInv'
  BY <1>2, EditDeviceInv, LoseEditInv, EditVpnClientInv
<1>3. CASE (\E x \in OutsideEdits : SetVariable(x.name, x.value)) \/ Install
  BY <1>3, SetVariableInv, InstallInv
<1>4. CASE UNCHANGED semsVars
  BY <1>4 DEF semsVars, SemsInv
<1>5. QED
  BY <1>1, <1>2, <1>3, <1>4 DEF SemsNext

LEMMA SemsInvHolds == SemsSpec => []SemsInv
BY SemsInitInv, SemsNextInv, PTL DEF SemsSpec

(* SmartEMS holds a document of a device in every state: no route posts a  *)
(* body with an index, a network or a variable that it may not have.       *)
THEOREM SemsTyped == SemsSpec => []SemsTypeOK
<1>1. SemsInv => SemsTypeOK
  BY DEF SemsInv, SemsTypeOK
<1>2. QED
  BY <1>1, SemsInvHolds, PTL

LEMMA ReadsBackStep ==
    ASSUME SemsInv, NEW r \in Requests
    PROVE  EditReadsBack(r)
<1> SUFFICES ASSUME semsPc[r] = "edit", semsDoc' = semsArg[r].body
             PROVE  /\ semsArg[r].kind = "nat" =>
                          GetNat(semsDoc') =
                              [semsArg[r].sent EXCEPT !.rules = IF semsArg[r].sent.on THEN @ ELSE <<>>]
                    /\ semsArg[r].kind = "forwards" => GetForwarding(semsDoc') = semsArg[r].sent
  BY DEF EditReadsBack
<1> DEFINE a == semsArg[r]
           sent == a.sent
<1>1. SentKept(a)
  BY DEF SemsInv, SemsRequestInv
<1>2. CASE a.kind = "nat"
  <2>1. /\ sent \in NatBodies /\ Len(sent.rules) <= MaxRules
        /\ semsDoc'.natOn = sent.on /\ semsDoc'.nat = IF sent.on THEN sent.rules ELSE <<>>
    BY <1>1, <1>2 DEF SentKept
  <2> HIDE DEF sent
  <2>2. sent.on \in BOOLEAN /\ sent.rules \in Seq(NatRules)
        /\ sent = [on |-> sent.on, rules |-> sent.rules]
    BY <2>1 DEF NatBodies
  <2>3. CASE sent.on
    <3>1. Consecutive(semsDoc'.nat) = sent.rules
      BY <2>1, <2>2, <2>3, RulesRead
    <3>2. GetNat(semsDoc') = [on |-> sent.on, rules |-> sent.rules]
      BY <2>1, <2>3, <3>1 DEF GetNat
    <3>3. QED
      BY <1>2, <2>1, <2>2, <2>3, <3>2 DEF sent, NatBodies
  <2>4. CASE ~sent.on
    <3>1. GetNat(semsDoc') = [on |-> sent.on, rules |-> <<>>]
      BY <2>1, <2>4 DEF GetNat
    <3>2. [sent EXCEPT !.rules = <<>>] = [on |-> sent.on, rules |-> <<>>]
      BY <2>1 DEF NatBodies
    <3>3. QED
      BY <1>2, <2>4, <3>1, <3>2 DEF sent
  <2>5. QED
    BY <2>2, <2>3, <2>4
<1>3. CASE a.kind = "forwards"
  BY <1>1, <1>3, RulesRead DEF SentKept, GetForwarding
<1>4. QED
  BY <1>2, <1>3

(* What the routes of NAT and port forwarding answer after an edit is what *)
(* was sent, whoever else edited the device and whatever it had before.    *)
THEOREM EditsReadBack == SemsSpec => ReadsBack
<1>1. SemsInv /\ [SemsNext]_semsVars =>
        [\A r \in Requests : EditReadsBack(r)]_semsVars
  BY ReadsBackStep
<1>2. QED
  BY <1>1, SemsInvHolds, PTL DEF SemsSpec, ReadsBack

LEMMA EditApplies ==
    ASSUME SemsInv, [SemsNext]_semsVars, NEW r \in Requests, semsPc[r] = "edit", semsPc'[r] # "edit"
    PROVE  semsDoc' = semsDoc \/ semsDoc' = semsArg[r].body
<1>1. semsPc \in [Requests -> {"idle", "edit", "vpn"}] /\ semsPc' # semsPc
  BY DEF SemsInv
<1>2. PICK q \in Requests :
        \/ \E x \in NatRequests : PostNat(q, x)
        \/ \E x \in ForwardRequests : PostForwarding(q, x)
        \/ \E x \in CellRequests : PostCellular(q, x)
        \/ \E x \in LanRequests : PostLan(q, x)
        \/ \E x \in TypeConfigs : ApplyTemplate(q, x)
        \/ EditDevice(q) \/ LoseEdit(q) \/ EditVpnClient(q)
  BY <1>1 DEF SemsNext, semsVars, SetVariable, Install
<1>3. CASE EditDevice(q) \/ LoseEdit(q)
  <2>1. q = r
    BY <1>1, <1>3 DEF EditDevice, LoseEdit, SemsEnd
  <2>2. QED
    BY <1>3, <2>1 DEF EditDevice, LoseEdit
<1>4. CASE EditVpnClient(q)
  BY <1>4 DEF EditVpnClient
<1>5. CASE \/ \E x \in NatRequests : PostNat(q, x)
           \/ \E x \in ForwardRequests : PostForwarding(q, x)
           \/ \E x \in CellRequests : PostCellular(q, x)
           \/ \E x \in LanRequests : PostLan(q, x)
           \/ \E x \in TypeConfigs : ApplyTemplate(q, x)
  BY <1>5 DEF PostNat, PostForwarding, PostCellular, PostLan, ApplyTemplate, ReadDevice
<1>6. QED
  BY <1>2, <1>3, <1>4, <1>5

LEMMA EditsKeepStep ==
    ASSUME SemsInv, [SemsNext]_semsVars, NEW r \in Requests
    PROVE  EditKeeps(r)
<1>1. CASE semsDoc' = semsDoc
  BY <1>1 DEF EditKeeps
<1>2. CASE semsPc[r] = "edit" /\ semsDoc' = semsArg[r].body
  <2>1. SemsRequestInv(semsArg[r])
    BY <1>2 DEF SemsInv
  <2>2. QED
    BY <1>2, <2>1 DEF SemsRequestInv, KeepsVariables, KeepsFilled, ExceptFor, EditsAsRead, EditKeeps
<1>3. QED
  BY <1>1, <1>2, EditApplies DEF EditsAsRead, EditKeeps

(* An edit of what nobody changed since it was read restores everything    *)
(* that its route is neither about nor resets, though it posts the whole   *)
(* document; the tags, the description and the endpoint devices stay.      *)
THEOREM EditsKeep == SemsSpec => EditsKeepTheRest
<1>1. SemsInv /\ [SemsNext]_semsVars =>
        [\A r \in Requests : EditKeeps(r)]_semsVars
  BY EditsKeepStep
<1>2. QED
  BY <1>1, SemsInvHolds, PTL DEF SemsSpec, EditsKeepTheRest

-----------------------------------------------------------------------------
(* ExtensionDispatch *)

Queries == BoundedSeq(KeyedDevices, 2)

Visibilities == {"public", "internal", "device"}
Checkeds == {"handle", "http", "iotedge"}

IsCall(call) ==
    /\ call.route \in RouteShapes
    /\ MayMount(call.route)
    /\ call.query \in Queries
    /\ call.path \in KeyedDevices \cup {Null}
    /\ call.path = Null <=> ~call.route.inPath

(* What the check of a route leaves certain, when nothing that it read is  *)
(* looked at again: the devices that the call may be about are covered.    *)
CoveredCall(call, devices) ==
    /\ Null \in devices
    /\ CASE call.route.visibility = "internal" -> KeyedDevices \subseteq devices
         [] call.route.visibility = "device" ->
              \E d \in KeyedDevices : devices = {Null, d} /\ Named(call) \subseteq {d}
         [] OTHER -> IF call.route.scoped THEN ScopedDevice(call) \in devices
                     ELSE KeyedDevices \subseteq devices

(* What may then be told an upstream of the route *)
MayHear(route, told, devices) ==
    /\ \A place \in CheckedPlaces(route) : told[place] \subseteq devices
    /\ route.visibility = "device" =>
          \E d \in KeyedDevices : UNION {told[place] : place \in Places} = {d}

(* A request at work goes about with a route that could be mounted and     *)
(* with devices that its credential covers.                                *)
CallInv(r) ==
    /\ routePc[r] \in {"idle", "called"} \cup Visibilities \cup Checkeds
    /\ routePc[r] # "idle" => IsCall(routeArg[r])
    /\ routePc[r] \in Visibilities => routePc[r] = routeArg[r].route.visibility
    /\ routePc[r] \in Checkeds => CoveredCall(routeArg[r], covered[r])
    /\ routePc[r] \in {"http", "iotedge"} =>
          OneDevice(routeArg[r]) /\ routePc[r] = routeArg[r].route.upstream
    /\ routePc[r] # "called" => reached[r] = Nowhere
    /\ covered[r] \subseteq KeyedDevices \cup {Null}
    /\ reached[r] \in [Places -> SUBSET KeyedDevices]
    /\ routePc[r] = "called" => MayHear(routeArg[r].route, reached[r], covered[r])

DispatchFunctions ==
    /\ routePc = [r \in Requests |-> routePc[r]]
    /\ routeArg = [r \in Requests |-> routeArg[r]]
    /\ covered = [r \in Requests |-> covered[r]]
    /\ reached = [r \in Requests |-> reached[r]]

RoutesAndKeys ==
    /\ mountedRoute # Null => mountedRoute \in RouteSpecs /\ MayMount(mountedRoute)
    /\ internalKey \in Keys \cup {Null}
    /\ deviceKeys \in [KeyedDevices -> Keys \cup {Null}]
    /\ keysMade \in 0..MaxKeys
    /\ userScope \subseteq KeyedDevices
    /\ \A d \in KeyedDevices : deviceKeys[d] # Null => deviceKeys[d] <= keysMade
    /\ \A d1, d2 \in KeyedDevices : deviceKeys[d1] = deviceKeys[d2] /\ deviceKeys[d1] # Null => d1 = d2

DispatchInv == RoutesAndKeys /\ DispatchFunctions /\ \A r \in Requests : CallInv(r)

LEMMA QueryShape ==
    ASSUME NEW query \in Queries
    PROVE  /\ Len(query) \in Nat
           /\ DOMAIN query = 1..Len(query)
           /\ query = <<>> <=> Len(query) = 0
           /\ ToSet(query) \subseteq KeyedDevices
           /\ LastOf(query) \in KeyedDevices \cup {Null}
           /\ query # <<>> => LastOf(query) \in ToSet(query)
           /\ Len(query) <= 1 => ToSet(query) \subseteq {LastOf(query)}
<1>1. PICK n \in 0..2 : query \in [1..n -> KeyedDevices]
  BY DEF Queries, BoundedSeq, SeqOf
<1>2. /\ query \in Seq(KeyedDevices) /\ Len(query) = n
      /\ Len(query) \in Nat /\ DOMAIN query = 1..Len(query)
      /\ query = <<>> <=> Len(query) = 0
  BY <1>1
<1>3. /\ ToSet(query) \subseteq KeyedDevices
      /\ \A i \in 1..Len(query) : query[i] \in ToSet(query)
  BY <1>1, <1>2 DEF ToSet
<1>4. CASE query = <<>>
  <2>1. LastOf(query) = Null /\ ToSet(query) = {}
    BY <1>2, <1>4 DEF LastOf, ToSet
  <2>2. QED
    BY <1>2, <1>3, <1>4, <2>1
<1>5. CASE query # <<>>
  <2>1. LastOf(query) = query[Len(query)] /\ Len(query) \in 1..Len(query)
    BY <1>2, <1>5 DEF LastOf, Last
  <2>2. Len(query) <= 1 => ToSet(query) \subseteq {query[Len(query)]}
    BY <1>2, <1>5 DEF ToSet
  <2>3. QED
    BY <1>2, <1>3, <1>5, <2>1, <2>2
<1>6. QED
  BY <1>4, <1>5

LEMMA NamedDevices ==
    ASSUME NEW call, IsCall(call)
    PROVE  /\ ScopedDevice(call) \in Named(call) \cup {Null}
           /\ LastOf(call.query) \in Named(call) \cup {Null}
           /\ ToSet(call.query) \subseteq Named(call)
           /\ Named(call) \subseteq KeyedDevices
           /\ call.path \in Named(call) \cup {Null}
           /\ {call.path} \ {Null} \subseteq Named(call)
<1>1. /\ ToSet(call.query) \subseteq KeyedDevices
      /\ LastOf(call.query) \in ToSet(call.query) \cup {Null}
  <2>1. call.query \in Queries
    BY DEF IsCall
  <2>2. call.query # <<>> => LastOf(call.query) \in ToSet(call.query)
    BY <2>1, QueryShape
  <2>3. call.query = <<>> => LastOf(call.query) = Null
    BY DEF LastOf
  <2>4. QED
    BY <2>1, <2>2, <2>3, QueryShape
<1>2. call.path \in KeyedDevices \cup {Null}
  BY DEF IsCall
<1>3. Null \notin KeyedDevices
  BY DispatchValues
<1>4. QED
  BY <1>1, <1>2, <1>3 DEF ScopedDevice, Named

CallStays(r) ==
    /\ routePc'[r] = routePc[r]
    /\ routeArg'[r] = routeArg[r]
    /\ covered'[r] = covered[r]
    /\ reached'[r] = reached[r]

LEMMA CallInvStays ==
    ASSUME NEW r, CallInv(r), CallStays(r)
    PROVE  CallInv(r)'
BY DEF CallInv, CallStays

LEMMA DispatchInitially == DispatchInit => DispatchInv
<1> SUFFICES ASSUME DispatchInit PROVE DispatchInv
  OBVIOUS
<1>1. RoutesAndKeys
  BY DispatchValues DEF DispatchInit, RoutesAndKeys
<1>2. DispatchFunctions
  BY DEF DispatchInit, DispatchFunctions
<1>3. ASSUME NEW r \in Requests PROVE CallInv(r)
  BY DEF DispatchInit, CallInv, Visibilities, Checkeds, Nowhere
<1>4. QED
  BY <1>1, <1>2, <1>3 DEF DispatchInv

(* The administration and the user's scopes change no request. *)
LEMMA KeysStep ==
    ASSUME DispatchInv, DispatchValues,
           \/ RegisterKey \/ RotateInternalKey \/ DeregisterKeys \/ UnmountRoute
           \/ \E d \in KeyedDevices : IssueDeviceKey(d) \/ RevokeDeviceKey(d)
           \/ \E route \in RouteSpecs : MountRoute(route)
           \/ \E devices \in SUBSET KeyedDevices : Rescope(devices)
    PROVE  DispatchInv'
<1>1. routeVars' = routeVars
  BY DEF RegisterKey, RotateInternalKey, DeregisterKeys, UnmountRoute, IssueDeviceKey,
         RevokeDeviceKey, MountRoute, Rescope, KeepsRequests, routeVars
<1>2. DispatchFunctions' /\ \A r \in Requests : CallInv(r)'
  <2>1. \A r \in Requests : CallStays(r)
    BY <1>1 DEF routeVars, CallStays
  <2>2. QED
    BY <1>1, <2>1, CallInvStays DEF routeVars, DispatchInv, DispatchFunctions
<1> USE DEF RoutesAndKeys, Keys, keyVars, KeepsRequests
<1>3. ASSUME GeneratesKey PROVE keysMade' \in Keys /\ keysMade' \in 0..MaxKeys
  BY <1>3 DEF DispatchInv, GeneratesKey, DispatchValues
<1>4. ASSUME GeneratesKey
      PROVE  \A x \in KeyedDevices :
                deviceKeys[x] # Null => deviceKeys[x] \in Nat /\ deviceKeys[x] < keysMade'
  BY <1>4 DEF DispatchInv, GeneratesKey, DispatchValues
<1>5. RoutesAndKeys'
  <2>1. CASE RegisterKey
    <3>1. /\ UNCHANGED <<mountedRoute, deviceKeys, userScope>> /\ GeneratesKey
          /\ internalKey' = keysMade'
      BY <2>1 DEF RegisterKey
    <3>2. \A x \in KeyedDevices : deviceKeys[x] # Null => deviceKeys[x] <= keysMade'
      BY <3>1, <1>3, <1>4
    <3>3. QED
      BY <3>1, <3>2, <1>3 DEF DispatchInv
  <2>2. CASE RotateInternalKey
    <3>1. /\ UNCHANGED <<mountedRoute, deviceKeys, userScope>> /\ GeneratesKey
          /\ internalKey' = keysMade'
      BY <2>2 DEF RotateInternalKey
    <3>2. \A x \in KeyedDevices : deviceKeys[x] # Null => deviceKeys[x] <= keysMade'
      BY <3>1, <1>3, <1>4
    <3>3. QED
      BY <3>1, <3>2, <1>3 DEF DispatchInv
  <2>3. CASE DeregisterKeys
    BY <2>3 DEF DeregisterKeys, DispatchInv
  <2>4. CASE UnmountRoute
    BY <2>4 DEF UnmountRoute, DispatchInv
  <2>5. CASE \E d \in KeyedDevices : IssueDeviceKey(d)
    <3>1. PICK d \in KeyedDevices : IssueDeviceKey(d)
      BY <2>5
    <3>2. \A x \in KeyedDevices : deviceKeys'[x] = IF x = d THEN keysMade' ELSE deviceKeys[x]
      BY <3>1 DEF IssueDeviceKey, DispatchInv
    <3>3. \A x \in KeyedDevices : deviceKeys[x] # Null => deviceKeys[x] \in Nat /\ deviceKeys[x] < keysMade'
      BY <3>1, <1>4 DEF IssueDeviceKey
    <3>4. QED
      BY <1>3, <3>1, <3>2, <3>3 DEF IssueDeviceKey, DispatchInv
  <2>6. CASE \E d \in KeyedDevices : RevokeDeviceKey(d)
    BY <2>6 DEF RevokeDeviceKey, DispatchInv
  <2>7. CASE \E route \in RouteSpecs : MountRoute(route)
    BY <2>7 DEF MountRoute, DispatchInv
  <2>8. CASE \E devices \in SUBSET KeyedDevices : Rescope(devices)
    BY <2>8 DEF Rescope, DispatchInv
  <2>9. QED
    BY <2>1, <2>2, <2>3, <2>4, <2>5, <2>6, <2>7, <2>8
<1>6. QED
  BY <1>2, <1>5 DEF DispatchInv

OnlyCallOf(r) == DispatchFunctions' /\ \A q \in Requests \ {r} : CallStays(q)

(* A step of one request leaves the others and the administration alone. *)
LEMMA RequestStep ==
    ASSUME DispatchInv, NEW r \in Requests,
           UNCHANGED <<mountedRoute, keyVars, userScope>>,
           OnlyCallOf(r), CallInv(r)'
    PROVE  DispatchInv'
<1>1. \A q \in Requests \ {r} : CallInv(q)'
  BY CallInvStays DEF OnlyCallOf, DispatchInv
<1>2. RoutesAndKeys'
  BY DEF DispatchInv, RoutesAndKeys, keyVars
<1>3. QED
  BY <1>1, <1>2 DEF DispatchInv, OnlyCallOf

LEMMA RepliesStep ==
    ASSUME DispatchInv, NEW r \in Requests, Replies(r)
    PROVE  DispatchInv'
<1>1. /\ routePc'[r] = "idle" /\ covered'[r] = {} /\ reached'[r] = Nowhere
      /\ OnlyCallOf(r)
  BY DEF Replies, DispatchInv, DispatchFunctions, OnlyCallOf, CallStays
<1>2. CallInv(r)'
  BY <1>1 DEF CallInv, Visibilities, Checkeds, Nowhere
<1>3. QED
  BY <1>1, <1>2, RequestStep DEF Replies

(* A check that passes leaves the request with a call that is covered. *)
LEMMA PassedStep ==
    ASSUME DispatchInv, NEW r \in Requests, NEW devices \in SUBSET KeyedDevices,
           routePc[r] \in Visibilities,
           CoveredCall(routeArg[r], {Null} \cup devices),
           Checked(r, TRUE, devices)
    PROVE  DispatchInv'
<1>1. /\ routePc'[r] = "handle" /\ routeArg'[r] = routeArg[r]
      /\ covered'[r] = {Null} \cup devices /\ reached'[r] = reached[r]
      /\ OnlyCallOf(r)
  BY DEF Checked, ToStage, DispatchInv, DispatchFunctions, OnlyCallOf, CallStays
<1>2. CallInv(r)
  BY DEF DispatchInv
<1>3. CallInv(r)'
  BY <1>1, <1>2 DEF CallInv, Visibilities, Checkeds
<1>4. QED
  BY <1>1, <1>3, RequestStep DEF Checked, ToStage

LEMMA CheckSteps ==
    ASSUME DispatchInv, DispatchValues, NEW r \in Requests,
           CheckUser(r) \/ CheckInternalKey(r) \/ CheckDeviceKey(r)
    PROVE  DispatchInv'
<1> DEFINE call == routeArg[r]
<1>1. /\ userScope \subseteq KeyedDevices
      /\ CallInv(r)
  BY DEF DispatchInv, RoutesAndKeys
<1>2. ASSUME routePc[r] \in Visibilities
      PROVE  IsCall(call) /\ routePc[r] = call.route.visibility
  BY <1>1, <1>2 DEF CallInv, Visibilities
<1>3. CASE CheckUser(r)
  <2>1. routePc[r] = "public"
    BY <1>3 DEF CheckUser
  <2>2. /\ IsCall(call) /\ call.route.visibility = "public"
    BY <2>1, <1>2 DEF Visibilities
  <2>3. PublicMayBe(call.route) /\ call.route \in RouteShapes
    BY <2>2 DEF IsCall, MayMount
  <2> DEFINE devices == IF call.route.scoped \/ call.route.upstream = "iotedge"
                        THEN userScope ELSE KeyedDevices
             isGood == call.route.action # Null => UserMayCall(call)
  <2>4. devices \in SUBSET KeyedDevices
    BY <1>1
  <2>5. isGood => CoveredCall(call, {Null} \cup devices)
    BY <2>2, <2>3 DEF CoveredCall, PublicMayBe, UserMayCall, RouteShapes
  <2>6. Checked(r, isGood, devices)
    BY <1>3 DEF CheckUser
  <2>7. CASE isGood
    BY <2>1, <2>4, <2>5, <2>6, <2>7, PassedStep DEF Visibilities, Checked
  <2>8. CASE ~isGood
    BY <2>6, <2>8, RepliesStep DEF Checked
  <2>9. QED
    BY <2>7, <2>8
<1>4. CASE CheckInternalKey(r)
  <2>1. routePc[r] = "internal"
    BY <1>4 DEF CheckInternalKey
  <2>2. CoveredCall(call, {Null} \cup KeyedDevices)
    BY <2>1, <1>2 DEF Visibilities, CoveredCall
  <2>3. CASE Checked(r, TRUE, KeyedDevices)
    BY <2>1, <2>2, <2>3, PassedStep DEF Visibilities
  <2>4. QED
    BY <1>4, <2>3, RepliesStep DEF CheckInternalKey, Checked
<1>5. CASE CheckDeviceKey(r)
  <2> DEFINE owner == KeyedDevice(call.key)
             isGood == owner # {} /\ Named(call) \subseteq owner
  <2>1. routePc[r] = "device"
    BY <1>5 DEF CheckDeviceKey
  <2>2. isGood => CoveredCall(call, {Null} \cup owner)
    <3>1. \A d1, d2 \in owner : d1 = d2
      BY DEF KeyedDevice, DispatchInv, RoutesAndKeys
    <3>2. ASSUME isGood PROVE \E d \in KeyedDevices : owner = {d}
      BY <3>1, <3>2 DEF KeyedDevice
    <3>3. QED
      BY <2>1, <1>2, <3>2 DEF Visibilities, CoveredCall
  <2>3. owner \in SUBSET KeyedDevices
    BY DEF KeyedDevice
  <2>4. Checked(r, isGood, owner)
    BY <1>5 DEF CheckDeviceKey
  <2>5. CASE isGood
    BY <2>1, <2>2, <2>3, <2>4, <2>5, PassedStep DEF Visibilities, Checked
  <2>6. CASE ~isGood
    BY <2>4, <2>6, RepliesStep DEF Checked
  <2>7. QED
    BY <2>5, <2>6
<1>6. QED
  BY <1>3, <1>4, <1>5

LEMMA CallStep ==
    ASSUME DispatchInv, DispatchValues, NEW r \in Requests, NEW key \in Keys \cup {Null},
           NEW query \in Queries, NEW path \in KeyedDevices \cup {Null},
           CallRoute(r, key, query, path)
    PROVE  DispatchInv'
<1> DEFINE call == [route |-> mountedRoute, key |-> key, query |-> query, path |-> path]
<1>1. /\ routePc'[r] = mountedRoute.visibility /\ routeArg'[r] = call
      /\ covered'[r] = covered[r] /\ reached'[r] = reached[r]
      /\ OnlyCallOf(r)
  BY DEF CallRoute, DispatchInv, DispatchFunctions, OnlyCallOf, CallStays
<1>2. /\ mountedRoute \in RouteShapes /\ MayMount(mountedRoute)
      /\ mountedRoute.visibility \in Visibilities
  BY DEF CallRoute, DispatchInv, RoutesAndKeys, DispatchValues, RouteShapes, Visibilities
<1>3. IsCall(call)
  BY <1>2 DEF CallRoute, IsCall, RouteShapes
<1>4. CallInv(r) /\ routePc[r] = "idle"
  BY DEF DispatchInv, CallRoute
<1>5. CallInv(r)'
  BY <1>1, <1>2, <1>3, <1>4 DEF CallInv, Visibilities, Checkeds
<1>6. QED
  BY <1>1, <1>5, RequestStep DEF CallRoute

LEMMA HandleStep ==
    ASSUME DispatchInv, NEW r \in Requests, HandleCall(r)
    PROVE  DispatchInv'
<1> DEFINE call == routeArg[r]
<1>1. CallInv(r) /\ routePc[r] = "handle"
  BY DEF DispatchInv, HandleCall
<1>2. CASE OneDevice(call) /\ ToStage(r, call.route.upstream) /\ UNCHANGED <<covered, reached>>
  <2>1. /\ routePc'[r] = call.route.upstream /\ routeArg'[r] = routeArg[r]
        /\ covered'[r] = covered[r] /\ reached'[r] = reached[r]
        /\ OnlyCallOf(r)
    BY <1>2 DEF ToStage, DispatchInv, DispatchFunctions, OnlyCallOf, CallStays
  <2>2. call.route.upstream \in {"http", "iotedge"}
    BY <1>1 DEF CallInv, IsCall, RouteShapes
  <2>3. CallInv(r)'
    BY <1>1, <1>2, <2>1, <2>2 DEF CallInv, Visibilities, Checkeds
  <2>4. QED
    BY <1>2, <2>1, <2>3, RequestStep DEF ToStage
<1>3. QED
  BY <1>2, RepliesStep DEF HandleCall

(* What an upstream is told is what it may hear. *)
LEMMA ReachesStep ==
    ASSUME DispatchInv, NEW r \in Requests, NEW told \in [Places -> SUBSET KeyedDevices],
           routePc[r] \in Checkeds, MayHear(routeArg[r].route, told, covered[r]),
           Reaches(r, told)
    PROVE  DispatchInv'
<1>1. /\ routePc'[r] = "called" /\ routeArg'[r] = routeArg[r]
      /\ covered'[r] = covered[r] /\ reached'[r] = told
      /\ OnlyCallOf(r)
  BY DEF Reaches, ToStage, DispatchInv, DispatchFunctions, OnlyCallOf, CallStays
<1>2. CallInv(r)
  BY DEF DispatchInv
<1>3. CallInv(r)'
  BY <1>1, <1>2 DEF CallInv, Visibilities, Checkeds
<1>4. QED
  BY <1>1, <1>3, RequestStep DEF Reaches, ToStage

LEMMA UpstreamSteps ==
    ASSUME DispatchInv, DispatchValues, NEW r \in Requests, CallHttp(r) \/ CallIotedge(r)
    PROVE  DispatchInv'
<1> DEFINE call == routeArg[r]
           route == call.route
<1>1. CallInv(r) /\ routePc[r] \in {"http", "iotedge"}
  BY DEF DispatchInv, CallHttp, CallIotedge
<1>2. /\ IsCall(call) /\ CoveredCall(call, covered[r]) /\ OneDevice(call)
      /\ routePc[r] = route.upstream /\ MayMount(route)
      /\ route \in RouteShapes /\ Null \in covered[r]
      /\ route.visibility \in Visibilities
  BY <1>1 DEF CallInv, IsCall, CoveredCall, Checkeds, RouteShapes, Visibilities
<1>3. /\ ToSet(call.query) \subseteq Named(call)
      /\ {call.path} \ {Null} \subseteq Named(call)
      /\ Named(call) \subseteq KeyedDevices
      /\ LastOf(call.query) \in KeyedDevices \cup {Null}
      /\ ScopedDevice(call) \in KeyedDevices \cup {Null}
  BY <1>2, NamedDevices
<1>4. CASE CallHttp(r)
  <2> DEFINE owner == IF route.visibility = "device" THEN covered[r] \ {Null} ELSE {}
             told == PassedOn(call, owner)
  <2>1. /\ owner \subseteq KeyedDevices
        /\ told \in [Places -> SUBSET KeyedDevices]
        /\ told["query"] = ToSet(call.query) /\ told["path"] = {call.path} \ {Null}
        /\ told["header"] = owner /\ told["target"] = {}
    BY <1>1, <1>3 DEF PassedOn, Nowhere, Places, CallInv
  <2>2. ASSUME route.visibility = "device" PROVE MayHear(route, told, covered[r])
    <3>1. PICK d \in KeyedDevices : covered[r] = {Null, d} /\ Named(call) \subseteq {d}
      BY <1>2, <2>2 DEF CoveredCall
    <3>2. owner = {d}
      BY <2>2, <3>1, DispatchValues
    <3>3. \A place \in Places : told[place] \subseteq {d}
      BY <1>3, <2>1, <3>1, <3>2 DEF Places
    <3>4. UNION {told[place] : place \in Places} = {d}
      BY <2>1, <3>2, <3>3 DEF Places
    <3>5. QED
      BY <2>2, <3>1, <3>3, <3>4 DEF MayHear, CheckedPlaces
  <2>3. ASSUME route.visibility # "device", ~(route.visibility = "public" /\ route.scoped)
        PROVE  MayHear(route, told, covered[r])
    BY <1>2, <2>1, <2>3 DEF MayHear, CoveredCall, Visibilities, CheckedPlaces
  <2>4. ASSUME route.visibility = "public", route.scoped PROVE MayHear(route, told, covered[r])
    <3>1. ScopedDevice(call) \in covered[r]
      BY <1>2, <2>4 DEF CoveredCall
    <3>2. told[route.scopeIn] \subseteq covered[r]
      <4>1. CASE route.scopeIn = "path"
        BY <3>1, <4>1, <2>1 DEF ScopedDevice
      <4>2. CASE route.scopeIn = "query"
        <5>1. Len(call.query) <= 1 /\ call.query \in Queries
          BY <1>2, <2>4, <4>2 DEF OneDevice, IsCall
        <5>2. ToSet(call.query) \subseteq {LastOf(call.query)}
          BY <5>1, QueryShape
        <5>3. ScopedDevice(call) = LastOf(call.query)
          BY <4>2 DEF ScopedDevice
        <5>4. told[route.scopeIn] = ToSet(call.query)
          BY <4>2, <2>1
        <5>5. QED
          BY <3>1, <5>2, <5>3, <5>4
      <4>3. QED
        BY <1>2, <4>1, <4>2 DEF RouteShapes
    <3>3. QED
      BY <2>1, <2>4, <3>2 DEF MayHear, CheckedPlaces
  <2>5. MayHear(route, told, covered[r])
    BY <2>2, <2>3, <2>4
  <2>6. Reaches(r, told)
    BY <1>4 DEF CallHttp
  <2>7. QED
    BY <1>1, <1>2, <2>1, <2>5, <2>6, ReachesStep DEF Checkeds
<1>5. CASE CallIotedge(r)
  <2>1. call.route.upstream = "iotedge"
    BY <1>2, <1>5 DEF CallIotedge
  <2>2. call.route.visibility # "device"
    BY <1>2, <2>1 DEF MayMount, DeviceMayBe
  <2>3. TargetDevice(call) \in covered[r]
    <3>1. CASE call.route.visibility = "internal"
      BY <1>2, <1>3, <3>1 DEF CoveredCall, TargetDevice
    <3>2. CASE call.route.visibility = "public"
      <4>1. call.route.scoped
        BY <1>2, <2>1, <3>2 DEF MayMount, PublicMayBe
      <4>2. QED
        BY <1>2, <3>2, <4>1 DEF CoveredCall, TargetDevice
    <3>3. QED
      BY <1>2, <2>2, <3>1, <3>2 DEF Visibilities
  <2>4. CASE TargetDevice(call) # Null /\ Reaches(r, [Nowhere EXCEPT !["target"] = {TargetDevice(call)}])
    <3> DEFINE told == [Nowhere EXCEPT !["target"] = {TargetDevice(call)}]
    <3>1. TargetDevice(call) \in KeyedDevices
      BY <1>1, <2>3, <2>4 DEF CallInv
    <3>2. /\ told \in [Places -> SUBSET KeyedDevices]
          /\ \A place \in Places : told[place] \subseteq {TargetDevice(call)}
      BY <3>1 DEF Nowhere, Places
    <3>3. CheckedPlaces(route) \subseteq Places
      BY <1>2 DEF CheckedPlaces, Places, RouteShapes
    <3>4. MayHear(route, told, covered[r])
      BY <2>2, <2>3, <3>2, <3>3 DEF MayHear
    <3>5. QED
      BY <1>1, <1>2, <2>4, <3>2, <3>4, ReachesStep DEF Checkeds
  <2>5. QED
    BY <1>5, <2>4, RepliesStep DEF CallIotedge
<1>6. QED
  BY <1>4, <1>5

LEMMA DispatchStep ==
    ASSUME DispatchInv, DispatchValues, [DispatchNext]_dispatchVars
    PROVE  DispatchInv'
<1>1. CASE UNCHANGED dispatchVars
  <2>1. RoutesAndKeys' /\ DispatchFunctions'
    BY <1>1 DEF DispatchInv, RoutesAndKeys, DispatchFunctions, dispatchVars, keyVars, routeVars
  <2>2. \A r \in Requests : CallInv(r)'
    BY <1>1, CallInvStays DEF DispatchInv, CallStays, dispatchVars, routeVars
  <2>3. QED
    BY <2>1, <2>2 DEF DispatchInv
<1>2. ASSUME NEW r \in Requests,
             \/ \E key \in Keys \cup {Null}, query \in BoundedSeq(KeyedDevices, 2),
                   path \in KeyedDevices \cup {Null} : CallRoute(r, key, query, path)
             \/ CheckUser(r) \/ CheckInternalKey(r) \/ CheckDeviceKey(r)
             \/ HandleCall(r) \/ CallHttp(r) \/ CallIotedge(r) \/ AnswerCall(r)
      PROVE  DispatchInv'
  BY <1>2, CallStep, CheckSteps, HandleStep, UpstreamSteps, RepliesStep
     DEF Queries, AnswerCall
<1>3. QED
  BY <1>1, <1>2, KeysStep DEF DispatchNext

LEMMA DispatchAlways == DispatchSpec => []DispatchInv
<1>1. DispatchInv /\ [DispatchNext]_dispatchVars => DispatchInv'
  BY DispatchStep, DispatchValues
<1>2. QED
  BY <1>1, DispatchInitially, PTL DEF DispatchSpec

(* In every state, tables and calls are of their types: each call holds a  *)
(* route, a key and a device that it can have.                             *)
THEOREM DispatchTyped == DispatchSpec => []DispatchTypeOK
<1>1. DispatchInv => DispatchTypeOK
  BY DEF DispatchInv, DispatchTypeOK, RoutesAndKeys, CallInv, Visibilities, Checkeds
<1>2. QED
  BY <1>1, DispatchAlways, PTL

(* Where the check of a call looked for a device, its upstream finds none  *)
(* that the credential did not cover when it was checked, and that of a    *)
(* device route hears of the key's owner alone, whatever changes between   *)
(* the check and the call.                                                 *)
THEOREM CallsAreCovered == DispatchSpec => []DispatchIsGuarded
<1>1. DispatchInv => DispatchIsGuarded
  BY DEF DispatchInv, DispatchIsGuarded, CallInv, MayHear
<1>2. QED
  BY <1>1, DispatchAlways, PTL

-----------------------------------------------------------------------------
(* ExtensionHealth *)

(* What a status may be shown upon. *)
Honest(upstream, status, upon) ==
    status = "healthy" =>
        /\ upon # Null /\ upon.target = upstream.target /\ upon.reply # Null
        /\ IF upstream.type = "http"
           THEN upon.reply.ok
                /\ (upstream.wanted = Null \/ upon.reply.version \in upstream.wanted)
           ELSE upstream.module \in DOMAIN upon.reply
                /\ upon.reply[upstream.module] = "running"

HonestRow(row) == Honest(row.upstream, row.status, row.upon)

HonestRows(rows) == \A k \in DOMAIN rows : HonestRow(rows[k]) /\ rows[k].id <= manifestsMade

(* A row that a request has read and the one that is there now are of one  *)
(* manifest only if they say the same of their upstream.                   *)
SameUpstream(r) ==
    \A k \in DOMAIN healthArg[r] \cap DOMAIN upstreamRows :
        healthArg[r][k].id = upstreamRows[k].id =>
            healthArg[r][k].upstream = upstreamRows[k].upstream

CheckInv(r) ==
    /\ healthPc[r] \in {"idle", "probe", "record"}
    /\ AreRows(healthArg[r], HealthStatuses \cup {Null})
    /\ HonestRows(healthArg[r])
    /\ SameUpstream(r)
    /\ healthPc[r] = "probe" <=> Unanswered(r) # {}
    /\ healthPc[r] = "idle" <=> DOMAIN healthArg[r] = {}

HealthFunctions ==
    /\ healthPc = [r \in Requests |-> healthPc[r]]
    /\ healthArg = [r \in Requests |-> healthArg[r]]

HealthInv ==
    /\ manifestsMade \in 0..MaxManifests
    /\ AreRows(upstreamRows, HealthStatuses)
    /\ HonestRows(upstreamRows)
    /\ HealthFunctions
    /\ \A r \in Requests : CheckInv(r)

(* A probe comes to healthy only upon the answer that the upstream wants.  *)
LEMMA ProbesAreHonest ==
    ASSUME HealthValues, NEW upstream \in Upstreams, NEW check \in CheckUpstream(upstream)
    PROVE  /\ check.status \in HealthStatuses
           /\ check.upon \in Answers \cup {Null}
           /\ Honest(upstream, check.status, check.upon)
<1>1. CASE check.status \in {"unknown", "unhealthy"} /\ check.upon = Null
  BY <1>1 DEF Honest, HealthStatuses
<1>2. CASE /\ upstream.target # Null
           /\ \E reply \in RepliesOf(upstream.target) :
                 check = [status |-> ProbedStatus(upstream, reply),
                          upon |-> [target |-> upstream.target, reply |-> reply]]
  <2>1. PICK reply \in RepliesOf(upstream.target) :
           check = [status |-> ProbedStatus(upstream, reply),
                    upon |-> [target |-> upstream.target, reply |-> reply]]
    BY <1>2
  <2>2. upstream.target \in Targets
    BY <1>2 DEF Upstreams, HttpUpstreams, IotedgeUpstreams, Targets
  <2>3. check.upon \in Answers /\ check.upon # Null
    <3>1. check.upon \in [target : {upstream.target}, reply : RepliesOf(upstream.target)]
      BY <2>1
    <3>2. check.upon \in Answers
      BY <2>2, <3>1 DEF Answers
    <3>3. QED
      BY <3>2 DEF HealthValues
  <2>4. CASE upstream.type = "http"
    <3>1. check.status = HttpStatus(upstream, reply)
      BY <2>1, <2>4 DEF ProbedStatus
    <3>2. QED
      BY <2>1, <2>3, <2>4, <3>1 DEF HttpStatus, VersionSatisfies, Honest, HealthStatuses
  <2>5. CASE upstream.type # "http"
    <3>1. check.status = ModuleStatus(upstream, reply)
      BY <2>1, <2>5 DEF ProbedStatus
    <3>2. check.status = "healthy" => RuntimeStatus(upstream, reply) = "running"
      BY <3>1 DEF ModuleStatus
    <3>3. check.status \in HealthStatuses
      BY <3>1 DEF ModuleStatus, HealthStatuses
    <3>4. QED
      BY <2>1, <2>3, <2>5, <3>2, <3>3 DEF RuntimeStatus, Honest
  <2>6. QED
    BY <2>4, <2>5
<1>3. QED
  BY <1>1, <1>2 DEF CheckUpstream, ProbeTimesOut

LEMMA NothingIsRows ==
    ASSUME NEW statuses
    PROVE  /\ DOMAIN Nothing = {}
           /\ AreRows(Nothing, statuses)
           /\ HonestRows(Nothing)
BY DEF Nothing, AreRows, HonestRows

LEMMA EmptyIsNothing ==
    ASSUME NEW rows, NEW statuses, AreRows(rows, statuses), DOMAIN rows = {}
    PROVE  rows = Nothing
BY DEF AreRows, Nothing

LEMMA HealthInitially == HealthInit => HealthInv
<1> SUFFICES ASSUME HealthInit PROVE HealthInv
  OBVIOUS
<1>1. ASSUME NEW r \in Requests PROVE CheckInv(r)
  BY NothingIsRows DEF HealthInit, CheckInv, Unanswered, SameUpstream
<1>2. QED
  BY <1>1, NothingIsRows, HealthValues DEF HealthInit, HealthInv, HealthFunctions, HealthValues

(* While the table is replaced, what the requests hold stays honest, and   *)
(* no row of the new manifest has the id of one that they hold.            *)
LEMMA ReplaceStep ==
    ASSUME HealthInv, HealthValues, NEW manifest \in HealthManifests, ReplaceUpstreams(manifest)
    PROVE  HealthInv'
<1>1. /\ manifestsMade' = manifestsMade + 1 /\ manifestsMade \in Nat
      /\ manifestsMade' \in 1..MaxManifests /\ MaxManifests \in Nat
  BY DEF HealthInv, HealthValues, ReplaceUpstreams
<1>2. /\ DOMAIN upstreamRows' \subseteq HealthKeys
      /\ \A k \in DOMAIN upstreamRows' :
            /\ manifest[k] \in Upstreams
            /\ upstreamRows'[k] = [id |-> manifestsMade', upstream |-> manifest[k],
                                   status |-> "unknown", upon |-> Null]
  BY DEF HealthValues, ReplaceUpstreams, Range
<1>3. AreRows(upstreamRows, HealthStatuses)' /\ HonestRows(upstreamRows)'
  <2>1. AreRows(upstreamRows', HealthStatuses)
    BY <1>1, <1>2 DEF AreRows, HealthStatuses, ReplaceUpstreams
  <2>2. HonestRows(upstreamRows)'
    BY <1>1, <1>2 DEF HonestRows, HonestRow, Honest
  <2>3. QED
    BY <2>1, <2>2
<1>4. ASSUME NEW r \in Requests PROVE CheckInv(r)'
  <2>1. CheckInv(r) /\ healthArg'[r] = healthArg[r] /\ healthPc'[r] = healthPc[r]
    BY DEF HealthInv, ReplaceUpstreams
  <2>2. HonestRows(healthArg[r])'
    BY <1>1, <2>1 DEF CheckInv, HonestRows, AreRows
  <2>3. SameUpstream(r)'
    BY <1>1, <1>2, <2>1 DEF CheckInv, HonestRows, AreRows, SameUpstream
  <2>4. QED
    BY <2>1, <2>2, <2>3 DEF CheckInv, Unanswered
<1>5. QED
  BY <1>1, <1>3, <1>4 DEF HealthInv, HealthFunctions, ReplaceUpstreams

LEMMA DropStep ==
    ASSUME HealthInv, DropUpstreams
    PROVE  HealthInv'
<1>1. AreRows(upstreamRows, HealthStatuses)' /\ HonestRows(upstreamRows)'
  BY NothingIsRows DEF DropUpstreams, HonestRows
<1>2. ASSUME NEW r \in Requests PROVE CheckInv(r)'
  BY NothingIsRows DEF HealthInv, DropUpstreams, CheckInv, Unanswered, SameUpstream, HonestRows
<1>3. QED
  BY <1>1, <1>2 DEF HealthInv, HealthFunctions, DropUpstreams

(* A step of one request leaves what the others hold alone. *)
LEMMA CheckStays ==
    ASSUME HealthInv, NEW r \in Requests, NEW pc, NEW arg, HealthStep(r, pc, arg)
    PROVE  /\ healthPc'[r] = pc /\ healthArg'[r] = arg
           /\ HealthFunctions'
           /\ \A q \in Requests \ {r} : healthPc'[q] = healthPc[q] /\ healthArg'[q] = healthArg[q]
BY DEF HealthInv, HealthFunctions, HealthStep

LEMMA OthersHold ==
    ASSUME HealthInv, NEW r \in Requests, NEW pc, NEW arg, HealthStep(r, pc, arg),
           UNCHANGED <<upstreamRows, manifestsMade>>,
           CheckInv(r)'
    PROVE  HealthInv'
<1>1. ASSUME NEW q \in Requests \ {r} PROVE CheckInv(q)'
  <2>1. CheckInv(q) /\ healthPc'[q] = healthPc[q] /\ healthArg'[q] = healthArg[q]
    BY CheckStays DEF HealthInv
  <2>2. QED
    BY <2>1 DEF CheckInv, Unanswered, SameUpstream, HonestRows
<1>2. QED
  BY <1>1, CheckStays DEF HealthInv, HonestRows

LEMMA HealthCheckStarts ==
    ASSUME HealthInv, HealthValues, NEW r \in Requests, StartHealthCheck(r)
    PROVE  HealthInv'
<1> DEFINE arg == [k \in DOMAIN upstreamRows |->
                     [upstreamRows[k] EXCEPT !.status = Null, !.upon = Null]]
<1>1. HealthStep(r, "probe", arg) /\ UNCHANGED <<upstreamRows, manifestsMade>>
  BY DEF StartHealthCheck
<1>2. healthPc'[r] = "probe" /\ healthArg'[r] = arg
  BY <1>1, CheckStays
<1>3. AreRows(upstreamRows, HealthStatuses) /\ HonestRows(upstreamRows)
  BY DEF HealthInv
<1>4. DOMAIN upstreamRows # {}
  BY <1>3, EmptyIsNothing DEF StartHealthCheck
<1>5. \A k \in DOMAIN upstreamRows :
         /\ arg[k].status = Null /\ arg[k].upstream = upstreamRows[k].upstream
         /\ arg[k].id = upstreamRows[k].id /\ arg[k].upon = Null
         /\ arg[k] \in [id : 1..MaxManifests, upstream : Upstreams,
                        status : HealthStatuses \cup {Null}, upon : Answers \cup {Null}]
  BY <1>3 DEF AreRows
<1>6. AreRows(arg, HealthStatuses \cup {Null})
  BY <1>3, <1>5 DEF AreRows
<1>7. HonestRows(healthArg[r])' /\ SameUpstream(r)'
  <2>1. Null # "healthy"
    BY DEF HealthValues, HealthStatuses
  <2>2. \A k \in DOMAIN arg : HonestRow(arg[k]) /\ arg[k].id <= manifestsMade
    BY <1>3, <1>5, <2>1 DEF HonestRows, HonestRow, Honest
  <2>3. HonestRows(healthArg[r])'
    BY <1>1, <1>2, <2>2 DEF HonestRows
  <2>4. SameUpstream(r)'
    BY <1>1, <1>2, <1>5 DEF SameUpstream
  <2>5. QED
    BY <2>3, <2>4
<1>8. Unanswered(r)' # {} /\ DOMAIN arg # {}
  BY <1>2, <1>4, <1>5 DEF Unanswered
<1>9. CheckInv(r)'
  BY <1>2, <1>6, <1>7, <1>8 DEF CheckInv
<1>10. QED
  BY <1>1, <1>9, OthersHold

LEMMA UpstreamProbed ==
    ASSUME HealthInv, HealthValues, NEW r \in Requests, NEW k \in HealthKeys, ProbeUpstream(r, k)
    PROVE  HealthInv'
<1> DEFINE rows == healthArg[r]
<1>1. /\ CheckInv(r) /\ AreRows(rows, HealthStatuses \cup {Null})
      /\ k \in DOMAIN rows /\ rows[k].status = Null /\ rows[k].upstream \in Upstreams
  BY DEF HealthInv, CheckInv, ProbeUpstream, Unanswered, AreRows
<1>2. PICK check \in CheckUpstream(rows[k].upstream) :
        HealthStep(r, IF Unanswered(r) = {k} THEN "record" ELSE "probe",
                   [rows EXCEPT ![k].status = check.status, ![k].upon = check.upon])
  BY DEF ProbeUpstream
<1> DEFINE arg == [rows EXCEPT ![k].status = check.status, ![k].upon = check.upon]
           pc == IF Unanswered(r) = {k} THEN "record" ELSE "probe"
<1>3. healthPc'[r] = pc /\ healthArg'[r] = arg
  BY <1>2, CheckStays
<1>4. /\ check.status \in HealthStatuses /\ check.upon \in Answers \cup {Null}
      /\ Honest(rows[k].upstream, check.status, check.upon)
  BY <1>1, ProbesAreHonest
<1>5. /\ DOMAIN arg = DOMAIN rows
      /\ arg[k].id = rows[k].id /\ arg[k].upstream = rows[k].upstream
      /\ arg[k].status = check.status /\ arg[k].upon = check.upon
      /\ arg[k] \in [id : 1..MaxManifests, upstream : Upstreams,
                     status : HealthStatuses \cup {Null}, upon : Answers \cup {Null}]
      /\ \A l \in DOMAIN rows \ {k} : arg[l] = rows[l]
  BY <1>1, <1>4 DEF AreRows
<1>6. AreRows(arg, HealthStatuses \cup {Null})
  BY <1>1, <1>5 DEF AreRows
<1>7. UNCHANGED <<upstreamRows, manifestsMade>>
  BY DEF ProbeUpstream
<1>8. HonestRows(healthArg[r])'
  BY <1>1, <1>3, <1>4, <1>5, <1>7 DEF CheckInv, HonestRows, HonestRow
<1>9. SameUpstream(r)'
  BY <1>1, <1>3, <1>5, <1>7 DEF CheckInv, SameUpstream
<1>10. Unanswered(r)' = Unanswered(r) \ {k}
  BY <1>3, <1>4, <1>5 DEF Unanswered, HealthValues
<1>11. CheckInv(r)'
  <2>1. k \in Unanswered(r)
    BY DEF ProbeUpstream
  <2>2. pc = "probe" <=> Unanswered(r)' # {}
    BY <2>1, <1>10
  <2>3. QED
    BY <1>1, <1>3, <1>5, <1>6, <1>8, <1>9, <2>2 DEF CheckInv
<1>12. QED
  BY <1>2, <1>7, <1>11, OthersHold

(* A result is written only to the row that was read. *)
LEMMA HealthRecorded ==
    ASSUME HealthInv, HealthValues, NEW r \in Requests, NEW k \in HealthKeys, RecordHealth(r, k)
    PROVE  HealthInv'
<1> DEFINE rows == healthArg[r]
           result == healthArg[r][k]
           written == RowsWithId(k, result.id)
           arg == Restrict(rows, DOMAIN rows \ {k})
           pc == IF DOMAIN rows = {k} THEN "idle" ELSE "record"
<1>1. /\ CheckInv(r) /\ AreRows(rows, HealthStatuses \cup {Null}) /\ HonestRows(rows)
      /\ k \in DOMAIN rows /\ Unanswered(r) = {} /\ healthPc[r] = "record"
  BY DEF HealthInv, CheckInv, RecordHealth
<1>2. result.status \in HealthStatuses /\ result.upon \in Answers \cup {Null}
  BY <1>1 DEF Unanswered, AreRows
<1>3. /\ HealthStep(r, pc, arg) /\ manifestsMade' = manifestsMade
      /\ healthPc'[r] = pc /\ healthArg'[r] = arg
  BY CheckStays DEF RecordHealth
<1>4. AreRows(upstreamRows, HealthStatuses) /\ HonestRows(upstreamRows)
  BY DEF HealthInv
<1>5. /\ DOMAIN upstreamRows' = DOMAIN upstreamRows
      /\ \A l \in DOMAIN upstreamRows :
            /\ upstreamRows'[l].id = upstreamRows[l].id
            /\ upstreamRows'[l].upstream = upstreamRows[l].upstream
            /\ l \in written => upstreamRows'[l].status = result.status
                                /\ upstreamRows'[l].upon = result.upon
            /\ l \notin written => upstreamRows'[l] = upstreamRows[l]
            /\ upstreamRows'[l] \in [id : 1..MaxManifests, upstream : Upstreams,
                                     status : HealthStatuses, upon : Answers \cup {Null}]
  BY <1>2, <1>4 DEF RecordHealth, AreRows
<1>6. AreRows(upstreamRows', HealthStatuses)
  BY <1>4, <1>5 DEF AreRows, RecordHealth
<1>7. \A l \in written : l = k /\ upstreamRows[l].upstream = result.upstream
  BY <1>1 DEF RowsWithId, CheckInv, SameUpstream
<1>8. HonestRows(upstreamRows)'
  BY <1>1, <1>3, <1>4, <1>5, <1>7 DEF HonestRows, HonestRow
<1>9. /\ DOMAIN arg = DOMAIN rows \ {k}
      /\ \A l \in DOMAIN arg : arg[l] = rows[l]
      /\ AreRows(arg, HealthStatuses \cup {Null})
  BY <1>1 DEF Restrict, AreRows
<1>10. CheckInv(r)'
  <2>1. HonestRows(healthArg[r])'
    BY <1>1, <1>3, <1>9 DEF HonestRows
  <2>2. SameUpstream(r)'
    <3>1. \A l \in DOMAIN arg : l \in DOMAIN rows /\ arg[l] = rows[l]
      BY <1>9
    <3>2. SameUpstream(r)
      BY <1>1 DEF CheckInv
    <3>3. QED
      BY <1>3, <1>5, <3>1, <3>2 DEF SameUpstream
  <2>3. Unanswered(r)' = {}
    BY <1>1, <1>3, <1>9 DEF Unanswered
  <2>4. pc = "idle" <=> DOMAIN arg = {}
    BY <1>1, <1>9
  <2>5. QED
    BY <1>3, <1>9, <2>1, <2>2, <2>3, <2>4 DEF CheckInv
<1>11. ASSUME NEW q \in Requests \ {r} PROVE CheckInv(q)'
  <2>1. CheckInv(q) /\ healthPc'[q] = healthPc[q] /\ healthArg'[q] = healthArg[q]
    BY <1>3, CheckStays DEF HealthInv
  <2>2. SameUpstream(q)'
    BY <1>5, <2>1 DEF CheckInv, SameUpstream
  <2>3. QED
    BY <1>3, <2>1, <2>2 DEF CheckInv, Unanswered, HonestRows
<1>12. QED
  BY <1>3, <1>6, <1>8, <1>10, <1>11, CheckStays DEF HealthInv

LEMMA HealthStepKeeps ==
    ASSUME HealthInv, HealthValues, [HealthNext]_healthVars
    PROVE  HealthInv'
<1>1. CASE UNCHANGED healthVars
  BY <1>1 DEF healthVars, HealthInv, HealthFunctions, CheckInv, Unanswered, SameUpstream,
              HonestRows
<1>2. ASSUME NEW r \in Requests, HealthCheckFails(r) PROVE HealthInv'
  <2>1. healthPc'[r] = "idle" /\ healthArg'[r] = Nothing
    BY <1>2, CheckStays DEF HealthCheckFails
  <2>2. CheckInv(r)'
    BY <2>1, NothingIsRows DEF CheckInv, Unanswered, SameUpstream, HonestRows
  <2>3. QED
    BY <1>2, <2>2, OthersHold DEF HealthCheckFails
<1>3. QED
  BY <1>1, <1>2, ReplaceStep, DropStep, HealthCheckStarts, UpstreamProbed, HealthRecorded
     DEF HealthNext

LEMMA HealthAlways == HealthSpec => []HealthInv
<1>1. HealthInv /\ [HealthNext]_healthVars => HealthInv'
  BY HealthStepKeeps, HealthValues
<1>2. QED
  BY <1>1, HealthInitially, PTL DEF HealthSpec

(* In every state, the stored upstreams and the checks under way are of    *)
(* their types.                                                            *)
THEOREM HealthTyped == HealthSpec => []HealthTypeOK
<1>1. HealthInv => HealthTypeOK
  BY DEF HealthInv, HealthTypeOK, CheckInv
<1>2. QED
  BY <1>1, HealthAlways, PTL

(* An extension that is shown healthy was answered for, on its present     *)
(* target, as its present manifest wants, however checks overlap.          *)
THEOREM HealthIsHonest == HealthSpec => []HealthyIsItsOwn
<1>1. HealthInv => HealthyIsItsOwn
  BY DEF HealthInv, HealthyIsItsOwn, HonestRows, HonestRow, Honest
<1>2. QED
  BY <1>1, HealthAlways, PTL

-----------------------------------------------------------------------------
(* SemsStartup *)

Bootstraps == {"findUser", "createUser", "login", "disable", "template", "compare",
               "findConfig", "createConfig", "stageVersion", "promote"}

(* The calls after the service account has logged in *)
LoggedIn == {"disable", "template", "compare", "findConfig", "createConfig", "stageVersion",
             "promote"}

StartupTypeOK ==
    /\ stage \in [Replicas -> {"health", "fixture", "hub", "createBase", "session"} \cup Bootstraps]
    /\ outcome \in [Replicas -> {Null, "skipped", "partial", "errors", "done"}]
    /\ fixtureRan \in [Replicas -> BOOLEAN]
    /\ seenContent \in [Replicas -> Contents \cup {Null}]
    /\ production \in Contents \cup {Null}
    /\ fixture \in {"default", "rotated", "disabled"}
    /\ service \in {Null, "usable", "other"}
    /\ based \in [Replicas -> BOOLEAN]
    /\ deployed \in BOOLEAN
    /\ unanswered \subseteq Changing

(* What a replica knows at each of its calls, whatever the others do: the  *)
(* service account never stops being usable, the fixture administrator     *)
(* never gets its default password back, and once the shipped content is   *)
(* in production it stays there.                                           *)
ReplicaInv(p) ==
    /\ stage[p] \in LoggedIn => service = "usable"
    /\ stage[p] \in {"findUser", "createUser"} => fixtureRan[p]
    /\ stage[p] = "login" /\ ~fixtureRan[p] => fixture # "default"
    /\ stage[p] \in LoggedIn \ {"disable"} => fixture # "default"
    /\ seenContent[p] = Shipped => production = Shipped
    /\ outcome[p] = "done" => production = Shipped /\ fixture # "default"
    /\ based[p] => deployed

(* What held when a call was made that is now nobody's still holds. *)
UnansweredInv ==
    /\ "disable" \in unanswered => service = "usable"
    /\ "promote" \in unanswered => service = "usable" /\ fixture # "default"

StartupInv ==
    /\ StartupTypeOK
    /\ NeverLockedOut
    /\ UnansweredInv
    /\ \A p \in Replicas : ReplicaInv(p)

(* What no step takes back *)
Progress ==
    /\ service = "usable" => service' = "usable"
    /\ fixture # "default" => fixture' # "default"
    /\ production = Shipped => production' = Shipped
    /\ deployed => deployed'

(* The replicas other than p are where they were. *)
OthersStay(p) ==
    \A q \in Replicas \ {p} :
        /\ stage'[q] = stage[q] /\ outcome'[q] = outcome[q] /\ fixtureRan'[q] = fixtureRan[q]
        /\ seenContent'[q] = seenContent[q] /\ based'[q] = based[q]

LEMMA OthersKeepInv ==
    ASSUME NEW p \in Replicas, StartupInv, Progress, OthersStay(p), ReplicaInv(p)'
    PROVE  \A q \in Replicas : ReplicaInv(q)'
BY DEF StartupInv, StartupTypeOK, Progress, OthersStay, ReplicaInv

LEMMA BootstrapStep ==
    ASSUME StartupInv, NEW p \in Replicas, Bootstrap(p)
    PROVE  StartupInv'
<1> USE StartupValues DEF Call, Kept, EndsWith, ToHubStage, Bootstraps, LoggedIn, sems, hub, session
<1>1. StartupTypeOK' /\ NeverLockedOut' /\ UnansweredInv' /\ Progress /\ OthersStay(p) /\ ReplicaInv(p)'
  <2> USE DEF StartupInv, StartupTypeOK, NeverLockedOut, UnansweredInv, Progress, OthersStay, ReplicaInv
  <2>1. CASE HealthCheck(p)
    BY <2>1 DEF HealthCheck
  <2>2. CASE HealthTimeout(p)
    BY <2>2 DEF HealthTimeout
  <2>3. CASE FixtureLogin(p)
    BY <2>3 DEF FixtureLogin
  <2>4. CASE FindUser(p)
    BY <2>4 DEF FindUser
  <2>5. CASE CreateUser(p)
    BY <2>5 DEF CreateUser, AccountMade
  <2>6. CASE ServiceLogin(p)
    <3>1. CASE service = "usable"
      BY <2>6, <3>1 DEF ServiceLogin
    <3>2. CASE service # "usable"
      <4>1. /\ UNCHANGED <<fixture, service, configs, production, based, deployed, unanswered>>
            /\ stage' = [stage EXCEPT ![p] = "hub"]
            /\ outcome' = [outcome EXCEPT ![p] = "partial"]
            /\ fixtureRan' = [fixtureRan EXCEPT ![p] = FALSE]
            /\ seenContent' = [seenContent EXCEPT ![p] = Null]
        BY <2>6, <3>2 DEF ServiceLogin
      <4>2. QED
        BY <4>1
    <3>3. QED
      BY <3>1, <3>2
  <2>7. CASE DisableFixtureAdmin(p)
    BY <2>7 DEF DisableFixtureAdmin, FixtureShut
  <2>8. CASE EnsureTemplate(p)
    BY <2>8 DEF EnsureTemplate
  <2>9. CASE CompareContent(p)
    BY <2>9 DEF CompareContent
  <2>10. CASE FindConfig(p)
    BY <2>10 DEF FindConfig
  <2>11. CASE CreateConfig(p)
    BY <2>11 DEF CreateConfig, ConfigMade
  <2>12. CASE StageVersion(p)
    BY <2>12 DEF StageVersion
  <2>13. CASE PromoteVersion(p)
    BY <2>13 DEF PromoteVersion, Promoted
  <2>14. CASE BootstrapFails(p)
    BY <2>14 DEF BootstrapFails, Abandoned, Changing
  <2>15. CASE FindBaseDeployment(p)
    BY <2>15 DEF FindBaseDeployment
  <2>16. CASE CreateBaseDeployment(p)
    BY <2>16 DEF CreateBaseDeployment
  <2>17. QED
    BY <2>1, <2>2, <2>3, <2>4, <2>5, <2>6, <2>7, <2>8, <2>9, <2>10, <2>11, <2>12, <2>13, <2>14,
       <2>15, <2>16 DEF Bootstrap
<1>2. QED
  BY <1>1, OthersKeepInv DEF StartupInv

LEMMA RestartReplicaStep ==
    ASSUME StartupInv, NEW p \in Replicas, Restart(p)
    PROVE  StartupInv'
<1>1. StartupTypeOK' /\ NeverLockedOut' /\ UnansweredInv' /\ Progress /\ OthersStay(p) /\ ReplicaInv(p)'
  BY StartupValues
     DEF StartupInv, StartupTypeOK, NeverLockedOut, UnansweredInv, Progress, OthersStay, ReplicaInv,
         Restart, Abandoned, Changing, sems, LoggedIn
<1>2. QED
  BY <1>1, OthersKeepInv DEF StartupInv

(* The session and the outages concern nothing of this. *)
LEMMA SurroundingsStep ==
    ASSUME StartupInv,
           UNCHANGED <<sems, hub, unanswered, stage, outcome, fixtureRan, seenContent>>
    PROVE  StartupInv'
BY DEF StartupInv, StartupTypeOK, NeverLockedOut, UnansweredInv, ReplicaInv, sems, hub

(* A call carried out late does what its caller had made sure was due. *)
LEMMA CarriedOutStep ==
    ASSUME StartupInv, NEW call \in Changing, CarriedOut(call)
    PROVE  StartupInv'
<1> USE StartupValues DEF StartupInv, CarriedOut, AccountMade, FixtureShut, ConfigMade, Promoted,
        sems, hub, session
<1>1. StartupTypeOK' /\ NeverLockedOut' /\ UnansweredInv' /\ Progress
  BY DEF StartupTypeOK, NeverLockedOut, UnansweredInv, Progress, Changing
<1>2. \A q \in Replicas : ReplicaInv(q)'
  BY <1>1 DEF Progress, ReplicaInv
<1>3. QED
  BY <1>1, <1>2

LEMMA StartupInitInv == StartupInit => StartupInv
BY StartupValues
   DEF StartupInit, StartupInv, StartupTypeOK, NeverLockedOut, UnansweredInv, ReplicaInv, Bootstraps,
       LoggedIn

LEMMA StartupNextInv == StartupInv /\ [StartupNext]_startupVars => StartupInv'
<1> SUFFICES ASSUME StartupInv, [StartupNext]_startupVars
             PROVE  StartupInv'
  OBVIOUS
<1>1. ASSUME NEW p \in Replicas, Bootstrap(p)
      PROVE  StartupInv'
  BY <1>1, BootstrapStep
<1>2. ASSUME NEW p \in Replicas, Restart(p)
      PROVE  StartupInv'
  BY <1>2, RestartReplicaStep
<1>3. ASSUME NEW p \in Replicas,
             LogIn(p) \/ RefreshToken(p) \/ TokenExpires(p) \/ RefreshExpires(p)
      PROVE  StartupInv'
  BY <1>3, SurroundingsStep DEF LogIn, RefreshToken, TokensOf, TokenExpires, RefreshExpires
<1>4. CASE SemsStops \/ SemsStarts
  BY <1>4, SurroundingsStep DEF SemsStops, SemsStarts
<1>5. CASE UNCHANGED startupVars
  BY <1>5, SurroundingsStep DEF startupVars
<1>6. ASSUME NEW call \in Changing, CarriedOut(call)
      PROVE  StartupInv'
  BY <1>6, CarriedOutStep
<1>7. QED
  BY <1>1, <1>2, <1>3, <1>4, <1>5, <1>6 DEF StartupNext

(* However bootstraps of replicas overlap, fail and crash, the fixture     *)
(* administrator is only ever disabled while the service account of the    *)
(* API can log in.                                                         *)
THEOREM NobodyLocksOut == StartupSpec => []NeverLockedOut
<1>1. StartupInv => NeverLockedOut
  BY DEF StartupInv
<1>2. QED
  BY <1>1, StartupInitInv, StartupNextInv, PTL DEF StartupSpec

(* A replica whose bootstrap ended with success leaves the shipped         *)
(* configuration in production and no default password, and one that has   *)
(* seen to the base deployment leaves it in IoT Hub, for good.             *)
THEOREM SuccessMeansProvisioned == StartupSpec => []DoneMeansProvisioned
<1>1. StartupInv => DoneMeansProvisioned
  BY DEF StartupInv, ReplicaInv, DoneMeansProvisioned
<1>2. QED
  BY <1>1, StartupInitInv, StartupNextInv, PTL DEF StartupSpec

(* A token needs a service account that can log in, or a refresh token     *)
(* from one that could.                                                    *)
SessionInv ==
    /\ token \in [Replicas -> {"good", "bad"}]
    /\ refresh \in [Replicas -> BOOLEAN]
    /\ \A p \in Replicas : token[p] = "good" \/ refresh[p] => service = "usable"

LEMMA SessionStep ==
    ASSUME StartupInv, SessionInv, [StartupNext]_startupVars
    PROVE  SessionInv'
<1>1. ASSUME NEW p \in Replicas, Bootstrap(p)
      PROVE  SessionInv'
  BY <1>1 DEF SessionInv, session, sems, Call, Kept, EndsWith, ToHubStage, Bootstrap, HealthCheck,
       HealthTimeout, FixtureLogin, FindUser, CreateUser, ServiceLogin, DisableFixtureAdmin,
       EnsureTemplate, CompareContent, FindConfig, CreateConfig, StageVersion, PromoteVersion,
       BootstrapFails, FindBaseDeployment, CreateBaseDeployment, AccountMade, FixtureShut, ConfigMade,
       Promoted
<1>2. ASSUME NEW p \in Replicas,
             LogIn(p) \/ RefreshToken(p) \/ TokenExpires(p) \/ RefreshExpires(p) \/ Restart(p)
      PROVE  SessionInv'
  BY <1>2 DEF SessionInv, LogIn, RefreshToken, TokensOf, TokenExpires, RefreshExpires, Restart, sems
<1>3. CASE SemsStops \/ SemsStarts \/ UNCHANGED startupVars
  BY <1>3 DEF SessionInv, SemsStops, SemsStarts, startupVars, sems, session
<1>4. ASSUME NEW call \in Changing, CarriedOut(call)
      PROVE  SessionInv'
  BY <1>4 DEF SessionInv, CarriedOut, AccountMade, FixtureShut, ConfigMade, Promoted, sems, session
<1>5. QED
  BY <1>1, <1>2, <1>3, <1>4 DEF StartupNext

(* A step of the bootstrap in which p's report, and what it knows of IoT   *)
(* Hub, stay as they were is a stutter, or one of the two on the accounts. *)
LEMMA ReportsStay ==
    ASSUME \A q \in Replicas : outcome'[q] = "done" <=> outcome[q] = "done",
           UNCHANGED <<fixture, service, production, deployed, based, token>>
    PROVE  UNCHANGED Single!vars
BY DEF Single!vars, Single!accounts

LEMMA ReportAdds ==
    ASSUME StartupInv, NEW p \in Replicas, outcome' = [outcome EXCEPT ![p] = "done"]
    PROVE  {q \in Replicas : outcome'[q] = "done"} = {q \in Replicas : outcome[q] = "done"} \cup {p}
BY DEF StartupInv, StartupTypeOK

(* A replica that is still at it has reported nothing; one that logged in  *)
(* as the fixture administrator did so with the default password, also if  *)
(* nobody waits for its calls any more.                                    *)
Unfinished ==
    /\ \A p \in Replicas :
        /\ stage[p] \in {"health", "fixture"} \cup Bootstraps => outcome[p] # "done"
        /\ stage[p] # "session" => ~based[p]
        /\ fixtureRan[p] => fixture # "rotated"
        /\ stage[p] = "disable" => fixtureRan[p]
    /\ {"createUser", "disable"} \cap unanswered # {} => fixture # "rotated"
    /\ unanswered # {} => Replicas # {}

LEMMA UnfinishedStep ==
    ASSUME StartupInv, Unfinished, [StartupNext]_startupVars
    PROVE  Unfinished'
<1> USE StartupValues DEF StartupInv, StartupTypeOK, Unfinished, Bootstraps, sems, hub, session
<1>1. ASSUME NEW p \in Replicas, Bootstrap(p)
      PROVE  Unfinished'
  <2> USE DEF Call, Kept, EndsWith, ToHubStage
  <2>1. CASE HealthCheck(p) \/ HealthTimeout(p) \/ BootstrapFails(p)
    BY <2>1 DEF HealthCheck, HealthTimeout, BootstrapFails, Abandoned, ReplicaInv
  <2>2. CASE FixtureLogin(p)
    BY <2>2 DEF FixtureLogin
  <2>3. CASE FindUser(p) \/ CreateUser(p)
    BY <2>3 DEF FindUser, CreateUser, AccountMade
  <2>4. CASE ServiceLogin(p)
    BY <2>4 DEF ServiceLogin
  <2>5. CASE DisableFixtureAdmin(p) \/ EnsureTemplate(p)
    BY <2>5 DEF DisableFixtureAdmin, EnsureTemplate, FixtureShut
  <2>6. CASE CompareContent(p)
    BY <2>6 DEF CompareContent
  <2>7. CASE FindConfig(p) \/ CreateConfig(p) \/ StageVersion(p)
    BY <2>7 DEF FindConfig, CreateConfig, StageVersion, ConfigMade
  <2>8. CASE PromoteVersion(p)
    BY <2>8 DEF PromoteVersion, Promoted
  <2>9. CASE FindBaseDeployment(p)
    BY <2>9 DEF FindBaseDeployment
  <2>10. CASE CreateBaseDeployment(p)
    <3>1. /\ UNCHANGED <<fixture, service, configs, production, outcome, fixtureRan, unanswered>>
          /\ stage' = [stage EXCEPT ![p] = "session"]
          /\ based' \in {[based EXCEPT ![p] = TRUE], [based EXCEPT ![p] = FALSE]}
      BY <2>10 DEF CreateBaseDeployment
    <3>2. QED
      BY <3>1
  <2>11. QED
    BY <1>1, <2>1, <2>2, <2>3, <2>4, <2>5, <2>6, <2>7, <2>8, <2>9, <2>10 DEF Bootstrap
<1>2. ASSUME NEW p \in Replicas,
             LogIn(p) \/ RefreshToken(p) \/ TokenExpires(p) \/ RefreshExpires(p) \/ Restart(p)
      PROVE  Unfinished'
  BY <1>2 DEF LogIn, RefreshToken, TokensOf, TokenExpires, RefreshExpires, Restart, Abandoned,
              ReplicaInv
<1>3. CASE SemsStops \/ SemsStarts \/ UNCHANGED startupVars
  BY <1>3 DEF SemsStops, SemsStarts, startupVars
<1>4. ASSUME NEW call \in Changing, CarriedOut(call)
      PROVE  Unfinished'
  BY <1>4 DEF CarriedOut, AccountMade, FixtureShut, ConfigMade, Promoted
<1>5. QED
  BY <1>1, <1>2, <1>3, <1>4 DEF StartupNext

LEMMA BootstrapImplements ==
    ASSUME StartupInv, Unfinished, NEW p \in Replicas, Bootstrap(p)
    PROVE  [Single!Next]_(Single!vars)
<1> USE DEF sems, hub, session, Call, Kept
<1>1. StartupTypeOK /\ ReplicaInv(p)
  BY DEF StartupInv
<1>2. CASE HealthCheck(p) \/ FixtureLogin(p) \/ FindUser(p) \/ EnsureTemplate(p) \/ FindConfig(p)
           \/ CreateConfig(p) \/ StageVersion(p)
  BY <1>2, ReportsStay DEF HealthCheck, FixtureLogin, FindUser, EnsureTemplate, FindConfig,
       CreateConfig, ConfigMade, StageVersion
<1>3. CASE HealthTimeout(p) \/ BootstrapFails(p)
  <2>1. stage[p] \in {"health", "fixture"} \cup Bootstraps
    BY <1>1, <1>3 DEF HealthTimeout, BootstrapFails, StartupTypeOK
  <2>2. \A q \in Replicas : outcome'[q] = "done" <=> outcome[q] = "done"
    BY <1>1, <1>3, <2>1 DEF HealthTimeout, BootstrapFails, EndsWith, Unfinished, StartupTypeOK
  <2>3. QED
    BY <1>3, <2>2, ReportsStay DEF HealthTimeout, BootstrapFails, EndsWith
<1>4. CASE CreateUser(p)
  <2>1. fixture = "default"
    BY <1>4, <1>1, StartupValues DEF CreateUser, StartupInv, StartupTypeOK, NeverLockedOut, ReplicaInv, Unfinished
  <2>2. Single!CreateAccount
    BY <1>4, <2>1 DEF CreateUser, AccountMade, Single!CreateAccount
  <2>3. QED
    BY <2>2 DEF Single!Next
<1>5. CASE ServiceLogin(p)
  <2>1. \A q \in Replicas : outcome'[q] = "done" <=> outcome[q] = "done"
    BY <1>1, <1>5 DEF ServiceLogin, EndsWith, Unfinished, Bootstraps, StartupTypeOK
  <2>2. QED
    BY <1>5, <2>1, ReportsStay DEF ServiceLogin, EndsWith
<1>6. CASE DisableFixtureAdmin(p)
  <2>1. service = "usable"
    BY <1>1, <1>6 DEF DisableFixtureAdmin, ReplicaInv, LoggedIn
  <2>2. CASE fixture = "default"
    BY <1>6, <2>1, <2>2 DEF DisableFixtureAdmin, FixtureShut, Single!ShutFixture, Single!Next
  <2>3. CASE fixture = "disabled"
    BY <1>6, <2>3, ReportsStay DEF DisableFixtureAdmin, FixtureShut
  <2>4. fixture # "rotated"
    BY <1>6 DEF DisableFixtureAdmin, Unfinished
  <2>5. QED
    BY <1>1, <2>2, <2>3, <2>4 DEF StartupTypeOK
<1>7. CASE CompareContent(p)
  <2>1. CASE seenContent[p] = Shipped
    <3>1. production = Shipped /\ Single!Secured
      BY <1>1, <1>7, <2>1 DEF CompareContent, ReplicaInv, LoggedIn, Single!Secured
    <3>2. Single!Release(p)
      BY <1>7, <2>1, <3>1, ReportAdds DEF CompareContent, EndsWith, Single!Release, Single!accounts
    <3>3. QED
      BY <3>2 DEF Single!Next
  <2>2. CASE seenContent[p] # Shipped
    BY <1>7, <2>2, ReportsStay DEF CompareContent
  <2>3. QED
    BY <2>1, <2>2
<1>8. CASE PromoteVersion(p)
  <2>1. Single!Secured
    BY <1>1, <1>8 DEF PromoteVersion, ReplicaInv, LoggedIn, Single!Secured
  <2>2. Single!Release(p)
    BY <1>8, <2>1, ReportAdds DEF PromoteVersion, Promoted, EndsWith, Single!Release, Single!accounts
  <2>3. QED
    BY <2>2 DEF Single!Next
<1>9. CASE FindBaseDeployment(p) \/ CreateBaseDeployment(p)
  <2> DEFINE known == {q \in Replicas : based[q]}
  <2>1. UNCHANGED <<fixture, service, production, outcome, token>>
    BY <1>9 DEF FindBaseDeployment, CreateBaseDeployment, ToHubStage
  <2>2. CASE based' = [based EXCEPT ![p] = TRUE] /\ deployed' = TRUE
    <3>1. known' = known \cup {p}
      BY <1>1, <2>2 DEF StartupTypeOK
    <3>2. Single!Deploy(p)
      BY <2>1, <2>2, <3>1 DEF Single!Deploy, Single!accounts
    <3>3. QED
      BY <3>2 DEF Single!Next
  <2>3. CASE based' = [based EXCEPT ![p] = FALSE] /\ deployed' \in {deployed, TRUE}
    <3>1. ~based[p]
      BY <1>1, <1>9 DEF FindBaseDeployment, CreateBaseDeployment, Unfinished
    <3>2. known' = known
      BY <1>1, <2>3, <3>1 DEF StartupTypeOK
    <3>3. CASE deployed' = deployed
      BY <2>1, <3>2, <3>3 DEF Single!vars, Single!accounts
    <3>4. CASE deployed' = TRUE
      BY <2>1, <3>2, <3>4 DEF Single!Deploy, Single!Next, Single!accounts
    <3>5. QED
      BY <2>3, <3>3, <3>4
  <2>4. QED
    BY <1>9, <2>2, <2>3 DEF FindBaseDeployment, CreateBaseDeployment, ToHubStage
<1>10. QED
  BY <1>2, <1>3, <1>4, <1>5, <1>6, <1>7, <1>8, <1>9 DEF Bootstrap

(* A call whose caller does not hear of it is a step of the one bootstrap  *)
(* that nobody reports, or a stutter.                                      *)
LEMMA CarriedOutImplements ==
    ASSUME StartupInv, Unfinished, NEW call \in Changing, CarriedOut(call)
    PROVE  [Single!Next]_(Single!vars)
<1> USE DEF sems, hub, session, CarriedOut
<1>1. StartupTypeOK /\ NeverLockedOut /\ UnansweredInv
  BY DEF StartupInv
<1>2. UNCHANGED <<deployed, based, outcome, token>>
  OBVIOUS
<1>3. CASE call = "createUser" /\ service = Null /\ AccountMade
  <2>1. fixture = "default"
    BY <1>3, <1>1, StartupValues DEF StartupTypeOK, NeverLockedOut, Unfinished
  <2>2. QED
    BY <1>2, <1>3, <2>1 DEF AccountMade, Single!CreateAccount, Single!Next
<1>4. CASE call = "disable" /\ FixtureShut
  <2>1. service = "usable"
    BY <1>4, <1>1 DEF UnansweredInv
  <2>2. CASE fixture = "default"
    BY <1>2, <1>4, <2>1, <2>2 DEF FixtureShut, Single!ShutFixture, Single!Next
  <2>3. CASE fixture = "disabled"
    BY <1>2, <1>4, <2>3, ReportsStay DEF FixtureShut
  <2>4. QED
    BY <1>1, <1>4, <2>2, <2>3 DEF StartupTypeOK, Unfinished
<1>5. CASE call = "promote" /\ Promoted
  <2>1. Single!Secured
    BY <1>1, <1>5 DEF UnansweredInv, Single!Secured
  <2>2. QED
    <3>1. PICK p \in Replicas : TRUE
      BY DEF Unfinished
    <3>2. Single!Release(p)
      BY <1>2, <1>5, <2>1 DEF Promoted, Single!Release, Single!accounts
    <3>3. QED
      BY <3>2 DEF Single!Next
<1>6. CASE ConfigMade \/ UNCHANGED sems
  BY <1>2, <1>6, ReportsStay DEF ConfigMade
<1>7. QED
  BY <1>3, <1>4, <1>5, <1>6

LEMMA SessionImplements ==
    ASSUME StartupInv, SessionInv, NEW p \in Replicas,
           LogIn(p) \/ RefreshToken(p) \/ TokenExpires(p) \/ RefreshExpires(p) \/ Restart(p)
    PROVE  [Single!Next]_(Single!vars)
<1> DEFINE open == {q \in Replicas : token[q] = "good"}
<1> USE DEF sems, hub
<1>1. CASE LogIn(p) \/ RefreshToken(p)
  <2>1. UNCHANGED <<fixture, service, production, deployed, based, outcome>>
    BY <1>1 DEF LogIn, RefreshToken, TokensOf
  <2>2. CASE UNCHANGED token
    BY <2>1, <2>2 DEF Single!vars, Single!accounts
  <2>3. CASE token' = [token EXCEPT ![p] = "good"] /\ service = "usable"
    <3>1. open' = open \cup {p}
      BY <2>3 DEF SessionInv
    <3>2. Single!LogIn(p)
      BY <2>1, <2>3, <3>1 DEF Single!LogIn, Single!accounts
    <3>3. QED
      BY <3>2 DEF Single!Next
  <2>4. QED
    BY <1>1, <2>2, <2>3 DEF LogIn, RefreshToken, TokensOf, SessionInv
<1>2. CASE TokenExpires(p)
  <2>1. open' = open \ {p}
    BY <1>2 DEF TokenExpires, SessionInv
  <2>2. Single!Expire(p)
    BY <1>2, <2>1 DEF TokenExpires, Single!Expire, Single!accounts
  <2>3. QED
    BY <2>2 DEF Single!Next
<1>3. CASE RefreshExpires(p)
  BY <1>3 DEF RefreshExpires, Single!vars, Single!accounts
<1>4. CASE Restart(p)
  <2>1. /\ open' = open \ {p}
        /\ {q \in Replicas : outcome'[q] = "done"} = {q \in Replicas : outcome[q] = "done"} \ {p}
        /\ {q \in Replicas : based'[q]} = {q \in Replicas : based[q]} \ {p}
    BY <1>4, StartupValues DEF Restart, SessionInv, StartupInv, StartupTypeOK
  <2>2. Single!Restart(p)
    BY <1>4, <2>1 DEF Restart, Single!Restart, Single!accounts
  <2>3. QED
    BY <2>2 DEF Single!Next
<1>5. QED
  BY <1>1, <1>2, <1>3, <1>4

(* Replicas that overlap, fail, crash and lose SmartEMS go through the     *)
(* states of one bootstrap: accounts, production, IoT Hub, reports of      *)
(* success and tokens change in its steps and in its order.                *)
THEOREM ManyAreOne == StartupSpec => ImplementsOneBootstrap
<1>1. StartupInit => SessionInv /\ Unfinished /\ Single!Init
  BY StartupValues DEF StartupInit, SessionInv, Unfinished, Single!Init
<1>2. ASSUME StartupInv, SessionInv, Unfinished, [StartupNext]_startupVars
      PROVE  [Single!Next]_(Single!vars)
  <2>1. CASE SemsStops \/ SemsStarts \/ UNCHANGED startupVars
    BY <2>1 DEF SemsStops, SemsStarts, startupVars, sems, hub, session, Single!vars, Single!accounts
  <2>2. QED
    BY <1>2, <2>1, BootstrapImplements, CarriedOutImplements, SessionImplements DEF StartupNext
<1>3. QED
  BY <1>1, <1>2, StartupInitInv, StartupNextInv, SessionStep, UnfinishedStep, PTL
     DEF StartupSpec, ImplementsOneBootstrap, Single!Spec
=============================================================================
