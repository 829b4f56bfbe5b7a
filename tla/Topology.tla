------------------------------- MODULE Topology -------------------------------
(***************************************************************************)
(* From the topology of slipmesh.yaml (the network document and the pools)   *)
(* to what one node's awg and router are configured with: mesh_config.rs,    *)
(* secrets.rs, addressing.rs and render.rs of src/taloscfg, the validation   *)
(* of both daemons, and what the router makes of its config (bird_conf.rs).  *)
(* Names, keys and patterns are values; addresses are numbers of a few bits. *)
(***************************************************************************)
EXTENDS Naturals, Sequences, FiniteSets, Functions

CONSTANTS
  Unset,      \* a field the document leaves out
  LongNames,  \* names that make an interface name longer than IFNAMSIZ allows
  BadCidrs,   \* text in the place of a CIDR that does not parse as one
  BadSources, \* bypass sources without a field their kind requires, or malformed
  IdBits,     \* width of a node_id and of an IPv4 address
  V6Bits,     \* width of an IPv6 address
  NonceSize   \* what header protection needs each junk size to hold

ASSUME WidthAssumption == IdBits \in Nat /\ V6Bits \in Nat /\ IdBits <= V6Bits

(* Fields of an obfuscation, of which `s12' and `s34' each stand for the lesser of *)
(* two sizes and `headers' for h1..h4, which either differ (an unset one counting  *)
(* as its default) or clash.  Only the Drawn ones are ever generated.              *)
Drawn == {"jc", "jmin", "jmax", "s12", "headers"}
ObfuscationFields == Drawn \cup {"s34", "protection"}
NoObfuscation == [f \in ObfuscationFields |-> Unset]
OrZero(x) == IF x = Unset THEN 0 ELSE x

ObfuscationValid(o) ==
  /\ o.protection # Unset => OrZero(o.s12) >= NonceSize /\ OrZero(o.s34) >= NonceSize
  /\ o.headers # "clash"
  /\ OrZero(o.jc) # 0 /\ OrZero(o.jmax) # 0 => OrZero(o.jmin) <= o.jmax

-----------------------------------------------------------------------------
(* mesh_config::validate.  A topology t has nodes and links in sequences, pools by *)
(* the positions of their documents, and the settings of the cluster.             *)

NodeNames(t) == {n.name : n \in Range(t.nodes)}
Ends(l) == {l.pair[1], l.pair[2]}
LinksOf(t, n) == {i \in DOMAIN t.links : n \in Ends(t.links[i])}
PoolsOf(t, n) == {i \in DOMAIN t.pools : n \in Range(t.pools[i].hosts)}
Distinct(s, field) == \A i, j \in DOMAIN s : s[i][field] = s[j][field] => i = j

PortsDistinct(t, n) ==
  LET links == LinksOf(t, n)
      pools == PoolsOf(t, n)
  IN  /\ \A i, j \in links : t.links[i].port = t.links[j].port => i = j
      /\ \A i, j \in pools : t.pools[i].port = t.pools[j].port => i = j
      /\ \A i \in links, j \in pools : t.links[i].port # t.pools[j].port

Validate(t) ==
  /\ t.nodes # <<>> /\ Distinct(t.nodes, "name") /\ Distinct(t.nodes, "id")
  /\ \A l \in Range(t.links) : Ends(l) \subseteq NodeNames(t) /\ l.pair[1] # l.pair[2]
  /\ Distinct(t.pools, "name")
  /\ \A p \in Range(t.pools) :
       /\ p.hosts # <<>> /\ Range(p.hosts) \subseteq NodeNames(t)
       /\ IsInjective(p.hosts) /\ Distinct(p.clients, "key")
  /\ \A n \in NodeNames(t) : PortsDistinct(t, n)
  /\ \A b \in Range(t.bypass) : b.node \in NodeNames(t)

-----------------------------------------------------------------------------
(* secrets::resolve and edit::record.  Of what is drawn for an entry, the fields that *)
(* neither it nor the topology's default sets are used, and recorded in the entry.    *)

Record(t, x, drawn) ==
  [x EXCEPT !.obfuscation =
     [f \in ObfuscationFields |-> IF @[f] = Unset /\ t.obfuscation[f] = Unset
                                  THEN drawn[f] ELSE @[f]]]

(* The obfuscation of an entry, once everything drawn is recorded. *)
Resolve(t, x) ==
  IF x.plain THEN NoObfuscation
  ELSE [f \in ObfuscationFields |->
          IF x.obfuscation[f] # Unset THEN x.obfuscation[f] ELSE t.obfuscation[f]]

(* By link_key, for which neither the order of a pair nor its repetition matters. *)
LinkObfuscation(t, i) ==
  LET same == {j \in DOMAIN t.links : Ends(t.links[j]) = Ends(t.links[i])}
  IN  Resolve(t, t.links[CHOOSE j \in same : \A k \in same : k <= j])

PrivateKey(n) == <<"private", n>>
PublicKey(k) == <<"public", k>>

-----------------------------------------------------------------------------
(* addressing.rs, and the addresses of a node (render.rs). *)

Node(t, n) == CHOOSE e \in Range(t.nodes) : e.name = n

(* The network's bits, with those of the node_id that the prefix leaves room for. *)
Embed(net, width, id) ==
  LET hosts == 2^(width - net.len) IN (net.addr - (net.addr % hosts)) + (id % hosts)

Addresses(networks, id) ==
  [v4 |-> Embed(networks.v4, IdBits, id), v6 |-> Embed(networks.v6, V6Bits, id)]

NodeLoopbacks(t, n) == Addresses(t.loopbacks, Node(t, n).id)

(* link_local_from_loopback, in cidr.rs of the router: fe80:: and the low bits. *)
LinkLocal(v6) == v6 % (2^IdBits)

DirectInterfaces(t, n) ==
  IF Node(t, n).direct = Unset THEN t.direct ELSE Node(t, n).direct

(* tunnel_networks and "mesh-*" among direct_interfaces travel together. *)
TunnelAnnounced(t, n) == t.tunnels = Unset \/ "mesh-*" \in DirectInterfaces(t, n)

-----------------------------------------------------------------------------
(* render_awg_config *)

PeerOf(l, n) == IF l.pair[1] = n THEN l.pair[2] ELSE l.pair[1]

InterfaceAddresses(t, n) ==
  IF t.tunnels = Unset THEN {<<"fe80", LinkLocal(NodeLoopbacks(t, n).v6)>>}
  ELSE LET tunnel == Addresses(t.tunnels, Node(t, n).id)
       IN  {<<"v6", tunnel.v6>>, <<"v4", tunnel.v4>>}

(* Mutant: the endpoint goes without the link's own port. *)
MeshInterfaceDialingFirst(t, n, i) ==
  LET l == t.links[i]
      m == PeerOf(l, n)
      e == Node(t, m).endpoint
      first == t.links[CHOOSE j \in LinksOf(t, m) : \A k \in LinksOf(t, m) : j <= k]
  IN  [name |-> <<"mesh", m>>, port |-> l.port, addresses |-> InterfaceAddresses(t, n),
       key |-> PrivateKey(n), obfuscation |-> LinkObfuscation(t, i),
       peers |-> <<[key |-> PublicKey(PrivateKey(m)), allowed |-> Unset, advanced |-> FALSE,
                    endpoint |-> IF e = Unset THEN Unset ELSE <<e, first.port>>]>>]

MeshInterface(t, n, i) ==
  LET l == t.links[i]
      m == PeerOf(l, n)
      e == Node(t, m).endpoint
  IN  [name |-> <<"mesh", m>>, port |-> l.port, addresses |-> InterfaceAddresses(t, n),
       key |-> PrivateKey(n), obfuscation |-> LinkObfuscation(t, i),
       peers |-> <<[key |-> PublicKey(PrivateKey(m)), allowed |-> Unset, advanced |-> FALSE,
                    endpoint |-> IF e = Unset THEN Unset ELSE <<e, l.port>>]>>]

PoolInterface(t, p) ==
  [name |-> <<"rw", p.name>>, port |-> p.port, addresses |-> p.addresses,
   key |-> PrivateKey(p.name), obfuscation |-> Resolve(t, p),
   peers |-> [i \in DOMAIN p.clients |->
                [key |-> p.clients[i].key, allowed |-> p.clients[i].allowed,
                 advanced |-> p.clients[i].advanced, endpoint |-> Unset]]]

Interfaces(t, n) ==
  [k \in ({"mesh"} \X LinksOf(t, n)) \cup ({"rw"} \X PoolsOf(t, n)) |->
     IF k[1] = "mesh" THEN MeshInterface(t, n, k[2]) ELSE PoolInterface(t, t.pools[k[2]])]

(* metrics_for: the listener is the node's own IPv4 loopback. *)
Metrics(t, n, port) == IF port = Unset THEN Unset ELSE <<NodeLoopbacks(t, n).v4, port>>

AwgConfig(t, n) == [interfaces |-> Interfaces(t, n), metrics |-> Metrics(t, n, t.awg_port)]

(* common::MetricsConfig::validate; port 0 is refused when rendering already. *)
MetricsValid(m) == m # Unset => m[1] # 0 /\ m[2] # 0

(* awg::config::validate *)
AwgValid(cfg) ==
  /\ MetricsValid(cfg.metrics)
  /\ \A k, j \in DOMAIN cfg.interfaces :
       cfg.interfaces[k].name = cfg.interfaces[j].name => k = j
  /\ \A i \in Range(cfg.interfaces) :
       /\ i.name[2] \notin LongNames
       /\ i.addresses \cap BadCidrs = {}
       /\ Distinct(i.peers, "key")
       /\ \A p \in Range(i.peers) :
            /\ p.advanced => i.obfuscation.protection # Unset
            /\ p.allowed # Unset => p.allowed \cap BadCidrs = {}

-----------------------------------------------------------------------------
(* render_router_config *)

(* Mutant: the sessions are addressed to the IPv4 loopbacks. *)
BgpPeersByV4(t, n) ==
  {[name |-> m, address |-> NodeLoopbacks(t, m).v4] : m \in NodeNames(t) \ {n}}

BgpPeers(t, n) ==
  {[name |-> m, address |-> NodeLoopbacks(t, m).v6] : m \in NodeNames(t) \ {n}}

(* Every bypass entry of the node, put together. *)
BypassFor(t, n) ==
  LET entries == {b \in Range(t.bypass) : b.node = n}
  IN  IF entries = {} THEN Unset
      ELSE [include |-> UNION {b.include : b \in entries},
            exclude |-> UNION {b.exclude : b \in entries}, refresh |-> t.refresh]

RouterConfig(t, n) ==
  [loopbacks |-> NodeLoopbacks(t, n), as |-> t.as, peers |-> BgpPeers(t, n), bfd |-> t.bfd,
   ospf |-> {"mesh-*", "router-lo"}, direct |-> DirectInterfaces(t, n),
   learn |-> {t.pod_subnet} \ {Unset}, announce |-> {t.service_subnet} \ {Unset},
   bypass |-> BypassFor(t, n), metrics |-> Metrics(t, n, t.router_port)]

(* router::config::validate *)
RouterValid(cfg) ==
  /\ cfg.as # 0
  /\ MetricsValid(cfg.metrics)
  /\ cfg.bfd # Unset => cfg.bfd > 0
  /\ (cfg.learn \cup cfg.announce) \cap BadCidrs = {}
  /\ cfg.bypass # Unset =>
       cfg.bypass.refresh > 0 /\ (cfg.bypass.include \cup cfg.bypass.exclude) \cap BadSources = {}

(* StaticInputs and BirdConfigContext: what bird is told, but for the bypass.  Each *)
(* session is from the node's own IPv6 loopback; router-lo has no BFD neighbour.    *)
BirdContext(cfg) ==
  [router_id |-> cfg.loopbacks.v4, as |-> cfg.as,
   sessions |-> {[from |-> cfg.loopbacks.v6, to |-> p.address] : p \in cfg.peers},
   ospf |-> [i \in cfg.ospf |-> cfg.bfd # Unset /\ i # "router-lo"],
   direct |-> cfg.direct, learn |-> cfg.learn, announce |-> cfg.announce]

(* The checks of patch_file::render that look at the topology only. *)
NodeRenders(t, n) ==
  /\ 0 \notin {t.awg_port, t.router_port}
  /\ AwgValid(AwgConfig(t, n))
  /\ \A i \in Range(Interfaces(t, n)) : ObfuscationValid(i.obfuscation)
  /\ TunnelAnnounced(t, n)
  /\ RouterValid(RouterConfig(t, n))

=============================================================================
