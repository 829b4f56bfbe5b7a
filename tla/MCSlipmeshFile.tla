---------------------------- MODULE MCSlipmeshFile ----------------------------
(* Three nodes, links that share ports or pairs, two pools, and patches of every *)
(* aim: enough for each way two documents, two hosts or two ends can disagree.   *)
EXTENDS SlipmeshFile

MCHosts == {"a", "b", "c"}
MCKeys == {"k1", "k2"}

NodeOf(name, id, endpoint, direct) ==
  [name |-> name, id |-> id, endpoint |-> endpoint, direct |-> direct]
LinkOf(x, y, port, plain) ==
  [pair |-> <<x, y>>, port |-> port, plain |-> plain, obfuscation |-> NoObfuscation]
Nets(v4, v6) == [v4 |-> [addr |-> v4, len |-> 1], v6 |-> [addr |-> v6, len |-> 2]]

Plain ==
  [nodes |-> <<NodeOf("a", 1, "host-a", Unset), NodeOf("b", 2, Unset, {"eth0", "mesh-*"}),
               NodeOf("c", 3, "host-c", Unset)>>,
   links |-> <<LinkOf("a", "b", 1, FALSE)>>,
   bypass |-> <<>>, obfuscation |-> NoObfuscation, loopbacks |-> Nets(8, 16), tunnels |-> Unset,
   direct |-> {"eth0"}, awg_port |-> 9, router_port |-> Unset, as |-> 7, bfd |-> Unset,
   pod_subnet |-> Unset, service_subnet |-> Unset, refresh |-> 1]

(* Tunnels, which b alone announces, a bypass, a default that fits one of the draws. *)
Tunnelled ==
  [Plain EXCEPT !.links = @ \o <<LinkOf("c", "a", 2, TRUE)>>, !.tunnels = Nets(0, 8), !.bfd = 1,
                !.obfuscation.jmin = 3,
                !.pod_subnet = "pods", !.direct = {"mesh-*"}, !.router_port = 9,
                !.bypass = <<[node |-> "a", include |-> {"x"}, exclude |-> {}],
                             [node |-> "a", include |-> {"y"}, exclude |-> {"x"}]>>]
Colliding == [Plain EXCEPT !.links = @ \o <<LinkOf("b", "c", 1, TRUE)>>]
Doubled == [Plain EXCEPT !.links = @ \o <<LinkOf("b", "a", 3, FALSE)>>]

Pool(name, hosts, port, advanced) ==
  [name |-> name, hosts |-> hosts, port |-> port, addresses |-> {"10.0.0.1"}, plain |-> FALSE,
   obfuscation |-> IF advanced THEN [NoObfuscation EXCEPT !.protection = "key", !.s34 = 2]
                   ELSE NoObfuscation,
   clients |-> <<[key |-> "phone", allowed |-> {"10.0.0.2"}, advanced |-> advanced]>>]

Aimless(kind, value) == [kind |-> kind, include |-> Everyone, exclude |-> {}, value |-> value]

Patch(name, include, exclude, body) ==
  [kind |-> "patch", include |-> include, exclude |-> exclude, api |-> "v1alpha1",
   name |-> name, delete |-> FALSE,
   body |-> body @@ [k \in MCKeys \cup {"configFiles"} |-> Absent]]
Setting(path, content) == [configFiles |-> [files |-> [p \in {path} |-> content]]]
Leaf(x) == [leaf |-> x]
Map(x, y) == [map |-> [k1 |-> x, k2 |-> y]]

Kubelet == Patch("kubelet", Everyone, {}, [k1 |-> Map(Leaf(1), Leaf(2)), k2 |-> Leaf(1)])

KubeletAimed == Patch("kubelet", {"a"}, {}, [k1 |-> Map(Null, Absent), k2 |-> Null])
KubeletMore == Patch("kubelet", Everyone, {"c"}, [k1 |-> Leaf(4), k2 |-> Map(Leaf(5), Null)])
KubeletGone == [Patch("kubelet", {"a"}, {}, <<>>) EXCEPT !.delete = TRUE]
RouterAimed == Patch("router", {"a"}, {}, Setting(RouterTemplate, "mine"))
NftablesMost == Patch("nftables", Everyone, {"b"}, Setting(NftablesTemplate, "mine"))
NftablesOther == Patch("nftables", {"a"}, {}, Setting("other", "mine"))
AwgOther == Patch("awg", Everyone, {}, Setting("other", "mine"))

MCDocuments ==
  {KubeletAimed, KubeletMore, KubeletGone, RouterAimed, NftablesMost, NftablesOther,
   Patch("router", Everyone, {}, Setting(RouterTemplate, "broken")),
   Aimless("network", Tunnelled), Aimless("roadwarriors", Pool("q", <<"c">>, 2, FALSE))}

MCBaseFiles ==
  {<<Aimless("network", Plain), KubeletAimed, Kubelet>>,
   <<KubeletMore, AwgOther, Aimless("network", Plain),
     Aimless("roadwarriors", Pool("p", <<"a", "b">>, 4, TRUE))>>,
   <<Aimless("network", Doubled)>>, <<Aimless("network", Colliding), Kubelet>>}

DrawOf(min, max, headers) ==
  [NoObfuscation EXCEPT !.jc = 4, !.jmin = min, !.jmax = max, !.s12 = 2, !.headers = headers]

MCFresh == {DrawOf(1, 2, "first"), DrawOf(3, 4, "second")}

ASSUME OneApi
=============================================================================
