--------------------------- MODULE MCBypassResolver ---------------------------
(* Addresses of three bits.  One config asks upstream in every way; the others list *)
(* networks: two or three included and up to two excluded.                          *)
EXTENDS BypassResolver

Literal(s) == [kind |-> "literal", label |-> NoLabel,
               prefixes |-> [i \in DOMAIN s |-> [net |-> s[i][1], label |-> s[i][2]]]]
Asking(kind, label, asks) == [kind |-> kind, label |-> label, asks |-> asks]
Networks == {n \in Net : Canonical(n)}

Upstream ==
  [include |-> <<Asking("asn", "x", <<"as1", "as2">>), Literal(<<<<<<4, 2>>, NoLabel>>>>),
                 Asking("geoip", NoLabel, <<"cc">>)>>,
   exclude |-> <<Asking("dns", "y", <<"a", "b">>)>>]
Refused ==
  [include |-> <<Asking("asn", "x", <<"no asn">>), Asking("dns", "y", <<"a">>)>>, exclude |-> <<>>]

Listing(nets) ==
  {[include |-> <<Literal(<<<<n, "x">>, <<m, l>>, <<<<6, 3>>, "x">>>>)>>,
    exclude |-> <<Literal(<<<<e, NoLabel>>>>), Literal(<<<<f, NoLabel>>>>)>>]
     : n \in {k \in nets : k[2] < 3}, m \in {k \in nets : k[2] > 0}, l \in {"x", "y"},
       e \in {k \in nets : k[2] > 1}, f \in {k \in nets : k[2] = 3}}

MCConfigs == {Upstream, Refused} \cup Listing(Networks \ (Address \X {0}))
MCHostBits == Listing({<<0, 1>>, <<5, 2>>, <<6, 3>>})

MCAnswers == {<<>>, <<<<4, 2>>>>, <<<<0, 3>>, Malformed, <<1, 3>>, <<4, 2>>>>}

(* Of MCHostBits it does not hold. *)
ASSUME NoHostBits == HostBitsClear(MCConfigs, MCAnswers)
=============================================================================
