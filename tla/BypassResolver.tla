---------------------------- MODULE BypassResolver ----------------------------
(***************************************************************************)
(* Resolving the bypass of router.yaml (router/src/resolver.rs) with the     *)
(* arithmetic on networks it uses (router/src/cidr.rs): every source of both *)
(* lists is asked for its networks, concurrently and under a total timeout,   *)
(* and what is excluded is punched out of what is included.  One failure     *)
(* fails the call; the daemon calls again on its schedule.                   *)
(***************************************************************************)
EXTENDS Naturals, Sequences, FiniteSets, Functions, SequencesExt

CONSTANTS
  Width,     \* bits of an address
  Configs,   \* bypass blocks: [include, exclude], each a sequence of sources
  Answers,   \* what upstream may answer to a question, in sequences
  BadAsns,   \* questions that are refused before they are asked
  Malformed, \* an answer's entry that is no IPv4 network
  NoLabel,   \* a label that is left out
  Permits,   \* RIPESTAT_CONCURRENCY
  None,      \* no result: not called yet, or the call failed
  MaxCalls   \* bound on the calls

ASSUME BoundAssumption == Width \in Nat /\ Permits \in Nat \ {0} /\ MaxCalls \in Nat

(* Lists of sources, of prefixes, of what to ask, and of what is answered. *)
ASSUME ListAssumption ==
  /\ \A c \in Configs : \A list \in {c.include, c.exclude} :
       /\ list \in Seq(Range(list))
       /\ \A source \in Range(list) :
            IF source.kind = "literal" THEN source.prefixes \in Seq(Range(source.prefixes))
            ELSE source.asks \in Seq(Range(source.asks))
  /\ \A a \in Answers : a \in Seq(Range(a))

VARIABLES
  cfg,       \* the bypass block
  phase,     \* "idle", or the list that is being resolved: "include", "exclude"
  asking,    \* questions in flight
  answers,   \* the answers to this call's questions so far, each with its list
  included,  \* the networks of the include list, with their labels
  result,    \* of the last call
  arrived,   \* history: questions in the order of their answers
  calls

vars == <<cfg, phase, asking, answers, included, result, arrived, calls>>

-----------------------------------------------------------------------------
(* cidr.rs.  A network is an address and a length; parse_cidr clears no host bits. *)

Address == 0..(2^Width - 1)
Net == Address \X (0..Width)
Size(len) == 2^(Width - len)
NetworkAddr(addr, len) == addr - (addr % Size(len))

NetContains(outer, inner) ==
  inner[2] >= outer[2] /\ NetworkAddr(inner[1], outer[2]) = outer[1]

Halves(addr, len) == [lower |-> <<addr, len>>, upper |-> <<(addr + Size(len)) % 2^Width, len>>]

(* Mutant: the half that is kept is forgotten when it is the upper one. *)
AddressExcludeLower(net, exclude) ==
  LET left[len \in net[2]..exclude[2]] ==
        IF len = net[2] THEN [at |-> net, out |-> {}]
        ELSE LET last == left[len - 1]
                 half == Halves(last.at[1], len)
             IN  IF NetContains(half.lower, exclude) THEN [at |-> half.lower, out |-> last.out]
                 ELSE [at |-> half.upper, out |-> last.out \cup {half.lower}]
  IN  left[exclude[2]].out

(* What is left of a network around one inside of it: a half of every length. *)
AddressExclude(net, exclude) ==
  LET left[len \in net[2]..exclude[2]] ==
        IF len = net[2] THEN [at |-> net, out |-> {}]
        ELSE LET last == left[len - 1]
                 half == Halves(last.at[1], len)
             IN  IF NetContains(half.lower, exclude)
                 THEN [at |-> half.lower, out |-> last.out \cup {half.upper}]
                 ELSE [at |-> half.upper, out |-> last.out \cup {half.lower}]
  IN  left[exclude[2]].out

Subsumed(nets) == {n \in nets : \E o \in nets : o[2] < n[2] /\ NetContains(o, n)}

(* A lower half is merged with its upper one; a net with host bits set is neither. *)
IsLower(n) == n[2] > 0 /\ n[1] = NetworkAddr(n[1], n[2] - 1)
Upper(n) == <<n[1] + Size(n[2]), n[2]>>
MergeSiblings(nets) ==
  LET lower == {n \in nets : IsLower(n) /\ Upper(n) \in nets}
  IN  (nets \ (lower \cup {Upper(n) : n \in lower})) \cup {<<n[1], n[2] - 1>> : n \in lower}

(* Mutant: siblings are merged once. *)
CollapseOnce(nets) == MergeSiblings(nets \ Subsumed(nets))

(* Merging until nothing changes: every round makes shorter networks, so Width do. *)
Collapse(nets) ==
  LET round[i \in 0..Width] == IF i = 0 THEN nets \ Subsumed(nets) ELSE MergeSiblings(round[i - 1])
  IN  round[Width]

-----------------------------------------------------------------------------
(* Sources: [kind, label, prefixes] for "literal", else [kind, label, asks], the    *)
(* asks being ASNs, hostnames or the one country.                                   *)

Asks(source) == IF source.kind = "literal" THEN <<>> ELSE source.asks
Questions(list) == UNION {{<<i, j>> : j \in DOMAIN Asks(list[i])} : i \in DOMAIN list}
Question(q) == cfg[phase][q[1]].asks[q[2]]
Answered == {q \in Questions(cfg[phase]) : <<phase, q>> \in DOMAIN answers}

(* An ASN and a DNS source must have a label; of a country there is a default. *)
LabelOf(source) == IF source.label = NoLabel THEN source.asks[1] ELSE source.label

(* collect_source, once its questions are answered: networks with their labels. *)
Collected(list, i) ==
  LET source == cfg[list][i]
      said(j) == answers[<<list, <<i, j>>>>]
  IN  IF source.kind = "literal"
      THEN [j \in DOMAIN source.prefixes |->
              <<source.prefixes[j].net,
                IF source.prefixes[j].label = NoLabel THEN "" ELSE source.prefixes[j].label>>]
      ELSE FlattenSeq([j \in DOMAIN source.asks |->
             [k \in DOMAIN said(j) |-> <<said(j)[k], LabelOf(source)>>]])

(* Mutant: sources are put together as they answer. *)
EntriesAsAnswered(list) ==
  LET literal == SelectSeq([i \in DOMAIN cfg[list] |-> i],
                           LAMBDA i : cfg[list][i].kind = "literal")
      order == SelectSeq(arrived, LAMBDA a : a[1] = list)
  IN  FlattenSeq([i \in DOMAIN literal |-> Collected(list, literal[i])]
                 \o [i \in DOMAIN order |-> Collected(list, order[i][2][1])])

(* try_join_all keeps the order of the list, whatever the order of the answers. *)
Entries(list) == FlattenSeq([i \in DOMAIN cfg[list] |-> Collected(list, i)])

(* dedupe_and_aggregate: of entries with one network the first has its label, and  *)
(* each label's networks are collapsed by themselves.                              *)
Aggregate(entries) ==
  LET first == {i \in DOMAIN entries :
                  entries[i][1] \in Net /\ \A j \in 1..(i - 1) : entries[j][1] # entries[i][1]}
      labels == {entries[i][2] : i \in first}
      nets(l) == {entries[i][1] : i \in {k \in first : entries[k][2] = l}}
  IN  UNION {Collapse(nets(l)) \X {l} : l \in labels}

(* What one exclusion leaves of some networks. *)
Punch(nets, exclude) ==
  LET kept == {n \in nets : ~NetContains(exclude, n)}
  IN  UNION {IF NetContains(n, exclude) THEN AddressExclude(n, exclude) ELSE {n} : n \in kept}

(* What all of them leave, one after another in the order collapse sorts them: by *)
(* their addresses and, where these are the same, by their lengths.                *)
Nth(i) == <<(i - 1) \div (Width + 1), (i - 1) % (Width + 1)>>
PunchAll(nets, excludes) ==
  LET left[i \in 0..(2^Width * (Width + 1))] ==
        IF i = 0 THEN nets
        ELSE IF Nth(i) \in excludes THEN Punch(left[i - 1], Nth(i)) ELSE left[i - 1]
  IN  left[2^Width * (Width + 1)]

-----------------------------------------------------------------------------

Init ==
  /\ cfg \in Configs
  /\ phase = "idle" /\ asking = {} /\ answers = <<>> /\ included = {}
  /\ result = None /\ arrived = <<>> /\ calls = 0

Start ==
  /\ phase = "idle" /\ calls < MaxCalls
  /\ phase' = "include" /\ calls' = calls + 1
  /\ answers' = <<>> /\ included' = {} /\ result' = None /\ arrived' = <<>>
  /\ UNCHANGED <<cfg, asking>>

(* RIPEstat is asked under a permit, the names of one source are looked up in turn. *)
Ask(q) ==
  LET source == cfg[phase][q[1]]
      ripestat == {a \in asking : cfg[phase][a[1]].kind # "dns"}
  IN  /\ q \notin asking \cup Answered /\ Question(q) \notin BadAsns
      /\ IF source.kind = "dns" THEN \A j \in 1..(q[2] - 1) : <<q[1], j>> \in Answered
         ELSE Cardinality(ripestat) < Permits
      /\ asking' = asking \cup {q}
      /\ UNCHANGED <<cfg, phase, answers, included, result, arrived, calls>>

Answer(q) ==
  /\ q \in asking
  /\ asking' = asking \ {q}
  /\ \E a \in Answers :
       answers' = [k \in DOMAIN answers \cup {<<phase, q>>} |->
                     IF k = <<phase, q>> THEN a ELSE answers[k]]
  /\ arrived' = Append(arrived, <<phase, q>>)
  /\ UNCHANGED <<cfg, phase, included, result, calls>>

(* The call ends without a result, and what is in flight is dropped. *)
Fail ==
  /\ phase' = "idle" /\ asking' = {} /\ result' = None
  /\ UNCHANGED <<cfg, answers, included, arrived, calls>>

(* A request fails or times out, or an ASN or a country is refused. *)
RequestFails(q) == (q \in asking \/ Question(q) \in BadAsns) /\ Fail
TotalTimeout == phase # "idle" /\ Fail

AllAnswered == phase # "idle" /\ Questions(cfg[phase]) = Answered

IncludeResolved ==
  /\ phase = "include" /\ AllAnswered
  /\ LET nets == Aggregate(Entries("include"))
     IN  IF nets = {} THEN Fail
         ELSE /\ phase' = "exclude" /\ included' = nets
              /\ UNCHANGED <<cfg, asking, answers, result, arrived, calls>>

ExcludeResolved ==
  /\ phase = "exclude" /\ AllAnswered
  /\ LET exclude == Collapse({n[1] : n \in Aggregate(Entries("exclude"))})
     IN  result' = UNION {PunchAll({n[1]}, exclude) \X {n[2]} : n \in included}
  /\ phase' = "idle"
  /\ UNCHANGED <<cfg, asking, answers, included, arrived, calls>>

Next ==
  \/ Start \/ TotalTimeout \/ IncludeResolved \/ ExcludeResolved
  \/ phase # "idle" /\ \E q \in Questions(cfg[phase]) : Ask(q) \/ Answer(q) \/ RequestFails(q)

Spec == Init /\ [][Next]_vars

-----------------------------------------------------------------------------
(* Properties.  What the sources say, address by address and in the config's order. *)

Addresses(n) == LET a == NetworkAddr(n[1], n[2]) IN a..(a + Size(n[2]) - 1)
Routed == UNION {Addresses(r[1]) : r \in result}

Told(list) == FlattenSeq([i \in DOMAIN cfg[list] |-> Collected(list, i)])
ToldNets(list) == {Told(list)[i][1] : i \in DOMAIN Told(list)} \cap Net
Covered(list) == UNION {Addresses(n) : n \in ToldNets(list)}

(* Networks without host bits, and lists and answers that have no others: where the
   properties hold, as nothing else clears them. *)
Canonical(n) == n \in Net /\ NetworkAddr(n[1], n[2]) = n[1]
HostBitsClear(configs, said) ==
  /\ \A c \in configs : \A list \in {c.include, c.exclude} :
       \A source \in Range(list) : source.kind = "literal" =>
         \A p \in Range(source.prefixes) : p.net \in Net => Canonical(p.net)
  /\ \A a \in said : \A n \in Range(a) : n \in Net => Canonical(n)

(* A result blackholes what is included and not excluded, no address less and none
   more: "punch every exclusion out of every included prefix" (resolver.rs:293-294). *)
RoutesAreDifference ==
  result # None => Routed = Covered("include") \ Covered("exclude")

(* The label of a blackholed address is that of a network the config's first source
   to name it names it under, whichever source answers first; merging does not take
   an address over to another label (resolver.rs:260-261). *)
LabelsAsListed ==
  result # None =>
    LET told == Told("include")
        first == {i \in DOMAIN told : told[i][1] \in Net
                                      /\ \A j \in DOMAIN told : told[j][1] = told[i][1] => i <= j}
    IN  \A a \in Routed :
          {r[2] : r \in {s \in result : a \in Addresses(s[1])}}
            = {told[i][2] : i \in {j \in first : a \in Addresses(told[j][1])}}

(* The routes of one label neither overlap nor make up a shorter one together, also
   with holes punched into them: bird is given as few as will do. *)
NothingToMerge ==
  result # None =>
    \A r, s \in result :
      r # s /\ r[2] = s[2] =>
        /\ Addresses(r[1]) \cap Addresses(s[1]) = {}
        /\ r[1][2] = s[1][2] /\ r[1][2] > 0 =>
             NetworkAddr(r[1][1], r[1][2] - 1) # NetworkAddr(s[1][1], s[1][2] - 1)

=============================================================================
