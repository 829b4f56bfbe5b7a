-------------------------- MODULE SlipmeshFileProofs --------------------------
(***************************************************************************)
(* What holds of SlipmeshFile for all documents, hosts and draws and any     *)
(* number of edits.                                                          *)
(***************************************************************************)
EXTENDS SlipmeshFile, WellFoundedInduction, TLAPS

Sound(f) == f \in Seq(Range(f)) /\ \A i \in DOMAIN f : WellFormed(f[i])

-----------------------------------------------------------------------------
(* What a run makes of the documents *)

(* Recording changes the obfuscation of an entry and nothing else of it. *)
LEMMA RecordKeeps ==
  ASSUME NEW t, NEW x, NEW drawn, "obfuscation" \in DOMAIN x
  PROVE  /\ DOMAIN Record(t, x, drawn) = DOMAIN x
         /\ \A k \in DOMAIN x : k # "obfuscation" => Record(t, x, drawn)[k] = x[k]
BY DEF Record

(* It is drawn for where neither the entry nor the topology's default says anything. *)
LEMMA RecordDraws ==
  ASSUME NEW t, NEW x, NEW drawn, "obfuscation" \in DOMAIN x
  PROVE  Record(t, x, drawn).obfuscation
              = [f \in ObfuscationFields |->
                   IF x.obfuscation[f] = Unset /\ t.obfuscation[f] = Unset
                   THEN drawn[f] ELSE x.obfuscation[f]]
BY DEF Record

(* The links and pools as they are recorded. *)
RecordedEntry(f, x, at, drawn) ==
  IF at \in DOMAIN drawn THEN Record(TheTopology(f), x, drawn[at]) ELSE x

LEMMA RecordedEntryKeeps ==
  ASSUME NEW f, NEW x, NEW at, NEW drawn, "obfuscation" \in DOMAIN x
  PROVE  /\ DOMAIN RecordedEntry(f, x, at, drawn) = DOMAIN x
         /\ \A k \in DOMAIN x :
              k # "obfuscation" => RecordedEntry(f, x, at, drawn)[k] = x[k]
<1>1. CASE at \in DOMAIN drawn
  <2>1. RecordedEntry(f, x, at, drawn) = Record(TheTopology(f), x, drawn[at])
    BY <1>1 DEF RecordedEntry
  <2> HIDE DEF RecordedEntry
  <2>2. QED
    BY <2>1, RecordKeeps, SMT
<1>2. CASE at \notin DOMAIN drawn
  BY <1>2 DEF RecordedEntry
<1>3. QED
  BY <1>1, <1>2

(* What becomes of a document: of the network's links each for itself, ... *)
LEMMA RecordedNetwork ==
  ASSUME NEW f, NEW drawn, NEW i \in DOMAIN f, WellFormed(f[i]), f[i].kind = "network"
  PROVE  /\ Recorded(f, drawn)[i].kind = "network"
         /\ DOMAIN Recorded(f, drawn)[i] = DOMAIN f[i]
         /\ DOMAIN Recorded(f, drawn)[i].value = DOMAIN f[i].value
         /\ \A k \in DOMAIN f[i].value :
              k # "links" => Recorded(f, drawn)[i].value[k] = f[i].value[k]
         /\ DOMAIN Recorded(f, drawn)[i].value.links = DOMAIN f[i].value.links
         /\ \A j \in DOMAIN f[i].value.links :
              Recorded(f, drawn)[i].value.links[j]
                = RecordedEntry(f, f[i].value.links[j], <<"link", j>>, drawn)
         /\ Recorded(f, drawn)[i].value.links \in Seq(Range(Recorded(f, drawn)[i].value.links))
<1> DEFINE d == f[i]
           links == [j \in DOMAIN d.value.links |->
                       RecordedEntry(f, d.value.links[j], <<"link", j>>, drawn)]
           r == Recorded(f, drawn)[i]
<1>1. r = [d EXCEPT !.value = [d.value EXCEPT !.links = links]]
  BY DEF Recorded, RecordedEntry
<1>2. /\ {"kind", "value"} \subseteq DOMAIN d /\ "links" \in DOMAIN d.value
      /\ d.value.links \in Seq(Range(d.value.links)) /\ d.kind = "network"
  BY DEF WellFormed
<1>3. /\ DOMAIN links = DOMAIN d.value.links
      /\ \A j \in DOMAIN d.value.links :
           links[j] = RecordedEntry(f, d.value.links[j], <<"link", j>>, drawn)
  OBVIOUS
<1>4. links \in Seq(Range(links))
  <2>1. Len(d.value.links) \in Nat /\ DOMAIN d.value.links = 1..Len(d.value.links)
    BY <1>2
  <2>2. \A j \in DOMAIN d.value.links : links[j] \in Range(links)
    BY DEF Range
  <2>3. links = [j \in 1..Len(d.value.links) |-> links[j]]
    BY <2>1
  <2> HIDE DEF links, d
  <2>4. QED
    BY <2>1, <2>2, <2>3, <1>3
<1> HIDE DEF d, links, r
<1>5. r.kind = "network" /\ r.value = [d.value EXCEPT !.links = links] /\ DOMAIN r = DOMAIN d
  BY <1>1, <1>2
<1>6. /\ DOMAIN r.value = DOMAIN d.value /\ r.value.links = links
      /\ \A k \in DOMAIN d.value : k # "links" => r.value[k] = d.value[k]
  BY <1>2, <1>5
<1>7. QED
  BY <1>3, <1>4, <1>5, <1>6 DEF d, r

(* ... and a pool as a whole. *)
LEMMA RecordedPool ==
  ASSUME NEW f, NEW drawn, NEW i \in DOMAIN f, WellFormed(f[i]), f[i].kind = "roadwarriors"
  PROVE  /\ Recorded(f, drawn)[i].kind = "roadwarriors"
         /\ DOMAIN Recorded(f, drawn)[i] = DOMAIN f[i]
         /\ Recorded(f, drawn)[i].value = RecordedEntry(f, f[i].value, <<"pool", i>>, drawn)
<1> DEFINE d == f[i]
           pool == RecordedEntry(f, d.value, <<"pool", i>>, drawn)
           r == Recorded(f, drawn)[i]
<1>1. r = [d EXCEPT !.value = pool]
  BY DEF Recorded, RecordedEntry
<1>2. {"kind", "value"} \subseteq DOMAIN d /\ d.kind = "roadwarriors"
  BY DEF WellFormed
<1> HIDE DEF d, pool, r
<1>3. r.kind = "roadwarriors" /\ r.value = pool /\ DOMAIN r = DOMAIN d
  BY <1>1, <1>2
<1>4. QED
  BY <1>3 DEF d, pool, r

LEMMA RecordedOther ==
  ASSUME NEW f, NEW drawn, NEW i \in DOMAIN f, f[i].kind \notin {"network", "roadwarriors"}
  PROVE  Recorded(f, drawn)[i] = f[i]
BY DEF Recorded

(* A default document is a patch; so nothing but patches is appended. *)
LEMMA Appended ==
  ASSUME NEW f, f \in Seq(Range(f))
  PROVE  LET g == WithDefaults(f)
         IN  /\ g \in Seq(Range(g)) /\ Len(f) <= Len(g)
             /\ \A i \in DOMAIN f : i \in DOMAIN g /\ g[i] = f[i]
             /\ \A i \in DOMAIN g \ DOMAIN f : \E n \in Missing(f) : g[i] = DefaultDocument(n)
<1> DEFINE added(n) == IF n \in Missing(f) THEN <<DefaultDocument(n)>> ELSE <<>>
           first == added("router")
           second == added("nftables")
           g == f \o first \o second
<1>0. g = WithDefaults(f)
  BY DEF WithDefaults
<1>1. \A n : /\ added(n) \in Seq({DefaultDocument(n)})
             /\ \A i \in DOMAIN added(n) : added(n)[i] = DefaultDocument(n) /\ n \in Missing(f)
  <2> SUFFICES ASSUME NEW n
               PROVE  /\ added(n) \in Seq({DefaultDocument(n)})
                      /\ \A i \in DOMAIN added(n) :
                           added(n)[i] = DefaultDocument(n) /\ n \in Missing(f)
    OBVIOUS
  <2>1. CASE n \in Missing(f)
    <3>1. added(n) = <<DefaultDocument(n)>>
      BY <2>1
    <3> HIDE DEF added
    <3>2. QED
      BY <2>1, <3>1
  <2>2. CASE n \notin Missing(f)
    <3>1. added(n) = <<>>
      BY <2>2
    <3> HIDE DEF added
    <3>2. QED
      BY <3>1
  <2>3. QED
    BY <2>1, <2>2
<1> DEFINE all == Range(f) \cup {DefaultDocument("router"), DefaultDocument("nftables")}
<1>2. f \in Seq(all) /\ first \in Seq(all) /\ second \in Seq(all)
  <2>1. first \in Seq({DefaultDocument("router")}) /\ second \in Seq({DefaultDocument("nftables")})
    BY <1>1
  <2> HIDE DEF first, second, added
  <2>2. \A S, T : S \subseteq T => Seq(S) \subseteq Seq(T)
    OBVIOUS
  <2>3. QED
    BY <2>1, <2>2
<1> HIDE DEF first, second, added
<1>3. /\ g \in Seq(all) /\ Len(g) = Len(f) + Len(first) + Len(second)
      /\ \A i \in 1..Len(f) : g[i] = f[i]
      /\ \A i \in 1..Len(first) : g[Len(f) + i] = first[i]
      /\ \A i \in 1..Len(second) : g[Len(f) + Len(first) + i] = second[i]
  BY <1>2
<1> HIDE DEF g, all
<1>4. g \in Seq(Range(g))
  BY <1>3 DEF Range
<1>5. ASSUME NEW i \in DOMAIN g \ DOMAIN f
      PROVE  \E n \in Missing(f) : g[i] = DefaultDocument(n)
  <2>1. CASE i <= Len(f) + Len(first)
    <3>1. i - Len(f) \in 1..Len(first) /\ Len(f) + (i - Len(f)) = i
      BY <1>2, <1>3, <2>1
    <3>2. g[i] = first[i - Len(f)] /\ i - Len(f) \in DOMAIN first
      BY <1>2, <1>3, <3>1
    <3>3. QED
      BY <1>1, <3>2 DEF first
  <2>2. CASE ~(i <= Len(f) + Len(first))
    <3> DEFINE k == i - (Len(f) + Len(first))
    <3>1. k \in 1..Len(second) /\ Len(f) + Len(first) + k = i
      BY <1>2, <1>3, <2>2
    <3>2. g[i] = second[k] /\ k \in DOMAIN second
      BY <1>2, <1>3, <3>1
    <3>3. QED
      BY <1>1, <3>2 DEF second
  <2>3. QED
    BY <2>1, <2>2
<1>6. Len(f) \in Nat /\ DOMAIN f = 1..Len(f) /\ DOMAIN g = 1..Len(g) /\ Len(f) <= Len(g)
  BY <1>2, <1>3
<1>7. QED
  BY <1>0, <1>3, <1>4, <1>5, <1>6

(* Recording keeps documents in their places and leaves patches alone. *)
LEMMA RecordedSound ==
  ASSUME NEW f, Sound(f), NEW drawn
  PROVE  /\ Sound(Recorded(f, drawn)) /\ DOMAIN Recorded(f, drawn) = DOMAIN f
         /\ \A i \in DOMAIN f : Recorded(f, drawn)[i].kind = f[i].kind
         /\ \A i \in Patches(f) : Recorded(f, drawn)[i] = f[i]
<1> DEFINE r == Recorded(f, drawn)
<1>1. Len(f) \in Nat /\ DOMAIN f = 1..Len(f)
  BY DEF Sound
<1>2. DOMAIN r = DOMAIN f /\ r = [i \in DOMAIN f |-> r[i]]
  BY DEF Recorded
<1>3. \A i \in DOMAIN f : r[i].kind = f[i].kind
  <2> SUFFICES ASSUME NEW i \in DOMAIN f
               PROVE  Recorded(f, drawn)[i].kind = f[i].kind
    OBVIOUS
  <2>0. WellFormed(f[i])
    BY DEF Sound
  <2>1. CASE f[i].kind = "network"
    BY <2>0, <2>1, RecordedNetwork
  <2>2. CASE f[i].kind = "roadwarriors"
    BY <2>0, <2>2, RecordedPool
  <2>3. CASE f[i].kind \notin {"network", "roadwarriors"}
    BY <2>3, RecordedOther
  <2>4. QED
    BY <2>1, <2>2, <2>3
<1>4. \A i \in Patches(f) : r[i] = f[i]
  BY RecordedOther DEF Patches, OfKind
<1>5. ASSUME NEW i \in DOMAIN f
      PROVE  WellFormed(r[i])
  <2>0. WellFormed(f[i])
    BY DEF Sound
  <2>1. CASE f[i].kind = "network"
    <3> DEFINE v == f[i].value
               w == r[i].value
    <3>1. /\ DOMAIN r[i] = DOMAIN f[i] /\ DOMAIN w = DOMAIN v
          /\ \A k \in DOMAIN v : k # "links" => w[k] = v[k]
          /\ DOMAIN w.links = DOMAIN v.links /\ w.links \in Seq(Range(w.links))
          /\ \A j \in DOMAIN v.links :
               w.links[j] = RecordedEntry(f, v.links[j], <<"link", j>>, drawn)
      BY <2>0, <2>1, RecordedNetwork
    <3>2. /\ {"nodes", "links", "bypass", "obfuscation"} \subseteq DOMAIN v
          /\ NodeNames(v) \subseteq Hosts /\ v.links \in Seq(Range(v.links))
          /\ \A l \in Range(v.links) : EntryFields \cup {"pair"} \subseteq DOMAIN l
      BY <2>0, <2>1 DEF WellFormed
    <3>3. NodeNames(w) = NodeNames(v)
      BY <3>1, <3>2 DEF NodeNames
    <3> HIDE DEF v, w, r
    <3>6. ASSUME NEW j \in DOMAIN w.links
          PROVE  EntryFields \cup {"pair"} \subseteq DOMAIN w.links[j]
      <4>1. EntryFields \cup {"pair"} \subseteq DOMAIN v.links[j]
        BY <3>1, <3>2 DEF Range
      <4>2. w.links[j] = RecordedEntry(f, v.links[j], <<"link", j>>, drawn)
        BY <3>1
      <4>3. DOMAIN w.links[j] = DOMAIN v.links[j]
        BY <4>1, <4>2, RecordedEntryKeeps DEF EntryFields
      <4>4. QED
        BY <4>1, <4>3
    <3>7. \A l \in Range(w.links) : EntryFields \cup {"pair"} \subseteq DOMAIN l
      BY <3>6 DEF Range
    <3>8. r[i].kind = "network" /\ {"kind", "include", "exclude", "value"} \subseteq DOMAIN r[i]
      BY <2>0, <2>1, <3>1, <1>3 DEF WellFormed
    <3>9. QED
      BY <3>1, <3>2, <3>3, <3>7, <3>8 DEF WellFormed, w
  <2>2. CASE f[i].kind = "roadwarriors"
    <3>1. r[i].value = RecordedEntry(f, f[i].value, <<"pool", i>>, drawn)
          /\ DOMAIN r[i] = DOMAIN f[i] /\ r[i].kind = "roadwarriors"
      BY <2>0, <2>2, RecordedPool
    <3>2. EntryFields \subseteq DOMAIN f[i].value
      BY <2>0, <2>2 DEF WellFormed
    <3>3. DOMAIN r[i].value = DOMAIN f[i].value
      BY <3>1, <3>2, RecordedEntryKeeps DEF EntryFields
    <3> HIDE DEF r
    <3>4. QED
      BY <2>0, <2>2, <3>1, <3>3 DEF WellFormed
  <2>3. CASE f[i].kind \notin {"network", "roadwarriors"}
    BY <2>0, <2>3, RecordedOther
  <2>4. QED
    BY <2>1, <2>2, <2>3
<1>6. r \in Seq(Range(r))
  <2> HIDE DEF r
  <2>1. QED
    BY <1>1, <1>2 DEF Range
<1>7. QED
  BY <1>2, <1>3, <1>4, <1>5, <1>6 DEF Sound

(* What a run writes: patches stay, and defaults are added. *)
After(f, drawn) == WithDefaults(Recorded(f, drawn))

LEMMA AfterShape ==
  ASSUME NEW f, Sound(f), NEW drawn
  PROVE  /\ Sound(After(f, drawn))
         /\ Len(f) <= Len(After(f, drawn))
         /\ \A i \in DOMAIN f : /\ i \in DOMAIN After(f, drawn)
                                /\ After(f, drawn)[i] = Recorded(f, drawn)[i]
         /\ \A i \in DOMAIN After(f, drawn) \ DOMAIN f :
              \E n \in Missing(f) : After(f, drawn)[i] = DefaultDocument(n)
<1> DEFINE r == Recorded(f, drawn)
           g == After(f, drawn)
<1>1. /\ Sound(r) /\ DOMAIN r = DOMAIN f
      /\ \A i \in DOMAIN f : r[i].kind = f[i].kind
      /\ \A i \in Patches(f) : r[i] = f[i]
  BY RecordedSound
<1>2. r \in Seq(Range(r))
  BY <1>1 DEF Sound
<1>3. /\ g \in Seq(Range(g)) /\ Len(r) <= Len(g)
      /\ \A i \in DOMAIN r : i \in DOMAIN g /\ g[i] = r[i]
      /\ \A i \in DOMAIN g \ DOMAIN r : \E n \in Missing(r) : g[i] = DefaultDocument(n)
  BY <1>2, Appended DEF After
<1>4. Patches(r) = Patches(f)
  BY <1>1 DEF Patches, OfKind
<1>5. Missing(r) = Missing(f)
  BY <1>1, <1>4 DEF Missing, SetsFile
<1>6. \A n : WellFormed(DefaultDocument(n))
  BY DEF WellFormed, DefaultDocument
<1>7. \A i \in DOMAIN g : WellFormed(g[i])
  BY <1>1, <1>3, <1>6 DEF Sound
<1>8. Len(r) = Len(f)
  BY <1>1, <1>2 DEF Sound
<1>9. QED
  BY <1>1, <1>3, <1>5, <1>7, <1>8 DEF Sound

(* The topology by the position of the network document. *)
LEMMA TopologyAt ==
  ASSUME NEW f, NEW n, OfKind(f, "network") = {n}
  PROVE  /\ DOMAIN TheTopology(f) = DOMAIN f[n].value \cup {"pools"}
         /\ \A k \in DOMAIN f[n].value : k # "pools" => TheTopology(f)[k] = f[n].value[k]
         /\ DOMAIN TheTopology(f).pools = OfKind(f, "roadwarriors")
         /\ \A i \in OfKind(f, "roadwarriors") : TheTopology(f).pools[i] = f[i].value
<1>1. n = CHOOSE i \in DOMAIN f : f[i].kind = "network"
  BY DEF OfKind
<1> DEFINE v == f[n].value
           p == [i \in OfKind(f, "roadwarriors") |-> f[i].value]
<1>2. TheTopology(f) = [k \in DOMAIN v \cup {"pools"} |-> IF k = "pools" THEN p ELSE v[k]]
  BY <1>1 DEF TheTopology
<1>3. DOMAIN p = OfKind(f, "roadwarriors") /\ \A i \in OfKind(f, "roadwarriors") : p[i] = f[i].value
  OBVIOUS
<1> HIDE DEF v, p
<1>4. /\ DOMAIN TheTopology(f) = DOMAIN v \cup {"pools"}
      /\ \A k \in DOMAIN v : k # "pools" => TheTopology(f)[k] = v[k]
      /\ TheTopology(f).pools = p
  BY <1>2
<1>5. QED
  BY <1>3, <1>4 DEF v

(* The network document and the pools are where they were. *)
LEMMA AfterKinds ==
  ASSUME NEW f, Sound(f), NEW drawn, NEW k, k # "patch"
  PROVE  OfKind(After(f, drawn), k) = OfKind(f, k)
<1> DEFINE g == After(f, drawn)
<1>1. /\ \A i \in DOMAIN f : i \in DOMAIN g /\ g[i].kind = f[i].kind
      /\ \A i \in DOMAIN g \ DOMAIN f : \E n \in Missing(f) : g[i] = DefaultDocument(n)
  BY AfterShape, RecordedSound
<1>2. \A n : DefaultDocument(n).kind = "patch"
  BY DEF DefaultDocument
<1> HIDE DEF g
<1>3. \A i \in DOMAIN g \ DOMAIN f : g[i].kind = "patch"
  BY <1>1, <1>2
<1>4. OfKind(g, k) = OfKind(f, k)
  BY <1>1, <1>3 DEF OfKind
<1>5. QED
  BY <1>4 DEF g

(* A run changes the topology only in what is recorded in its links and pools. *)
LEMMA AfterTopology ==
  ASSUME NEW f, Sound(f), Readable(f), NEW drawn
  PROVE  /\ DOMAIN TheTopology(After(f, drawn)) = DOMAIN TheTopology(f)
         /\ \A k \in DOMAIN TheTopology(f) :
              k \notin {"links", "pools"} =>
                TheTopology(After(f, drawn))[k] = TheTopology(f)[k]
         /\ {"nodes", "links", "bypass", "obfuscation", "pools"} \subseteq DOMAIN TheTopology(f)
         /\ TheTopology(f).links \in Seq(Range(TheTopology(f).links))
         /\ TheTopology(After(f, drawn)).links \in Seq(Range(TheTopology(After(f, drawn)).links))
         /\ DOMAIN TheTopology(After(f, drawn)).links = DOMAIN TheTopology(f).links
         /\ \A j \in DOMAIN TheTopology(f).links :
              /\ EntryFields \cup {"pair"} \subseteq DOMAIN TheTopology(f).links[j]
              /\ TheTopology(After(f, drawn)).links[j]
                   = RecordedEntry(f, TheTopology(f).links[j], <<"link", j>>, drawn)
         /\ DOMAIN TheTopology(After(f, drawn)).pools = DOMAIN TheTopology(f).pools
         /\ \A i \in DOMAIN TheTopology(f).pools :
              /\ EntryFields \cup {"name", "hosts", "addresses", "clients"}
                   \subseteq DOMAIN TheTopology(f).pools[i]
              /\ TheTopology(After(f, drawn)).pools[i]
                   = RecordedEntry(f, TheTopology(f).pools[i], <<"pool", i>>, drawn)
         /\ NodeNames(TheTopology(f)) \subseteq Hosts
<1> DEFINE g == After(f, drawn)
           t == TheTopology(f)
           u == TheTopology(g)
<1>1. PICK n \in DOMAIN f : OfKind(f, "network") = {n}
  BY DEF Readable
<1>2. OfKind(g, "network") = {n} /\ OfKind(g, "roadwarriors") = OfKind(f, "roadwarriors")
  BY <1>1, AfterKinds
<1>3. f[n].kind = "network" /\ WellFormed(f[n])
  BY <1>1 DEF OfKind, Sound
<1>4. /\ DOMAIN t = DOMAIN f[n].value \cup {"pools"}
      /\ \A k \in DOMAIN f[n].value : k # "pools" => t[k] = f[n].value[k]
      /\ DOMAIN t.pools = OfKind(f, "roadwarriors")
      /\ \A i \in OfKind(f, "roadwarriors") : t.pools[i] = f[i].value
  BY <1>1, TopologyAt
<1>5. /\ DOMAIN u = DOMAIN g[n].value \cup {"pools"}
      /\ \A k \in DOMAIN g[n].value : k # "pools" => u[k] = g[n].value[k]
      /\ DOMAIN u.pools = OfKind(f, "roadwarriors")
      /\ \A i \in OfKind(f, "roadwarriors") : u.pools[i] = g[i].value
  <2>1. /\ DOMAIN u.pools = OfKind(g, "roadwarriors")
        /\ \A i \in OfKind(g, "roadwarriors") : u.pools[i] = g[i].value
        /\ DOMAIN u = DOMAIN g[n].value \cup {"pools"}
        /\ \A k \in DOMAIN g[n].value : k # "pools" => u[k] = g[n].value[k]
    BY <1>2, TopologyAt
  <2>2. QED
    BY <1>2, <2>1
<1>6. \A i \in DOMAIN f : g[i] = Recorded(f, drawn)[i]
  BY AfterShape
<1>7. /\ DOMAIN g[n].value = DOMAIN f[n].value
      /\ \A k \in DOMAIN f[n].value : k # "links" => g[n].value[k] = f[n].value[k]
      /\ DOMAIN g[n].value.links = DOMAIN f[n].value.links
      /\ \A j \in DOMAIN f[n].value.links :
           g[n].value.links[j] = RecordedEntry(f, f[n].value.links[j], <<"link", j>>, drawn)
      /\ g[n].value.links \in Seq(Range(g[n].value.links))
  <2>1. g[n] = Recorded(f, drawn)[n]
    BY <1>6
  <2>2. QED
    BY <1>3, <2>1, RecordedNetwork
<1>8. /\ {"nodes", "links", "bypass", "obfuscation"} \subseteq DOMAIN f[n].value
      /\ NodeNames(f[n].value) \subseteq Hosts
      /\ f[n].value.links \in Seq(Range(f[n].value.links))
      /\ \A l \in Range(f[n].value.links) : EntryFields \cup {"pair"} \subseteq DOMAIN l
  BY <1>3 DEF WellFormed
<1>9. ASSUME NEW i \in OfKind(f, "roadwarriors")
      PROVE  /\ EntryFields \cup {"name", "hosts", "addresses", "clients"} \subseteq DOMAIN t.pools[i]
             /\ u.pools[i] = RecordedEntry(f, t.pools[i], <<"pool", i>>, drawn)
  <2>1. i \in DOMAIN f /\ f[i].kind = "roadwarriors" /\ WellFormed(f[i])
    BY DEF OfKind, Sound
  <2>2. EntryFields \cup {"name", "hosts", "addresses", "clients"} \subseteq DOMAIN f[i].value
    BY <2>1 DEF WellFormed
  <2>3. g[i].value = RecordedEntry(f, f[i].value, <<"pool", i>>, drawn)
    BY <1>6, <2>1, RecordedPool
  <2>4. t.pools[i] = f[i].value /\ u.pools[i] = g[i].value
    BY <1>4, <1>5
  <2>5. QED
    BY <2>2, <2>3, <2>4
<1>10. t.nodes = f[n].value.nodes /\ t.links = f[n].value.links /\ u.links = g[n].value.links
  BY <1>4, <1>5, <1>7, <1>8
<1>11. NodeNames(t) = NodeNames(f[n].value)
  BY <1>10 DEF NodeNames
<1>12. \A j \in DOMAIN t.links : t.links[j] \in Range(f[n].value.links)
  BY <1>10 DEF Range
<1> HIDE DEF t, u, g
<1>13. /\ DOMAIN u = DOMAIN t
       /\ \A k \in DOMAIN t : k \notin {"links", "pools"} => u[k] = t[k]
       /\ {"nodes", "links", "bypass", "obfuscation", "pools"} \subseteq DOMAIN t
  BY <1>4, <1>5, <1>7, <1>8
<1>14. /\ t.links \in Seq(Range(t.links)) /\ u.links \in Seq(Range(u.links))
       /\ DOMAIN u.links = DOMAIN t.links
       /\ \A j \in DOMAIN t.links :
            /\ EntryFields \cup {"pair"} \subseteq DOMAIN t.links[j]
            /\ u.links[j] = RecordedEntry(f, t.links[j], <<"link", j>>, drawn)
  BY <1>7, <1>8, <1>10, <1>12
<1>15. QED
  BY <1>4, <1>5, <1>8, <1>9, <1>11, <1>13, <1>14 DEF t, u, g

LEMMA TopologyFunctions ==
  ASSUME NEW f
  PROVE  /\ TheTopology(f) = [k \in DOMAIN TheTopology(f) |-> TheTopology(f)[k]]
         /\ TheTopology(f).pools
              = [i \in DOMAIN TheTopology(f).pools |-> TheTopology(f).pools[i]]
<1> DEFINE v == f[CHOOSE i \in DOMAIN f : f[i].kind = "network"].value
           p == [i \in OfKind(f, "roadwarriors") |-> f[i].value]
<1>1. TheTopology(f) = [k \in DOMAIN v \cup {"pools"} |-> IF k = "pools" THEN p ELSE v[k]]
  BY DEF TheTopology
<1>2. p = [i \in DOMAIN p |-> p[i]]
  OBVIOUS
<1> HIDE DEF v, p
<1>3. TheTopology(f).pools = p
  BY <1>1
<1>4. QED
  BY <1>1, <1>2, <1>3

(* Something of an entry is neither set nor given by the topology's default. *)
Lacks(t, x) == ~x.plain /\ \E k \in Drawn : x.obfuscation[k] = Unset /\ t.obfuscation[k] = Unset

(* What is drawn for an entry is all that it lacks. *)
LEMMA EntrySettled ==
  ASSUME NEW f, NEW drawn \in [Entries(f) -> Fresh], NEW x, NEW at,
         EntryFields \subseteq DOMAIN x, at \in Entries(f) \/ ~Lacks(TheTopology(f), x)
  PROVE  ~Lacks(TheTopology(f), RecordedEntry(f, x, at, drawn))
<1> DEFINE t == TheTopology(f)
<1>0. {"plain", "obfuscation"} \subseteq DOMAIN x
  BY DEF EntryFields
<1>1. CASE at \notin Entries(f)
  BY <1>1 DEF RecordedEntry
<1>2. CASE at \in Entries(f)
  <2> DEFINE d == drawn[at]
             y == Record(t, x, d)
  <2>1. d \in Fresh /\ RecordedEntry(f, x, at, drawn) = y
    BY <1>2 DEF RecordedEntry
  <2>2. \A k \in Drawn : k \in ObfuscationFields /\ d[k] # Unset
    BY <2>1, FreshAssumption DEF ObfuscationFields
  <2>3. y.obfuscation = [k \in ObfuscationFields |->
                           IF x.obfuscation[k] = Unset /\ t.obfuscation[k] = Unset
                           THEN d[k] ELSE x.obfuscation[k]]
    BY <1>0, RecordDraws
  <2>4. \A k \in Drawn : y.obfuscation[k] # Unset \/ t.obfuscation[k] # Unset
    BY <2>2, <2>3
  <2> HIDE DEF t, y, d
  <2>5. QED
    BY <2>1, <2>4 DEF Lacks, t
<1>3. QED
  BY <1>1, <1>2

(* After a run there is nothing left to draw, for whomever it was. *)
LEMMA NothingLeftToDraw ==
  ASSUME NEW f, Sound(f), Readable(f), NEW drawn \in [Entries(f) -> Fresh]
  PROVE  Entries(After(f, drawn)) = {}
<1> DEFINE g == After(f, drawn)
           t == TheTopology(f)
           u == TheTopology(g)
<1>1. u.obfuscation = t.obfuscation
  BY AfterTopology
<1>2. ASSUME NEW j \in DOMAIN u.links
      PROVE  ~Lacks(u, u.links[j])
  <2>1. j \in DOMAIN t.links /\ EntryFields \subseteq DOMAIN t.links[j]
        /\ u.links[j] = RecordedEntry(f, t.links[j], <<"link", j>>, drawn)
    BY AfterTopology
  <2>2. <<"link", j>> \in Entries(f) \/ ~Lacks(t, t.links[j])
    BY <2>1 DEF Entries, Lacks
  <2>3. ~Lacks(t, u.links[j])
    BY <2>1, <2>2, EntrySettled
  <2>4. QED
    BY <1>1, <2>3 DEF Lacks
<1>3. ASSUME NEW i \in DOMAIN u.pools
      PROVE  ~Lacks(u, u.pools[i])
  <2>1. i \in DOMAIN t.pools /\ EntryFields \subseteq DOMAIN t.pools[i]
        /\ u.pools[i] = RecordedEntry(f, t.pools[i], <<"pool", i>>, drawn)
    BY AfterTopology
  <2>2. <<"pool", i>> \in Entries(f) \/ ~Lacks(t, t.pools[i])
    BY <2>1 DEF Entries, Lacks
  <2>3. ~Lacks(t, u.pools[i])
    BY <2>1, <2>2, EntrySettled
  <2>4. QED
    BY <1>1, <2>3 DEF Lacks
<1> HIDE DEF g
<1>4. Entries(g) = {}
  BY <1>2, <1>3 DEF Entries, Lacks
<1>5. QED
  BY <1>4 DEF g

LEMMA SameFunction ==
  ASSUME NEW f, NEW g, f = [x \in DOMAIN f |-> f[x]], g = [x \in DOMAIN g |-> g[x]],
         DOMAIN f = DOMAIN g, \A x \in DOMAIN f : f[x] = g[x]
  PROVE  f = g
OBVIOUS

(* Where nothing is left to draw, a run keeps the topology as it is. *)
LEMMA SettledStays ==
  ASSUME NEW f, Sound(f), Readable(f), NEW drawn \in [Entries(f) -> Fresh], Entries(f) = {}
  PROVE  TheTopology(After(f, drawn)) = TheTopology(f)
<1> DEFINE t == TheTopology(f)
           u == TheTopology(After(f, drawn))
<1>1. \A x, at : RecordedEntry(f, x, at, drawn) = x
  BY DEF RecordedEntry
<1>2. /\ DOMAIN u = DOMAIN t
      /\ \A k \in DOMAIN t : k \notin {"links", "pools"} => u[k] = t[k]
      /\ t.links \in Seq(Range(t.links)) /\ u.links \in Seq(Range(u.links))
      /\ DOMAIN u.links = DOMAIN t.links
      /\ \A j \in DOMAIN t.links :
           u.links[j] = RecordedEntry(f, t.links[j], <<"link", j>>, drawn)
      /\ DOMAIN u.pools = DOMAIN t.pools
      /\ \A i \in DOMAIN t.pools :
           u.pools[i] = RecordedEntry(f, t.pools[i], <<"pool", i>>, drawn)
  BY AfterTopology
<1>3. /\ t = [k \in DOMAIN t |-> t[k]] /\ u = [k \in DOMAIN u |-> u[k]]
      /\ t.pools = [i \in DOMAIN t.pools |-> t.pools[i]]
      /\ u.pools = [i \in DOMAIN u.pools |-> u.pools[i]]
  BY TopologyFunctions
<1> HIDE DEF t, u
<1>4. u.pools = t.pools
  <2>1. DOMAIN u.pools = DOMAIN t.pools /\ \A i \in DOMAIN t.pools : u.pools[i] = t.pools[i]
    BY <1>1, <1>2
  <2>2. QED
    BY <1>3, <2>1, SameFunction
<1>5. u.links = t.links
  <2>1. DOMAIN u.links = DOMAIN t.links /\ \A j \in DOMAIN t.links : u.links[j] = t.links[j]
    BY <1>1, <1>2
  <2>2. /\ t.links = [j \in DOMAIN t.links |-> t.links[j]]
        /\ u.links = [j \in DOMAIN u.links |-> u.links[j]]
    BY <1>2
  <2>3. QED
    BY <2>1, <2>2, SameFunction
<1>6. \A k \in DOMAIN t : u[k] = t[k]
  BY <1>2, <1>4, <1>5
<1>7. QED
  BY <1>2, <1>3, <1>6 DEF t, u

-----------------------------------------------------------------------------
(* What holds of a patch file *)

(* A run leaves a valid topology valid, with the nodes it had. *)
LEMMA AfterValid ==
  ASSUME NEW f, Sound(f), Readable(f), NEW drawn
  PROVE  /\ Validate(TheTopology(After(f, drawn)))
         /\ NodeNames(TheTopology(After(f, drawn))) = NodeNames(TheTopology(f))
<1> DEFINE t == TheTopology(f)
           u == TheTopology(After(f, drawn))
<1>1. u.nodes = t.nodes /\ u.bypass = t.bypass
  BY AfterTopology
<1>2. /\ DOMAIN u.links = DOMAIN t.links
      /\ \A j \in DOMAIN t.links :
           u.links[j].pair = t.links[j].pair /\ u.links[j].port = t.links[j].port
  <2> SUFFICES ASSUME NEW j \in DOMAIN t.links
               PROVE  u.links[j].pair = t.links[j].pair /\ u.links[j].port = t.links[j].port
    BY AfterTopology
  <2>1. /\ {"pair", "port", "obfuscation"} \subseteq DOMAIN t.links[j]
        /\ u.links[j] = RecordedEntry(f, t.links[j], <<"link", j>>, drawn)
    BY AfterTopology DEF EntryFields
  <2>2. QED
    BY <2>1, RecordedEntryKeeps
<1>3. /\ DOMAIN u.pools = DOMAIN t.pools
      /\ \A i \in DOMAIN t.pools :
           /\ u.pools[i].name = t.pools[i].name /\ u.pools[i].hosts = t.pools[i].hosts
           /\ u.pools[i].port = t.pools[i].port /\ u.pools[i].clients = t.pools[i].clients
  <2> SUFFICES ASSUME NEW i \in DOMAIN t.pools
               PROVE  /\ u.pools[i].name = t.pools[i].name /\ u.pools[i].hosts = t.pools[i].hosts
                      /\ u.pools[i].port = t.pools[i].port
                      /\ u.pools[i].clients = t.pools[i].clients
    BY AfterTopology
  <2>1. /\ {"name", "hosts", "port", "clients", "obfuscation"} \subseteq DOMAIN t.pools[i]
        /\ u.pools[i] = RecordedEntry(f, t.pools[i], <<"pool", i>>, drawn)
    BY AfterTopology DEF EntryFields
  <2>2. QED
    BY <2>1, RecordedEntryKeeps
<1>4. Validate(t)
  BY DEF Readable
<1> HIDE DEF t, u
<1>5. NodeNames(u) = NodeNames(t)
  BY <1>1 DEF NodeNames
<1>6. \A n : LinksOf(u, n) = LinksOf(t, n)
  BY <1>2 DEF LinksOf, Ends
<1>7. \A n : PoolsOf(u, n) = PoolsOf(t, n)
  BY <1>3 DEF PoolsOf
<1>8. \A n \in NodeNames(u) : PortsDistinct(u, n)
  <2> SUFFICES ASSUME NEW n \in NodeNames(t)
               PROVE  PortsDistinct(u, n)
    BY <1>5
  <2>1. PortsDistinct(t, n)
    BY <1>4 DEF Validate
  <2>2. LinksOf(t, n) \subseteq DOMAIN t.links /\ PoolsOf(t, n) \subseteq DOMAIN t.pools
    BY DEF LinksOf, PoolsOf
  <2>3. QED
    BY <1>2, <1>3, <1>6, <1>7, <2>1, <2>2 DEF PortsDistinct
<1>9. \A l \in Range(u.links) : Ends(l) \subseteq NodeNames(u) /\ l.pair[1] # l.pair[2]
  <2>1. \A j \in DOMAIN t.links : /\ Ends(t.links[j]) \subseteq NodeNames(t)
                                  /\ t.links[j].pair[1] # t.links[j].pair[2]
    BY <1>4 DEF Validate, Range
  <2>2. QED
    BY <1>2, <1>5, <2>1 DEF Range, Ends
<1>10. Distinct(u.pools, "name")
  BY <1>3, <1>4 DEF Validate, Distinct
<1>11. \A p \in Range(u.pools) :
         /\ p.hosts # <<>> /\ Range(p.hosts) \subseteq NodeNames(u)
         /\ IsInjective(p.hosts) /\ Distinct(p.clients, "key")
  <2>1. \A i \in DOMAIN t.pools :
          /\ t.pools[i].hosts # <<>> /\ Range(t.pools[i].hosts) \subseteq NodeNames(t)
          /\ IsInjective(t.pools[i].hosts) /\ Distinct(t.pools[i].clients, "key")
    BY <1>4 DEF Validate, Range
  <2>2. \A i \in DOMAIN u.pools :
          /\ u.pools[i].hosts # <<>> /\ Range(u.pools[i].hosts) \subseteq NodeNames(u)
          /\ IsInjective(u.pools[i].hosts) /\ Distinct(u.pools[i].clients, "key")
    BY <1>3, <1>5, <2>1
  <2>3. QED
    BY <2>2 DEF Range
<1>12. Validate(u)
  BY <1>1, <1>4, <1>5, <1>8, <1>9, <1>10, <1>11 DEF Validate
<1>13. QED
  BY <1>5, <1>12 DEF t, u

(* The interfaces to other nodes are those of the node's links. *)
MeshOf(cfg) == {i \in Range(cfg.interfaces) : i.name[1] = "mesh"}

LEMMA MeshInterfaces ==
  ASSUME NEW t, NEW n
  PROVE  MeshOf(AwgConfig(t, n)) = {MeshInterface(t, n, k) : k \in LinksOf(t, n)}
<1> DEFINE keys == ({"mesh"} \X LinksOf(t, n)) \cup ({"rw"} \X PoolsOf(t, n))
           ifaces == Interfaces(t, n)
<1>1. DOMAIN ifaces = keys
  BY DEF Interfaces
<1>2. \A k \in LinksOf(t, n) : /\ <<"mesh", k>> \in keys
                               /\ ifaces[<<"mesh", k>>] = MeshInterface(t, n, k)
  BY DEF Interfaces
<1>3. \A k \in PoolsOf(t, n) : ifaces[<<"rw", k>>] = PoolInterface(t, t.pools[k])
  BY DEF Interfaces
<1>4. \A k : MeshInterface(t, n, k).name[1] = "mesh"
  BY DEF MeshInterface
<1>5. \A p : PoolInterface(t, p).name[1] # "mesh"
  BY DEF PoolInterface
<1>6. \A key \in keys : (\E k \in LinksOf(t, n) : key = <<"mesh", k>>)
                        \/ (\E k \in PoolsOf(t, n) : key = <<"rw", k>>)
  OBVIOUS
<1>7. AwgConfig(t, n).interfaces = ifaces
  BY DEF AwgConfig
<1> HIDE DEF ifaces, keys
<1>8. MeshOf(AwgConfig(t, n)) = {i \in {ifaces[key] : key \in keys} : i.name[1] = "mesh"}
  BY <1>1, <1>7 DEF MeshOf, Range
<1>9. ASSUME NEW key \in keys, ifaces[key].name[1] = "mesh"
      PROVE  \E k \in LinksOf(t, n) : ifaces[key] = MeshInterface(t, n, k)
  BY <1>2, <1>3, <1>5, <1>6, <1>9
<1>10. ASSUME NEW k \in LinksOf(t, n)
       PROVE  \E key \in keys : ifaces[key] = MeshInterface(t, n, k)
                                /\ ifaces[key].name[1] = "mesh"
  BY <1>2, <1>4
<1>11. QED
  BY <1>8, <1>9, <1>10

(* A link has two ends, each other's peers. *)
LEMMA LinkPeers ==
  ASSUME NEW t, Validate(t), NEW n, NEW k \in LinksOf(t, n)
  PROVE  LET m == PeerOf(t.links[k], n)
         IN  k \in LinksOf(t, m) /\ PeerOf(t.links[k], m) = n
<1>1. k \in DOMAIN t.links /\ t.links[k].pair[1] # t.links[k].pair[2]
  BY DEF Validate, LinksOf, Range
<1>2. n = t.links[k].pair[1] \/ n = t.links[k].pair[2]
  BY DEF LinksOf, Ends
<1>3. QED
  BY <1>1, <1>2 DEF LinksOf, Ends, PeerOf

(* Two interfaces of a valid config to one node are one. *)
LEMMA OneInterfacePerPeer ==
  ASSUME NEW t, NEW n, AwgValid(AwgConfig(t, n)),
         NEW j \in LinksOf(t, n), NEW k \in LinksOf(t, n),
         PeerOf(t.links[j], n) = PeerOf(t.links[k], n)
  PROVE  j = k
<1>1. /\ <<"mesh", j>> \in DOMAIN Interfaces(t, n) /\ <<"mesh", k>> \in DOMAIN Interfaces(t, n)
      /\ Interfaces(t, n)[<<"mesh", j>>] = MeshInterface(t, n, j)
      /\ Interfaces(t, n)[<<"mesh", k>>] = MeshInterface(t, n, k)
  BY DEF Interfaces
<1>2. MeshInterface(t, n, j).name = MeshInterface(t, n, k).name
  BY DEF MeshInterface
<1>3. AwgConfig(t, n).interfaces = Interfaces(t, n)
  BY DEF AwgConfig
<1>4. \A a, b \in DOMAIN Interfaces(t, n) :
        Interfaces(t, n)[a].name = Interfaces(t, n)[b].name => a = b
  BY <1>3 DEF AwgValid
<1>5. <<"mesh", j>> = <<"mesh", k>>
  BY <1>1, <1>2, <1>4
<1>6. QED
  BY <1>5

(* What EndsFit says of two nodes, of configs rendered from one topology. *)
LEMMA RenderedEndsFit ==
  ASSUME NEW t, Validate(t), NEW h, NEW g, AwgValid(AwgConfig(t, g)),
         NEW i \in MeshOf(AwgConfig(t, h)), i.name[2] = g
  PROVE  \E j \in MeshOf(AwgConfig(t, g)) :
           /\ \A k \in MeshOf(AwgConfig(t, g)) : k.name[2] = h <=> k = j
           /\ j.port = i.port /\ j.obfuscation = i.obfuscation
           /\ i.peers[1].key = PublicKey(j.key)
           /\ i.peers[1].endpoint # Unset => i.peers[1].endpoint[2] = j.port
<1>1. PICK k \in LinksOf(t, h) : i = MeshInterface(t, h, k)
  BY MeshInterfaces
<1>2. PeerOf(t.links[k], h) = g
  BY <1>1 DEF MeshInterface
<1>3. k \in LinksOf(t, g) /\ PeerOf(t.links[k], g) = h
  BY <1>2, LinkPeers
<1> DEFINE j == MeshInterface(t, g, k)
<1>4. j \in MeshOf(AwgConfig(t, g))
  BY <1>3, MeshInterfaces
<1>5. ASSUME NEW x \in MeshOf(AwgConfig(t, g))
      PROVE  x.name[2] = h <=> x = j
  <2>1. PICK l \in LinksOf(t, g) : x = MeshInterface(t, g, l)
    BY MeshInterfaces
  <2>2. x.name[2] = PeerOf(t.links[l], g) /\ j.name[2] = h
    BY <1>3, <2>1 DEF MeshInterface
  <2>3. CASE x.name[2] = h
    BY <1>3, <2>1, <2>2, <2>3, OneInterfacePerPeer
  <2>4. CASE x = j
    BY <2>2, <2>4
  <2>5. QED
    BY <2>3, <2>4
<1>6. j.port = i.port /\ j.obfuscation = i.obfuscation
  BY <1>1 DEF MeshInterface
<1>7. i.peers[1].key = PublicKey(j.key)
  BY <1>1, <1>2 DEF MeshInterface
<1>8. i.peers[1].endpoint # Unset => i.peers[1].endpoint[2] = j.port
  BY <1>1, <1>2 DEF MeshInterface
<1> HIDE DEF j
<1>9. QED
  BY <1>4, <1>5, <1>6, <1>7, <1>8

(* What NodesMeet says of two nodes, of configs rendered from one topology. *)
LEMMA RenderedSessionsMeet ==
  ASSUME NEW t, NEW h \in NodeNames(t), NEW g \in NodeNames(t), h # g
  PROVE  \E s \in BirdContext(RouterConfig(t, h)).sessions,
            r \in BirdContext(RouterConfig(t, g)).sessions :
           s.from = r.to /\ s.to = r.from /\ s.to = RouterConfig(t, g).loopbacks.v6
<1> DEFINE session(x, y) == [from |-> NodeLoopbacks(t, x).v6, to |-> NodeLoopbacks(t, y).v6]
<1>1. ASSUME NEW x \in NodeNames(t), NEW y \in NodeNames(t), x # y
      PROVE  session(x, y) \in BirdContext(RouterConfig(t, x)).sessions
  <2>1. [name |-> y, address |-> NodeLoopbacks(t, y).v6] \in RouterConfig(t, x).peers
    BY <1>1 DEF RouterConfig, BgpPeers
  <2>2. RouterConfig(t, x).loopbacks = NodeLoopbacks(t, x)
    BY DEF RouterConfig
  <2>3. BirdContext(RouterConfig(t, x)).sessions
          = {[from |-> RouterConfig(t, x).loopbacks.v6, to |-> p.address] :
               p \in RouterConfig(t, x).peers}
    BY DEF BirdContext
  <2>4. QED
    BY <2>1, <2>2, <2>3
<1>2. /\ session(h, g) \in BirdContext(RouterConfig(t, h)).sessions
      /\ session(g, h) \in BirdContext(RouterConfig(t, g)).sessions
  BY <1>1
<1>3. session(h, g).to = RouterConfig(t, g).loopbacks.v6
  BY DEF RouterConfig
<1>4. QED
  BY <1>2, <1>3

LEMMA RenderedMetrics ==
  ASSUME NEW t, NEW h,
         NEW m \in {AwgConfig(t, h).metrics, RouterConfig(t, h).metrics} \ {Unset}
  PROVE  m[1] = RouterConfig(t, h).loopbacks.v4
<1>1. m = Metrics(t, h, t.awg_port) \/ m = Metrics(t, h, t.router_port)
  BY DEF AwgConfig, RouterConfig
<1>2. m[1] = NodeLoopbacks(t, h).v4
  BY <1>1 DEF Metrics
<1>3. QED
  BY <1>2 DEF RouterConfig

-----------------------------------------------------------------------------
(* The patches written since the last edit are of the file there is.  A run that is
   for one host may draw obfuscation for others; the patches that were written before
   it stay true, since the first run after an edit leaves nothing to be drawn.      *)

FileInv ==
  /\ edits \in Nat
  /\ Sound(file)
  /\ \A i \in Patches(file) : file[i] \in Written \cup DefaultDocuments

IsOfTheFile(h) ==
  /\ h \in NodeNames(TheTopology(file)) /\ NodeRenders(TheTopology(file), h)
  /\ patch[h].awg.config = AwgConfig(TheTopology(file), h)
  /\ patch[h].router.config = RouterConfig(TheTopology(file), h)

CurrentInv ==
  /\ FileInv
  /\ fresh # {} => Entries(file) = {} /\ Validate(TheTopology(file))
  /\ \A h \in fresh : IsOfTheFile(h)

LEMMA CurrentInit == Init => CurrentInv
<1> SUFFICES ASSUME Init PROVE CurrentInv
  OBVIOUS
<1>1. file \in Seq(Range(file)) /\ \A i \in DOMAIN file : file[i] \in Written
  BY DocumentAssumption DEF Init, Written, Range
<1>2. \A i \in DOMAIN file : WellFormed(file[i])
  BY <1>1, DocumentAssumption
<1>3. QED
  BY <1>1, <1>2 DEF Init, CurrentInv, FileInv, Sound, Patches, OfKind

(* The run, as the choice of what it draws. *)
LEMMA GenerateDraws ==
  ASSUME NEW targets, Generate(targets)
  PROVE  /\ Readable(file) /\ targets \subseteq NodeNames(TheTopology(file))
         /\ fresh' = fresh \cup targets /\ edits' = edits
         /\ \E drawn \in [Entries(file) -> Fresh] :
              /\ file' = After(file, drawn)
              /\ \A h \in targets : HostRenders(After(file, drawn), h)
              /\ patch' = [h \in Hosts |-> IF h \in targets
                                           THEN PatchFile(After(file, drawn), h) ELSE patch[h]]
BY DEF Generate, After

LEMMA FileGenerate ==
  ASSUME FileInv, NEW targets, Generate(targets)
  PROVE  FileInv'
<1>1. PICK drawn \in [Entries(file) -> Fresh] : file' = After(file, drawn)
  BY GenerateDraws
<1>2. Sound(file)
  BY DEF FileInv
<1>3. Sound(file')
  BY <1>1, <1>2, AfterShape
<1>4. ASSUME NEW i \in Patches(file')
      PROVE  file'[i] \in Written \cup DefaultDocuments
  <2>0. i \in DOMAIN file' /\ file'[i].kind = "patch"
    BY DEF Patches, OfKind
  <2>1. CASE i \in DOMAIN file
    <3>1. file'[i] = Recorded(file, drawn)[i]
      BY <1>1, <1>2, <2>1, AfterShape
    <3>2. file[i].kind = "patch"
      BY <1>2, <2>0, <2>1, <3>1, RecordedSound
    <3>3. i \in Patches(file) /\ file'[i] = file[i]
      BY <1>2, <2>1, <3>1, <3>2, RecordedSound DEF Patches, OfKind
    <3>4. QED
      BY <3>3 DEF FileInv
  <2>2. CASE i \notin DOMAIN file
    <3>1. \E n \in Missing(file) : file'[i] = DefaultDocument(n)
      BY <1>1, <1>2, <2>0, <2>2, AfterShape
    <3>2. QED
      BY <3>1 DEF DefaultDocuments, Missing
  <2>3. QED
    BY <2>1, <2>2
<1>5. edits' \in Nat
  BY GenerateDraws DEF FileInv
<1>6. QED
  BY <1>3, <1>4, <1>5 DEF FileInv

(* An edited file consists of what it did and of what the operator may write. *)
LEMMA FileEdit ==
  ASSUME FileInv, NEW f \in Seq(Range(file) \cup Documents), Edit(f)
  PROVE  FileInv'
<1>1. f \in Seq(Range(f)) /\ \A i \in DOMAIN f : f[i] \in Range(file) \cup Documents
  BY DEF Range
<1>2. \A d \in Range(file) : /\ WellFormed(d)
                             /\ d.kind = "patch" => d \in Written \cup DefaultDocuments
  BY DEF FileInv, Sound, Range, Patches, OfKind
<1>3. \A d \in Documents : d \in Written /\ WellFormed(d)
  BY DocumentAssumption DEF Written
<1>4. \A i \in DOMAIN f : /\ WellFormed(f[i])
                          /\ f[i].kind = "patch" => f[i] \in Written \cup DefaultDocuments
  <2> SUFFICES ASSUME NEW i \in DOMAIN f
               PROVE  /\ WellFormed(f[i])
                      /\ f[i].kind = "patch" => f[i] \in Written \cup DefaultDocuments
    OBVIOUS
  <2>1. CASE f[i] \in Range(file)
    BY <1>2, <2>1
  <2>2. CASE f[i] \in Documents
    BY <1>3, <2>2
  <2>3. QED
    BY <1>1, <2>1, <2>2
<1>5. QED
  BY <1>1, <1>4 DEF Edit, FileInv, Sound, Patches, OfKind

LEMMA EditedFile ==
  ASSUME FileInv
  PROVE  /\ \A d \in Documents, i \in 1..Len(file) + 1 :
              InsertAt(file, i, d) \in Seq(Range(file) \cup Documents)
         /\ \A d \in Documents, i \in DOMAIN file :
              ReplaceAt(file, i, d) \in Seq(Range(file) \cup Documents)
         /\ \A i \in DOMAIN file : RemoveAt(file, i) \in Seq(Range(file) \cup Documents)
<1> DEFINE S == Range(file) \cup Documents
<1>1. file \in Seq(S)
  <2>1. file \in Seq(Range(file))
    BY DEF FileInv, Sound
  <2>2. QED
    BY <2>1
<1> HIDE DEF S
<1>2. Len(file) \in Nat /\ DOMAIN file = 1..Len(file)
  BY <1>1
<1>3. \A i, j \in Int : 1 <= i /\ j <= Len(file) => SubSeq(file, i, j) \in Seq(S)
  BY <1>1
<1>4. ASSUME NEW d \in S, NEW i \in 1..Len(file) + 1
      PROVE  InsertAt(file, i, d) \in Seq(S)
  <2>1. SubSeq(file, 1, i - 1) \in Seq(S) /\ SubSeq(file, i, Len(file)) \in Seq(S)
    BY <1>2, <1>3
  <2>2. QED
    BY <2>1 DEF InsertAt
<1>5. ASSUME NEW i \in DOMAIN file
      PROVE  RemoveAt(file, i) \in Seq(S)
  <2>1. SubSeq(file, 1, i - 1) \in Seq(S) /\ SubSeq(file, i + 1, Len(file)) \in Seq(S)
    BY <1>2, <1>3
  <2>2. QED
    BY <2>1 DEF RemoveAt
<1>6. \A d \in S, i \in DOMAIN file : ReplaceAt(file, i, d) \in Seq(S)
  BY <1>1, <1>2 DEF ReplaceAt
<1>7. QED
  BY <1>4, <1>5, <1>6 DEF S

LEMMA FileStep == FileInv /\ [Next]_vars => FileInv'
<1> SUFFICES ASSUME FileInv, [Next]_vars
             PROVE  FileInv'
  OBVIOUS
<1>1. ASSUME NEW targets, Generate(targets)
      PROVE  FileInv'
  BY <1>1, FileGenerate
<1>2. ASSUME NEW d \in Documents, NEW i \in 1..Len(file) + 1, Insert(i, d)
      PROVE  FileInv'
  BY <1>2, FileEdit, EditedFile DEF Insert
<1>3. ASSUME NEW d \in Documents, NEW i \in DOMAIN file, Rewrite(i, d)
      PROVE  FileInv'
  BY <1>3, FileEdit, EditedFile DEF Rewrite
<1>4. ASSUME NEW i \in DOMAIN file, Delete(i)
      PROVE  FileInv'
  BY <1>4, FileEdit, EditedFile DEF Delete
<1>5. CASE UNCHANGED vars
  BY <1>5 DEF vars, FileInv
<1>6. QED
  BY <1>1, <1>2, <1>3, <1>4, <1>5 DEF Next

LEMMA CurrentGenerate ==
  ASSUME CurrentInv, NEW targets, Generate(targets)
  PROVE  CurrentInv'
<1>0. FileInv'
  BY FileGenerate DEF CurrentInv
<1>1. /\ Readable(file) /\ targets \subseteq NodeNames(TheTopology(file))
      /\ fresh' = fresh \cup targets /\ Sound(file)
  BY GenerateDraws DEF CurrentInv, FileInv
<1>2. PICK drawn \in [Entries(file) -> Fresh] :
        /\ file' = After(file, drawn)
        /\ \A h \in targets : HostRenders(After(file, drawn), h)
        /\ patch' = [h \in Hosts |-> IF h \in targets
                                     THEN PatchFile(After(file, drawn), h) ELSE patch[h]]
  BY GenerateDraws
<1> DEFINE t == TheTopology(file)
           u == TheTopology(file')
<1>3. Entries(file') = {} /\ Validate(u) /\ NodeNames(u) = NodeNames(t)
  BY <1>1, <1>2, NothingLeftToDraw, AfterValid
<1>4. fresh # {} => u = t
  BY <1>1, <1>2, SettledStays DEF CurrentInv
<1>5. NodeNames(t) \subseteq Hosts
  BY <1>1, AfterTopology
<1>6. ASSUME NEW h \in targets
      PROVE  IsOfTheFile(h)'
  <2>1. h \in Hosts /\ h \in NodeNames(u) /\ NodeRenders(u, h)
    BY <1>1, <1>2, <1>3, <1>5 DEF HostRenders
  <2>2. patch'[h] = PatchFile(file', h)
    BY <1>2, <2>1
  <2>3. patch'[h].awg.config = AwgConfig(u, h) /\ patch'[h].router.config = RouterConfig(u, h)
    BY <2>2 DEF PatchFile
  <2>4. QED
    BY <2>1, <2>3 DEF IsOfTheFile
<1>7. ASSUME NEW h \in fresh, h \notin targets
      PROVE  IsOfTheFile(h)'
  <2>1. IsOfTheFile(h) /\ u = t
    BY <1>4 DEF CurrentInv
  <2>2. h \in Hosts
    BY <1>5, <2>1 DEF IsOfTheFile
  <2>3. patch'[h] = patch[h]
    BY <1>2, <1>7, <2>2
  <2>4. QED
    BY <2>1, <2>3 DEF IsOfTheFile
<1>8. \A h \in fresh' : IsOfTheFile(h)'
  BY <1>1, <1>6, <1>7
<1>9. QED
  BY <1>0, <1>3, <1>8 DEF CurrentInv

LEMMA CurrentStep == CurrentInv /\ [Next]_vars => CurrentInv'
<1> SUFFICES ASSUME CurrentInv, [Next]_vars
             PROVE  CurrentInv'
  OBVIOUS
<1>0. FileInv'
  BY FileStep DEF CurrentInv
<1>1. ASSUME NEW targets, Generate(targets)
      PROVE  CurrentInv'
  BY <1>1, CurrentGenerate
<1>2. ASSUME NEW f, Edit(f)
      PROVE  CurrentInv'
  BY <1>0, <1>2 DEF Edit, CurrentInv
<1>3. CASE UNCHANGED vars
  BY <1>0, <1>3 DEF vars, CurrentInv, IsOfTheFile
<1>4. QED
  BY <1>1, <1>2, <1>3 DEF Next, Insert, Rewrite, Delete

(* The two ends of a link fit, whatever was edited before and whichever runs wrote them. *)
THEOREM EndsAlwaysFit == Spec => []EndsFit
<1>1. CurrentInv => EndsFit
  <2> SUFFICES ASSUME CurrentInv, NEW h \in fresh, NEW g \in fresh,
                      NEW i \in Links(h), i.name[2] = g
               PROVE  \E j \in Links(g) :
                        /\ \A k \in Links(g) : k.name[2] = h <=> k = j
                        /\ j.port = i.port /\ j.obfuscation = i.obfuscation
                        /\ i.peers[1].key = PublicKey(j.key)
                        /\ i.peers[1].endpoint # Unset => i.peers[1].endpoint[2] = j.port
    BY DEF EndsFit
  <2> DEFINE t == TheTopology(file)
  <2>1. Validate(t) /\ AwgValid(AwgConfig(t, g))
    BY DEF CurrentInv, IsOfTheFile, NodeRenders
  <2>2. Links(h) = MeshOf(AwgConfig(t, h)) /\ Links(g) = MeshOf(AwgConfig(t, g))
    BY DEF CurrentInv, IsOfTheFile, Links, MeshOf
  <2> HIDE DEF t
  <2>3. QED
    BY <2>1, <2>2, RenderedEndsFit
<1>2. QED
  BY <1>1, CurrentInit, CurrentStep, PTL DEF Spec

(* Every two nodes written since the last edit have BGP sessions that meet, and serve
   metrics where they can be reached. *)
THEOREM NodesAlwaysMeet == Spec => []NodesMeet
<1>1. CurrentInv => NodesMeet
  <2> SUFFICES ASSUME CurrentInv, NEW h \in fresh, NEW g \in fresh
               PROVE  /\ h # g => \E s \in Bird(h).sessions, r \in Bird(g).sessions :
                                    /\ s.from = r.to /\ s.to = r.from
                                    /\ s.to = patch[g].router.config.loopbacks.v6
                      /\ \A m \in {patch[h].awg.config.metrics,
                                   patch[h].router.config.metrics} \ {Unset} :
                           m[1] = patch[h].router.config.loopbacks.v4
    BY DEF NodesMeet
  <2> DEFINE t == TheTopology(file)
  <2>1. /\ h \in NodeNames(t) /\ g \in NodeNames(t)
        /\ patch[h].awg.config = AwgConfig(t, h)
        /\ patch[h].router.config = RouterConfig(t, h)
        /\ patch[g].router.config = RouterConfig(t, g)
    BY DEF CurrentInv, IsOfTheFile
  <2> HIDE DEF t
  <2>2. h # g => \E s \in Bird(h).sessions, r \in Bird(g).sessions :
                   /\ s.from = r.to /\ s.to = r.from
                   /\ s.to = patch[g].router.config.loopbacks.v6
    BY <2>1, RenderedSessionsMeet DEF Bird
  <2>3. \A m \in {patch[h].awg.config.metrics, patch[h].router.config.metrics} \ {Unset} :
          m[1] = patch[h].router.config.loopbacks.v4
    BY <2>1, RenderedMetrics
  <2>4. QED
    BY <2>2, <2>3
<1>2. QED
  BY <1>1, CurrentInit, CurrentStep, PTL DEF Spec

-----------------------------------------------------------------------------
(* Merging *)

LEMMA Least ==
  ASSUME NEW S, S \subseteq Nat, S # {}
  PROVE  \E n \in S : \A m \in S : n <= m
<1>1. PICK n \in S : \A m \in S : ~(<<m, n>> \in OpToRel(<, Nat))
  BY WFMin, NatLessThanWellFounded
<1>2. \A m \in S : ~(m < n)
  BY <1>1 DEF OpToRel
<1>3. QED
  BY <1>2

(* Induction, for the set of numbers of which something holds. *)
LEMMA Induction ==
  ASSUME NEW S, 0 \in S, \A n \in Nat : n \in S => n + 1 \in S
  PROVE  Nat \subseteq S
<1> SUFFICES ASSUME Nat \ S # {} PROVE FALSE
  OBVIOUS
<1>1. PICK n \in Nat \ S : \A m \in Nat \ S : n <= m
  BY Least
<1>2. n # 0 /\ n - 1 \in Nat
  OBVIOUS
<1>3. n - 1 \in S /\ n - 1 + 1 = n
  BY <1>1, <1>2
<1>4. QED
  BY <1>2, <1>3

MergeStep(base, f, S, m, i) ==
  IF i = 0 THEN base
  ELSE IF i \notin S THEN m[i - 1]
  ELSE IF m[i - 1] = Absent THEN f[i] ELSE MergeDocument(m[i - 1], f[i])

LEMMA MergedExists ==
  ASSUME NEW base, NEW f, Len(f) \in Nat, NEW S
  PROVE  \E m : /\ m = [i \in 0..Len(f) |-> MergeStep(base, f, S, m, i)]
                /\ MergeOnto(base, f, S) = m[Len(f)]
<1> DEFINE Upto(n) == \E m : m = [i \in 0..n |-> MergeStep(base, f, S, m, i)]
<1>1. Upto(0)
  <2> DEFINE m == [i \in 0..0 |-> base]
  <2>1. m = [i \in 0..0 |-> MergeStep(base, f, S, m, i)]
    BY DEF MergeStep
  <2>2. QED
    BY <2>1
<1>2. ASSUME NEW n \in Nat, Upto(n)
      PROVE  Upto(n + 1)
  <2>1. PICK m : m = [i \in 0..n |-> MergeStep(base, f, S, m, i)]
    BY <1>2
  <2> DEFINE g == [i \in 0..n + 1 |-> IF i = n + 1 THEN MergeStep(base, f, S, m, n + 1) ELSE m[i]]
  <2>2. \A i \in 0..n + 1 : g[i] = MergeStep(base, f, S, g, i)
    <3> SUFFICES ASSUME NEW i \in 0..n + 1
                 PROVE  g[i] = MergeStep(base, f, S, g, i)
      OBVIOUS
    <3>1. CASE i = n + 1
      BY <3>1 DEF MergeStep
    <3>2. CASE i # n + 1
      <4>1. i \in 0..n /\ g[i] = m[i] /\ m[i] = MergeStep(base, f, S, m, i)
        BY <2>1, <3>2
      <4>2. i # 0 => i - 1 \in 0..n + 1 /\ i - 1 # n + 1 /\ g[i - 1] = m[i - 1]
        BY <4>1
      <4>3. QED
        BY <4>1, <4>2 DEF MergeStep
    <3>3. QED
      BY <3>1, <3>2
  <2>3. g = [i \in 0..n + 1 |-> MergeStep(base, f, S, g, i)]
    BY <2>2
  <2>4. QED
    BY <2>3
<1>3. Upto(Len(f))
  <2> DEFINE good == {n \in Nat : Upto(n)}
  <2>1. 0 \in good /\ \A n \in Nat : n \in good => n + 1 \in good
    BY <1>1, <1>2
  <2> HIDE DEF good
  <2>2. Nat \subseteq good
    BY <2>1, Induction
  <2>3. Len(f) \in good
    BY <2>2
  <2>4. QED
    BY <2>3 DEF good
<1>4. QED
  BY <1>3 DEF MergeOnto, MergeStep

(* Merging, one document at a time. *)
Merges(m, base, f, S) ==
  /\ m[0] = base /\ MergeOnto(base, f, S) = m[Len(f)]
  /\ \A i \in 1..Len(f) :
       /\ i \notin S => m[i] = m[i - 1]
       /\ i \in S /\ m[i - 1] = Absent => m[i] = f[i]
       /\ i \in S /\ m[i - 1] # Absent => m[i] = MergeDocument(m[i - 1], f[i])

LEMMA Merged ==
  ASSUME NEW base, NEW f, Len(f) \in Nat, NEW S
  PROVE  \E m : Merges(m, base, f, S)
<1>1. PICK m : /\ m = [i \in 0..Len(f) |-> MergeStep(base, f, S, m, i)]
               /\ MergeOnto(base, f, S) = m[Len(f)]
  BY MergedExists
<1>2. \A i \in 0..Len(f) : m[i] = MergeStep(base, f, S, m, i)
  BY <1>1
<1>3. m[0] = base
  BY <1>2 DEF MergeStep
<1>4. QED
  BY <1>1, <1>2, <1>3 DEF MergeStep, Merges

HasName(d, name) == "name" \in DOMAIN d /\ d.name = name

LEMMA MergedDocumentName ==
  ASSUME NEW base, NEW over, NEW name, HasName(over, name)
  PROVE  HasName(MergeDocument(base, over), name)
<1> DEFINE merged == [over EXCEPT !.body = Merge(base.body, over.body)]
<1>1. HasName(merged, name)
  BY DEF HasName
<1> HIDE DEF merged
<1>2. MergeDocument(base, over) = over \/ MergeDocument(base, over) = merged
  BY DEF MergeDocument, merged
<1>3. QED
  BY <1>1, <1>2

LEMMA MergedName ==
  ASSUME NEW base, NEW f, Len(f) \in Nat, NEW S, S \subseteq 1..Len(f), NEW name,
         \A i \in S : HasName(f[i], name), HasName(base, name) \/ S # {}
  PROVE  HasName(MergeOnto(base, f, S), name)
<1>1. PICK m : Merges(m, base, f, S)
  BY Merged
<1>2. \A i \in S : HasName(m[i], name)
  BY <1>1, MergedDocumentName DEF Merges
<1> DEFINE T == {i \in Nat : i <= Len(f) /\ (HasName(base, name) \/ \E j \in S : j <= i)
                               => HasName(m[i], name)}
<1>3. 0 \in T
  <2>1. \A j \in S : ~(j <= 0)
    OBVIOUS
  <2>2. HasName(base, name) => HasName(m[0], name)
    BY <1>1 DEF Merges
  <2>3. QED
    BY <2>1, <2>2
<1>4. ASSUME NEW i \in Nat, i \in T
      PROVE  i + 1 \in T
  <2>1. CASE i + 1 \in S
    BY <1>2, <2>1
  <2>2. CASE i + 1 \notin S
    <3> SUFFICES ASSUME i + 1 <= Len(f), HasName(base, name) \/ \E j \in S : j <= i + 1
                 PROVE  HasName(m[i + 1], name)
      OBVIOUS
    <3>1. HasName(base, name) \/ \E j \in S : j <= i
      BY <2>2
    <3>2. m[i + 1] = m[i]
      BY <1>1, <2>2 DEF Merges
    <3>3. QED
      BY <1>4, <3>1, <3>2
  <2>3. QED
    BY <2>1, <2>2
<1> HIDE DEF T
<1>5. Len(f) \in T
  BY <1>3, <1>4, Induction
<1>6. \A j \in S : j <= Len(f)
  OBVIOUS
<1>7. HasName(m[Len(f)], name)
  <2>1. HasName(base, name) \/ \E j \in S : j <= Len(f)
    BY <1>6
  <2>2. QED
    BY <1>5, <2>1 DEF T
<1>8. QED
  BY <1>1, <1>7 DEF Merges

(* What a host gets of an identity has the name of it. *)
LEMMA HostDocumentName ==
  ASSUME NEW f, Sound(f), NEW h, NEW id \in Identities(f, h)
  PROVE  HasName(HostDocument(f, h, id), id[2])
<1>1. Len(f) \in Nat /\ DOMAIN f = 1..Len(f)
  BY DEF Sound
<1> DEFINE S == Sources(f, h, id)
           defaults == {i \in S : f[i].include = Everyone}
           general == MergeOnto(Absent, f, defaults)
<1>2. S \subseteq 1..Len(f) /\ \A i \in S : HasName(f[i], id[2])
  <2>1. \A i \in S : i \in DOMAIN f /\ f[i].kind = "patch" /\ Identity(f[i]) = id
    BY DEF Sources, PatchesFor, Patches, OfKind
  <2>2. \A i \in S : "name" \in DOMAIN f[i]
    BY <2>1 DEF Sound, WellFormed
  <2>3. \A i \in S : f[i].name = id[2]
    BY <2>1 DEF Identity
  <2>4. QED
    BY <1>1, <2>1, <2>2, <2>3 DEF HasName
<1>3. S # {}
  BY DEF Identities, Sources
<1>4. HostDocument(f, h, id) = MergeOnto(general, f, S \ defaults)
  BY DEF HostDocument
<1> HIDE DEF S
<1>5. CASE defaults = {}
  <2> HIDE DEF general
  <2>1. S \ defaults = S
    BY <1>5
  <2> HIDE DEF defaults
  <2>2. HasName(MergeOnto(general, f, S), id[2])
    BY <1>1, <1>2, <1>3, MergedName
  <2>3. QED
    BY <1>4, <2>1, <2>2
<1>6. CASE defaults # {}
  <2>1. defaults \subseteq S
    OBVIOUS
  <2> HIDE DEF defaults
  <2>2. HasName(general, id[2])
    BY <1>1, <1>2, <1>6, <2>1, MergedName
  <2> HIDE DEF general
  <2>3. S \ defaults \subseteq 1..Len(f) /\ \A i \in S \ defaults : HasName(f[i], id[2])
    BY <1>2
  <2>4. HasName(MergeOnto(general, f, S \ defaults), id[2])
    BY <1>1, <2>2, <2>3, MergedName
  <2>5. QED
    BY <1>4, <2>4
<1>7. QED
  BY <1>5, <1>6

(* The document whose added files are taken is one of those that reach the host. *)
LEMMA FirstNamedReaches ==
  ASSUME NEW f, Sound(f), NEW h, NEW name, Named(f, h, name) # {}
  PROVE  \E i \in Named(f, h, name) : FirstNamed(f, h, name) = Identity(f[i])
<1>1. DOMAIN f = 1..Len(f) /\ Len(f) \in Nat
  BY DEF Sound
<1>2. Named(f, h, name) \subseteq Nat
  BY <1>1 DEF Named, PatchesFor, Patches, OfKind
<1>3. \E i \in Named(f, h, name) : \A j \in Named(f, h, name) : i <= j
  BY <1>2, Least
<1>4. Min(Named(f, h, name)) \in Named(f, h, name)
  BY <1>3 DEF Min
<1>5. QED
  BY <1>4 DEF FirstNamed

LEMMA OneIdentity ==
  ASSUME OneApi, NEW f, \A i \in Patches(f) : f[i] \in Written \cup DefaultDocuments,
         NEW i \in Patches(f), NEW j \in Patches(f), f[i].name = f[j].name
  PROVE  Identity(f[i]) = Identity(f[j])
<1>1. f[i].kind = "patch" /\ f[j].kind = "patch"
  BY DEF Patches, OfKind
<1>2. f[i].api = f[j].api
  BY <1>1 DEF OneApi
<1>3. QED
  BY <1>2 DEF Identity

(* The other documents of a patch file have names of their own. *)
LEMMA OtherDocuments ==
  ASSUME OneApi, NEW f, Sound(f), NEW h,
         \A i \in Patches(f) : f[i] \in Written \cup DefaultDocuments
  PROVE  /\ \A d \in PatchFile(f, h).others : d.name \notin DOMAIN Generated
         /\ \A d, e \in PatchFile(f, h).others : d.name = e.name => d = e
<1>1. PatchFile(f, h).others = {WithLegacy(HostDocument(f, h, id)) :
                                  id \in Identities(f, h) \ Taken(f, h)}
  BY DEF PatchFile, Others
<1>2. ASSUME NEW id \in Identities(f, h)
      PROVE  /\ WithLegacy(HostDocument(f, h, id)).name = id[2]
             /\ \E i \in PatchesFor(f, h) : id = Identity(f[i]) /\ f[i].name = id[2]
  <2>1. HasName(HostDocument(f, h, id), id[2])
    BY HostDocumentName
  <2> DEFINE d == HostDocument(f, h, id)
  <2>2. \A x : [d EXCEPT !.body = x].name = d.name
    BY <2>1 DEF HasName
  <2>3. WithLegacy(d).name = d.name
    BY <2>2 DEF WithLegacy
  <2>4. WithLegacy(d).name = id[2]
    BY <2>1, <2>3 DEF HasName
  <2>5. \E i \in PatchesFor(f, h) : id = Identity(f[i])
    BY DEF Identities
  <2>6. QED
    BY <2>4, <2>5 DEF Identity
<1>3. PatchesFor(f, h) \subseteq Patches(f)
  BY DEF PatchesFor
<1>4. ASSUME NEW id \in Identities(f, h), id[2] \in DOMAIN Generated
      PROVE  id \in Taken(f, h)
  <2>1. PICK i \in PatchesFor(f, h) : id = Identity(f[i]) /\ f[i].name = id[2]
    BY <1>2
  <2>2. i \in Named(f, h, id[2])
    BY <2>1 DEF Named
  <2>3. PICK j \in Named(f, h, id[2]) : FirstNamed(f, h, id[2]) = Identity(f[j])
    BY <2>2, FirstNamedReaches
  <2>4. j \in Patches(f) /\ f[j].name = f[i].name
    BY <1>3, <2>1, <2>3 DEF Named
  <2>5. Identity(f[j]) = Identity(f[i])
    BY <1>3, <2>1, <2>4, OneIdentity
  <2>6. QED
    BY <1>4, <2>1, <2>2, <2>3, <2>5 DEF Taken
<1>5. ASSUME NEW id \in Identities(f, h), NEW other \in Identities(f, h), id[2] = other[2]
      PROVE  id = other
  <2>1. PICK i \in PatchesFor(f, h) : id = Identity(f[i]) /\ f[i].name = id[2]
    BY <1>2
  <2>2. PICK j \in PatchesFor(f, h) : other = Identity(f[j]) /\ f[j].name = other[2]
    BY <1>2
  <2>3. QED
    BY <1>3, <1>5, <2>1, <2>2, OneIdentity
<1>6. ASSUME NEW d \in PatchFile(f, h).others
      PROVE  \E id \in Identities(f, h) :
               d = WithLegacy(HostDocument(f, h, id)) /\ id \notin Taken(f, h) /\ d.name = id[2]
  BY <1>1, <1>2
<1>7. QED
  BY <1>4, <1>5, <1>6

(* Ports and names of a node's interfaces differ. *)
LEMMA InterfacesDiffer ==
  ASSUME NEW t, Validate(t), NEW n \in NodeNames(t), AwgValid(AwgConfig(t, n)),
         NEW k \in DOMAIN AwgConfig(t, n).interfaces, NEW j \in DOMAIN AwgConfig(t, n).interfaces,
         k # j
  PROVE  /\ AwgConfig(t, n).interfaces[k].port # AwgConfig(t, n).interfaces[j].port
         /\ AwgConfig(t, n).interfaces[k].name # AwgConfig(t, n).interfaces[j].name
<1> DEFINE keys == ({"mesh"} \X LinksOf(t, n)) \cup ({"rw"} \X PoolsOf(t, n))
           ifaces == Interfaces(t, n)
           portOf(key) == IF key[1] = "mesh" THEN t.links[key[2]].port ELSE t.pools[key[2]].port
<1>1. AwgConfig(t, n).interfaces = ifaces
  BY DEF AwgConfig
<1>2. DOMAIN ifaces = keys
  BY DEF Interfaces
<1>3. \A key \in keys : ifaces[key].port = portOf(key)
  BY DEF Interfaces, MeshInterface, PoolInterface
<1>4. k \in keys /\ j \in keys
  BY <1>1, <1>2
<1>5. PortsDistinct(t, n)
  BY DEF Validate
<1>6. portOf(k) # portOf(j)
  BY <1>4, <1>5 DEF PortsDistinct
<1>7. ifaces[k].name # ifaces[j].name
  BY <1>1 DEF AwgValid
<1>8. QED
  BY <1>1, <1>3, <1>4, <1>6, <1>7

(* A patch file, as it is written, is one that a node starts on. *)
LEMMA WrittenStarts ==
  ASSUME OneApi, NEW f, Sound(f), NEW h,
         \A i \in Patches(f) : f[i] \in Written \cup DefaultDocuments,
         Validate(TheTopology(f)), h \in NodeNames(TheTopology(f)), HostRenders(f, h)
  PROVE  Starts(PatchFile(f, h))
<1> DEFINE p == PatchFile(f, h)
           t == TheTopology(f)
<1>1. /\ \A d, e \in p.others : d.name = e.name => d = e
      /\ \A d \in p.others : d.name \notin DOMAIN Generated
  BY OtherDocuments
<1>2. RouterTemplate \in DOMAIN p.router.files
  BY DEF PatchFile, HostRenders, TemplatesValid
<1>3. p.awg.config = AwgConfig(t, h) /\ AwgValid(AwgConfig(t, h))
  BY DEF PatchFile, HostRenders, NodeRenders
<1> HIDE DEF p, t
<1>4. \A k, j \in DOMAIN AwgConfig(t, h).interfaces :
        k # j => /\ AwgConfig(t, h).interfaces[k].port # AwgConfig(t, h).interfaces[j].port
                 /\ AwgConfig(t, h).interfaces[k].name # AwgConfig(t, h).interfaces[j].name
  BY <1>3, InterfacesDiffer DEF t
<1>5. QED
  BY <1>1, <1>2, <1>3, <1>4 DEF Starts, p

LEMMA StartsGenerate ==
  ASSUME OneApi, FileInv, NodeStarts, NEW targets, Generate(targets)
  PROVE  NodeStarts'
<1>1. PICK drawn \in [Entries(file) -> Fresh] :
        /\ file' = After(file, drawn)
        /\ \A h \in targets : HostRenders(After(file, drawn), h)
        /\ patch' = [h \in Hosts |-> IF h \in targets
                                     THEN PatchFile(After(file, drawn), h) ELSE patch[h]]
  BY GenerateDraws
<1>2. Readable(file) /\ targets \subseteq NodeNames(TheTopology(file)) /\ Sound(file)
  BY GenerateDraws DEF FileInv
<1>3. Validate(TheTopology(file')) /\ NodeNames(TheTopology(file')) = NodeNames(TheTopology(file))
  BY <1>1, <1>2, AfterValid
<1>4. Sound(file') /\ \A i \in Patches(file') : file'[i] \in Written \cup DefaultDocuments
  BY FileGenerate DEF FileInv
<1>5. ASSUME NEW h \in Hosts, patch'[h] # Absent
      PROVE  Starts(patch'[h])
  <2>1. CASE h \in targets
    <3>1. patch'[h] = PatchFile(file', h) /\ HostRenders(file', h)
      BY <1>1, <2>1
    <3>2. QED
      BY <1>2, <1>3, <1>4, <2>1, <3>1, WrittenStarts
  <2>2. CASE h \notin targets
    BY <1>1, <1>5, <2>2 DEF NodeStarts
  <2>3. QED
    BY <2>1, <2>2
<1>6. QED
  BY <1>5 DEF NodeStarts

(* What a host gets is enough to start on, however old, where no patch comes in two
   apiVersions. *)
THEOREM NodesAlwaysStart == OneApi /\ Spec => []NodeStarts
<1>1. Init => FileInv /\ NodeStarts
  BY CurrentInit DEF CurrentInv, Init, NodeStarts
<1>2. ASSUME OneApi, FileInv, NodeStarts, [Next]_vars
      PROVE  NodeStarts'
  <2>1. ASSUME NEW targets, Generate(targets)
        PROVE  NodeStarts'
    BY <1>2, <2>1, StartsGenerate
  <2>2. ASSUME NEW f, Edit(f)
        PROVE  NodeStarts'
    BY <1>2, <2>2 DEF Edit, NodeStarts
  <2>3. CASE UNCHANGED vars
    BY <1>2, <2>3 DEF vars, NodeStarts
  <2>4. QED
    BY <1>2, <2>1, <2>2, <2>3 DEF Next, Insert, Rewrite, Delete
<1>3. OneApi /\ FileInv /\ NodeStarts /\ [Next]_vars => FileInv' /\ NodeStarts'
  BY <1>2, FileStep
<1>4. CASE OneApi
  <2>1. FileInv /\ NodeStarts /\ [Next]_vars => FileInv' /\ NodeStarts'
    BY <1>3, <1>4
  <2>2. QED
    BY <1>1, <2>1, PTL DEF Spec
<1>5. QED
  BY <1>4

-----------------------------------------------------------------------------
(* What the defaults leave alone *)

(* Merging does not depend on documents that take no part in it. *)
LEMMA MergedSame ==
  ASSUME NEW base, NEW f, NEW g, Len(f) \in Nat, Len(g) \in Nat, Len(f) <= Len(g),
         NEW S, S \subseteq 1..Len(f), \A i \in S : g[i] = f[i]
  PROVE  MergeOnto(base, g, S) = MergeOnto(base, f, S)
<1>1. PICK m : Merges(m, base, f, S)
  BY Merged
<1>2. PICK k : Merges(k, base, g, S)
  BY Merged
<1> DEFINE T == {i \in Nat : /\ i <= Len(f) => k[i] = m[i]
                             /\ Len(f) <= i /\ i <= Len(g) => k[i] = m[Len(f)]}
<1>3. 0 \in T
  BY <1>1, <1>2 DEF Merges
<1>4. ASSUME NEW i \in Nat, i \in T
      PROVE  i + 1 \in T
  <2>1. CASE i + 1 <= Len(f)
    <3>1. k[i] = m[i] /\ i + 1 \in 1..Len(f) /\ i + 1 \in 1..Len(g) /\ i + 1 - 1 = i
      BY <1>4, <2>1
    <3>2. CASE i + 1 \in S
      <4>1. g[i + 1] = f[i + 1]
        BY <3>2
      <4>2. k[i + 1] = m[i + 1]
        BY <1>1, <1>2, <3>1, <3>2, <4>1 DEF Merges
      <4>3. QED
        BY <2>1, <4>2
    <3>3. CASE i + 1 \notin S
      <4>1. k[i + 1] = m[i + 1]
        BY <1>1, <1>2, <3>1, <3>3 DEF Merges
      <4>2. QED
        BY <2>1, <4>1
    <3>4. QED
      BY <3>2, <3>3
  <2>2. CASE Len(f) < i + 1 /\ i + 1 <= Len(g)
    <3>1. k[i] = m[Len(f)]
      BY <1>4, <2>2
    <3>2. k[i + 1] = k[i]
      BY <1>2, <2>2 DEF Merges
    <3>3. QED
      BY <2>2, <3>1, <3>2
  <2>3. CASE ~(i + 1 <= Len(g))
    BY <2>3
  <2>4. QED
    BY <2>1, <2>2, <2>3
<1> HIDE DEF T
<1>5. Len(g) \in T
  BY <1>3, <1>4, Induction
<1>6. k[Len(g)] = m[Len(f)]
  BY <1>5 DEF T
<1>7. QED
  BY <1>1, <1>2, <1>6 DEF Merges

(* A run leaves what a host gets of a name alone, if it appends nothing of that name. *)
LEMMA AfterTemplate ==
  ASSUME NEW f, Sound(f), NEW drawn, NEW n \in DOMAIN Defaults, SetsFile(f, n, Defaults[n]),
         NEW h
  PROVE  Template(After(f, drawn), h, n) = Template(f, h, n)
<1> DEFINE g == After(f, drawn)
<1>1. /\ Len(f) \in Nat /\ DOMAIN f = 1..Len(f) /\ Len(g) \in Nat /\ Len(f) <= Len(g)
      /\ \A i \in Patches(f) : i \in DOMAIN f /\ g[i] = f[i] /\ i \in Patches(g)
  <2>1. \A i \in Patches(f) : i \in DOMAIN f
    BY DEF Patches, OfKind
  <2>2. \A i \in Patches(f) : i \in DOMAIN g /\ g[i] = f[i]
    BY <2>1, AfterShape, RecordedSound
  <2>3. Sound(g) /\ Len(f) <= Len(g)
    BY AfterShape
  <2> HIDE DEF g
  <2>4. QED
    BY <2>1, <2>2, <2>3 DEF Sound, Patches, OfKind
<1>2. ASSUME NEW i \in Patches(g), g[i].name = n
      PROVE  i \in Patches(f)
  <2>1. i \in DOMAIN g /\ g[i].kind = "patch"
    BY DEF Patches, OfKind
  <2>2. CASE i \in DOMAIN f
    <3>1. g[i] = Recorded(f, drawn)[i]
      BY <2>2, AfterShape
    <3>2. f[i].kind = "patch"
      BY <2>1, <2>2, <3>1, RecordedSound
    <3>3. QED
      BY <2>2, <3>2 DEF Patches, OfKind
  <2>3. CASE i \notin DOMAIN f
    <3>1. PICK other \in Missing(f) : g[i] = DefaultDocument(other)
      BY <2>1, <2>3, AfterShape
    <3>2. other = n
      BY <1>2, <3>1 DEF DefaultDocument
    <3>3. QED
      BY <3>1, <3>2 DEF Missing
  <2>4. QED
    BY <2>2, <2>3
<1> HIDE DEF g
<1>3. Named(g, h, n) = Named(f, h, n)
  BY <1>1, <1>2 DEF Named, PatchesFor
<1>4. CASE Named(f, h, n) = {}
  BY <1>3, <1>4 DEF Template, AddedFiles, g
<1>5. CASE Named(f, h, n) # {}
  <2>1. PICK i \in Named(f, h, n) : FirstNamed(f, h, n) = Identity(f[i])
    BY <1>5, FirstNamedReaches
  <2>2. Min(Named(f, h, n)) \in Patches(f)
    <3>1. Named(f, h, n) \subseteq Patches(f) /\ Named(f, h, n) \subseteq Nat
      BY <1>1 DEF Named, PatchesFor
    <3>2. \E j \in Named(f, h, n) : \A k \in Named(f, h, n) : j <= k
      BY <1>5, <3>1, Least
    <3>3. QED
      BY <3>1, <3>2 DEF Min
  <2>3. FirstNamed(g, h, n) = FirstNamed(f, h, n)
    BY <1>1, <1>3, <2>2 DEF FirstNamed
  <2> DEFINE id == FirstNamed(f, h, n)
             S == Sources(f, h, id)
             defaults == {j \in S : f[j].include = Everyone}
  <2>4. id[2] = n
    BY <2>1 DEF Identity, Named
  <2>5. S \subseteq Patches(f) /\ \A j \in S : g[j] = f[j]
    BY <1>1 DEF Sources, PatchesFor
  <2>6. Sources(g, h, id) = S
    <3>1. \A j : Identity(g[j]) = id => g[j].name = n
      BY <2>4 DEF Identity
    <3> HIDE DEF id
    <3>2. QED
      BY <1>1, <1>2, <3>1 DEF Sources, PatchesFor
  <2>7. {j \in S : g[j].include = Everyone} = defaults
    BY <2>5
  <2> HIDE DEF id, S
  <2>8. HostDocument(g, h, id) = MergeOnto(MergeOnto(Absent, g, defaults), g, S \ defaults)
    BY <2>6, <2>7 DEF HostDocument
  <2>9. HostDocument(f, h, id) = MergeOnto(MergeOnto(Absent, f, defaults), f, S \ defaults)
    BY DEF HostDocument, S
  <2>10. /\ defaults \subseteq 1..Len(f) /\ S \ defaults \subseteq 1..Len(f)
         /\ \A j \in defaults : g[j] = f[j]
         /\ \A j \in S \ defaults : g[j] = f[j]
    BY <1>1, <2>5
  <2> HIDE DEF defaults
  <2>11. HostDocument(g, h, id) = HostDocument(f, h, id)
    <3>1. MergeOnto(Absent, g, defaults) = MergeOnto(Absent, f, defaults)
      BY <1>1, <2>10, MergedSame
    <3>2. \A base : MergeOnto(base, g, S \ defaults) = MergeOnto(base, f, S \ defaults)
      BY <1>1, <2>10, MergedSame
    <3>3. QED
      BY <2>8, <2>9, <3>1, <3>2
  <2>12. AddedFiles(g, h, n) = AddedFiles(f, h, n)
    BY <1>3, <2>3, <2>11 DEF AddedFiles, id
  <2>13. QED
    BY <2>12 DEF Template, g
<1>6. QED
  BY <1>4, <1>5

(* `generate' never gives or takes a host a template that some document sets. *)
THEOREM AimAlwaysKept == Spec => AimKept
<1> DEFINE Kept == edits' = edits =>
                     \A n \in DOMAIN Defaults : SetsFile(file, n, Defaults[n]) =>
                       \A h \in NodeNames(TheTopology(file)) :
                         Template(file', h, n) = Template(file, h, n)
<1>1. FileInv /\ [Next]_vars => [Kept]_vars
  <2> SUFFICES ASSUME FileInv, [Next]_vars
               PROVE  [Kept]_vars
    OBVIOUS
  <2>1. ASSUME NEW targets, Generate(targets)
        PROVE  Kept
    <3>1. PICK drawn \in [Entries(file) -> Fresh] : file' = After(file, drawn)
      BY <2>1, GenerateDraws
    <3>2. Sound(file)
      BY DEF FileInv
    <3>3. QED
      BY <3>1, <3>2, AfterTemplate
  <2>2. ASSUME NEW f, Edit(f)
        PROVE  Kept
    <3>1. edits' # edits
      BY <2>2 DEF Edit, FileInv
    <3>2. QED
      BY <3>1
  <2> HIDE DEF Kept
  <2>3. QED
    BY <2>1, <2>2 DEF Next, Insert, Rewrite, Delete
<1>2. Init => FileInv
  BY CurrentInit DEF CurrentInv
<1>3. QED
  BY <1>1, <1>2, FileStep, PTL DEF Spec, AimKept

-----------------------------------------------------------------------------
(* Who decides *)

(* What is not there, and a null, are values of their own. *)
NoData == /\ Absent # Null
          /\ \A d \in {Absent, Null} : "kind" \notin DOMAIN d /\ "map" \notin DOMAIN d

(* The order in which documents are merged. *)
LEMMA BeforeOrders ==
  ASSUME NEW f, NEW i \in Nat, NEW j \in Nat, NEW l \in Nat
  PROVE  /\ ~(Before(f, i, j) /\ Before(f, j, i))
         /\ Before(f, i, j) /\ Before(f, j, l) => Before(f, i, l)
         /\ i = j \/ Before(f, i, j) \/ Before(f, j, i)
BY DEF Before

LEMMA LastIs ==
  ASSUME NEW f, NEW S, S \subseteq Nat, NEW i \in S, \A j \in S : j = i \/ Before(f, j, i)
  PROVE  LastOf(f, S) = i
<1>1. ASSUME NEW l \in S, \A j \in S : j = l \/ Before(f, j, l)
      PROVE  l = i
  BY <1>1, BeforeOrders
<1>2. QED
  BY <1>1 DEF LastOf

LEMMA Greatest ==
  ASSUME NEW n \in Nat, NEW S, S \subseteq 1..n, S # {}
  PROVE  \E i \in S : \A j \in S : j <= i
<1> DEFINE T == {n - i : i \in S}
<1>1. T \subseteq Nat /\ T # {}
  <2>1. PICK i \in S : TRUE
    OBVIOUS
  <2>2. n - i \in T
    OBVIOUS
  <2>3. \A j \in S : n - j \in Nat
    OBVIOUS
  <2>4. QED
    BY <2>2, <2>3
<1> HIDE DEF T
<1>2. PICK t \in T : \A s \in T : t <= s
  BY <1>1, Least
<1>3. PICK i \in S : t = n - i
  BY DEF T
<1>4. \A j \in S : n - i <= n - j
  BY <1>2, <1>3 DEF T
<1>5. \A j \in S : j <= i
  BY <1>4
<1>6. QED
  BY <1>5

LEMMA LastExists ==
  ASSUME NEW f, NEW n \in Nat, NEW S, S \subseteq 1..n, S # {}
  PROVE  LastOf(f, S) \in S /\ \A j \in S : j = LastOf(f, S) \/ Before(f, j, LastOf(f, S))
<1> DEFINE aimed == {i \in S : f[i].include # Everyone}
<1>1. \E i \in S : \A j \in S : j = i \/ Before(f, j, i)
  <2>1. CASE aimed = {}
    <3>1. PICK i \in S : \A j \in S : j <= i
      BY Greatest
    <3>2. \A j \in S : j = i \/ Before(f, j, i)
      BY <2>1, <3>1 DEF Before
    <3>3. QED
      BY <3>2
  <2>2. CASE aimed # {}
    <3>1. PICK i \in aimed : \A j \in aimed : j <= i
      BY <2>2, Greatest
    <3>2. \A j \in S : j = i \/ Before(f, j, i)
      BY <3>1 DEF Before
    <3>3. QED
      BY <3>2
  <2>3. QED
    BY <2>1, <2>2
<1>2. QED
  BY <1>1 DEF LastOf

(* Merging, of one key. *)
MergedValue(base, over) ==
  CASE over = Absent -> base
    [] over = Null -> Absent
    [] IsMap(over) -> [map |-> MergeLeaves(Leaves(base), Leaves(over))]
    [] OTHER -> over

LEMMA MergedCases ==
  ASSUME NoData, NEW base, NEW over
  PROVE  /\ over = Absent => MergedValue(base, over) = base /\ ~IsMap(over)
         /\ over = Null => MergedValue(base, over) = Absent /\ ~IsMap(over)
         /\ IsMap(over) => /\ MergedValue(base, over)
                                = [map |-> MergeLeaves(Leaves(base), Leaves(over))]
                           /\ over \notin {Absent, Null}
         /\ over \notin {Absent, Null} /\ ~IsMap(over) => MergedValue(base, over) = over
BY DEF MergedValue, NoData, IsMap

LEMMA NulledLeaves ==
  ASSUME NoData, NEW x
  PROVE  /\ IsMap([map |-> x])
         /\ Nulled([map |-> x]) = [map |-> [l \in Keys |-> IF x[l] = Absent THEN Null ELSE x[l]]]
<1> DEFINE v == [map |-> x]
<1>1. "map" \in DOMAIN v /\ v.map = x
  OBVIOUS
<1> HIDE DEF v
<1>2. IsMap(v)
  BY <1>1 DEF NoData, IsMap
<1>3. Nulled(v) = [map |-> [l \in Keys |-> IF x[l] = Absent THEN Null ELSE x[l]]]
  BY <1>1, <1>2 DEF Nulled
<1>4. QED
  BY <1>2, <1>3 DEF v

(* Merging of mappings, with the leaves that are missing said to be null. *)
LEMMA NulledMerge ==
  ASSUME NoData, NEW base, NEW over, IsMap(over)
  PROVE  Nulled(MergedValue(base, over))
           = [map |-> [l \in Keys |->
                IF over.map[l] # Absent THEN over.map[l]
                ELSE IF IsMap(base) /\ base.map[l] # Absent THEN base.map[l] ELSE Null]]
<1> DEFINE x == MergeLeaves(Leaves(base), Leaves(over))
<1>1. MergedValue(base, over) = [map |-> x]
  BY MergedCases
<1>2. ASSUME NEW l \in Keys
      PROVE  (IF x[l] = Absent THEN Null ELSE x[l])
               = IF over.map[l] # Absent THEN over.map[l]
                 ELSE IF IsMap(base) /\ base.map[l] # Absent THEN base.map[l] ELSE Null
  <2> DEFINE b == Leaves(base)
             o == Leaves(over)
  <2>1. o[l] = over.map[l]
    BY DEF Leaves
  <2>2. b[l] = IF IsMap(base) THEN base.map[l] ELSE Absent
    BY DEF Leaves
  <2> HIDE DEF b, o
  <2>3. x[l] = CASE o[l] = Absent -> b[l] [] o[l] = Null -> Absent [] OTHER -> o[l]
    BY DEF MergeLeaves, b, o
  <2> HIDE DEF x
  <2>4. QED
    BY <2>1, <2>2, <2>3 DEF NoData
<1> HIDE DEF x
<1>3. QED
  BY <1>1, <1>2, NulledLeaves

(* What is said of the leaves is what the mapping that was merged so far has. *)
LEMMA DecidedLeaves ==
  ASSUME NoData, NEW f, NEW n \in Nat, NEW A, A \subseteq 1..n, NEW k, NEW base,
         Nulled(base) = Decided(f, A, k), NEW l \in Keys
  PROVE  DecidedLeaf(f, A, k, l)
           = IF IsMap(base) /\ base.map[l] # Absent THEN base.map[l] ELSE Null
<1> DEFINE about == Mentioning(f, A, k)
           maps == Mapping(f, A, k)
           last == LastOf(f, about)
<1>1. IsMap(base) => /\ Nulled(base) = [map |-> [s \in Keys |-> IF base.map[s] = Absent THEN Null
                                                               ELSE base.map[s]]]
                     /\ IsMap(Nulled(base))
  BY NulledLeaves DEF Nulled
<1>2. ~IsMap(base) => Nulled(base) \in {Null, base}
  BY DEF Nulled
<1>3. ~IsMap(Null)
  BY DEF IsMap
<1>4. maps \subseteq about /\ about \subseteq A
  BY DEF IsMap, Mentioning, Mapping
<1>0. \A j \in A : j \in Nat
  OBVIOUS
<1>5. CASE about = {}
  <2>1. Decided(f, A, k) = Null
    BY <1>5 DEF Decided
  <2>2. ~IsMap(base)
    BY <1>1, <1>3, <2>1
  <2>3. Uncut(f, A, k) = {}
    BY <1>4, <1>5 DEF Uncut
  <2>4. DecidedLeaf(f, A, k, l) = Null
    BY <2>3 DEF DecidedLeaf
  <2>5. QED
    BY <2>2, <2>4
<1>6. CASE about # {} /\ last \in maps
  <2> DEFINE leaves == [s \in Keys |-> DecidedLeaf(f, A, k, s)]
  <2>1. Decided(f, A, k) = [map |-> leaves]
    BY <1>6 DEF Decided
  <2>2. IsMap([map |-> leaves])
    BY NulledLeaves
  <2>3. IsMap(base)
    BY <1>2, <1>3, <2>1, <2>2
  <2> DEFINE nulled == [s \in Keys |-> IF base.map[s] = Absent THEN Null ELSE base.map[s]]
  <2>4. [map |-> leaves] = [map |-> nulled]
    BY <1>1, <2>1, <2>3
  <2>5. leaves[l] = DecidedLeaf(f, A, k, l)
        /\ nulled[l] = IF base.map[l] = Absent THEN Null ELSE base.map[l]
    OBVIOUS
  <2> HIDE DEF leaves, nulled
  <2>6. leaves = nulled
    BY <2>4
  <2>7. QED
    BY <2>3, <2>5, <2>6
<1>7. CASE about # {} /\ last \notin maps
  <2>1. Decided(f, A, k) = f[last].body[k]
    BY <1>7 DEF Decided
  <2>2. last \in about /\ \A j \in about : j = last \/ Before(f, j, last)
    BY <1>4, <1>7, LastExists
  <2>3. ~IsMap(f[last].body[k])
    BY <1>4, <1>7, <2>2 DEF Mapping
  <2>4. ~IsMap(base)
    BY <1>1, <2>1, <2>3
  <2>5. ASSUME NEW j \in Uncut(f, A, k)
        PROVE  FALSE
    <3>1. j \in maps /\ Before(f, last, j)
      BY <1>7, <2>2 DEF Uncut
    <3>2. Before(f, j, last)
      BY <1>4, <1>7, <2>2, <3>1
    <3>3. j \in Nat /\ last \in Nat
      BY <1>0, <1>4, <2>2, <3>1
    <3> HIDE DEF last
    <3>4. QED
      BY <3>1, <3>2, <3>3, BeforeOrders
  <2>6. DecidedLeaf(f, A, k, l) = Null
    BY <2>5 DEF DecidedLeaf
  <2>7. QED
    BY <2>4, <2>6
<1>8. QED
  BY <1>5, <1>6, <1>7

Bounded(S) == \E n \in Nat : S \subseteq 1..n

(* One more document has the last word about what it mentions, and no other word. *)
LEMMA DecidedStep ==
  ASSUME NoData, NEW f, NEW A, Bounded(A), NEW i \in Nat,
         \A j \in A : Before(f, j, i), NEW k, NEW base, Nulled(base) = Decided(f, A, k)
  PROVE  Nulled(MergedValue(base, f[i].body[k])) = Decided(f, A \cup {i}, k)
<1> DEFINE over == f[i].body[k]
           B == A \cup {i}
<1> PICK n \in Nat : A \subseteq 1..n
  BY DEF Bounded
<1>0. ~Before(f, i, i) /\ i \notin A
  BY BeforeOrders
<1>6. B \subseteq Nat /\ \A j \in B : j = i \/ Before(f, j, i)
  <2>1. \A j \in A : j \in Nat
    OBVIOUS
  <2>2. QED
    BY <2>1
<1>1. CASE over = Absent
  <2>1. Mentioning(f, B, k) = Mentioning(f, A, k) /\ Mapping(f, B, k) = Mapping(f, A, k)
    BY <1>1 DEF Mentioning, Mapping, IsMap
  <2> HIDE DEF B
  <2>2. Uncut(f, B, k) = Uncut(f, A, k)
    BY <2>1 DEF Uncut
  <2>3. \A l : DecidedLeaf(f, B, k, l) = DecidedLeaf(f, A, k, l)
    BY <2>2 DEF DecidedLeaf
  <2>4. Decided(f, B, k) = Decided(f, A, k)
    BY <2>1, <2>3 DEF Decided
  <2>5. QED
    BY <1>1, <2>4, MergedCases DEF B
<1>2. over # Absent => i \in Mentioning(f, B, k) /\ LastOf(f, Mentioning(f, B, k)) = i
  <2> SUFFICES ASSUME over # Absent
               PROVE  i \in Mentioning(f, B, k) /\ LastOf(f, Mentioning(f, B, k)) = i
    OBVIOUS
  <2>1. i \in Mentioning(f, B, k) /\ Mentioning(f, B, k) \subseteq B
    BY DEF Mentioning
  <2>2. /\ Mentioning(f, B, k) \subseteq Nat
        /\ \A j \in Mentioning(f, B, k) : j = i \/ Before(f, j, i)
    BY <1>6, <2>1
  <2> HIDE DEF B
  <2>3. QED
    BY <2>1, <2>2, LastIs
<1>3. CASE over # Absent /\ ~IsMap(over)
  <2>1. Decided(f, B, k) = over
    BY <1>2, <1>3 DEF Decided, Mapping
  <2>2. Nulled(Absent) = Null /\ Nulled(over) = over
    BY <1>3 DEF Nulled, IsMap
  <2>3. MergedValue(base, over) = IF over = Null THEN Absent ELSE over
    BY <1>3, MergedCases
  <2>4. QED
    BY <2>1, <2>2, <2>3
<1>4. CASE IsMap(over)
  <2>0. over # Absent
    BY <1>4 DEF IsMap
  <2>1. i \in Mapping(f, B, k)
    BY <1>4 DEF Mapping
  <2>2. Decided(f, B, k) = [map |-> [l \in Keys |-> DecidedLeaf(f, B, k, l)]]
    BY <1>2, <2>0, <2>1 DEF Decided
  <2>3. /\ Mentioning(f, B, k) \ Mapping(f, B, k) = Mentioning(f, A, k) \ Mapping(f, A, k)
        /\ Mapping(f, B, k) = Mapping(f, A, k) \cup {i}
        /\ Mentioning(f, A, k) \subseteq A /\ Mapping(f, A, k) \subseteq A
    BY <1>4 DEF Mentioning, Mapping
  <2> HIDE DEF B
  <2>4. Uncut(f, B, k) = Uncut(f, A, k) \cup {i} /\ Uncut(f, A, k) \subseteq A
    BY <2>3 DEF Uncut
  <2>5. ASSUME NEW l \in Keys
        PROVE  DecidedLeaf(f, B, k, l)
                 = IF over.map[l] # Absent THEN over.map[l]
                   ELSE IF IsMap(base) /\ base.map[l] # Absent THEN base.map[l] ELSE Null
    <3> DEFINE said(S) == {j \in Uncut(f, S, k) : f[j].body[k].map[l] # Absent}
    <3>1. CASE over.map[l] # Absent
      <4>1. i \in said(B) /\ said(B) \subseteq B
        BY <2>4, <3>1 DEF B
      <4> HIDE DEF said
      <4>2. said(B) \subseteq Nat /\ \A j \in said(B) : j = i \/ Before(f, j, i)
        BY <1>6, <4>1
      <4>3. LastOf(f, said(B)) = i
        BY <4>1, <4>2, LastIs
      <4>4. QED
        BY <3>1, <4>1, <4>3 DEF DecidedLeaf, said
    <3>2. CASE over.map[l] = Absent
      <4>1. said(B) = said(A)
        BY <2>4, <3>2
      <4>2. DecidedLeaf(f, B, k, l) = DecidedLeaf(f, A, k, l)
        BY <4>1 DEF DecidedLeaf
      <4>3. DecidedLeaf(f, A, k, l)
              = IF IsMap(base) /\ base.map[l] # Absent THEN base.map[l] ELSE Null
        BY DecidedLeaves
      <4>4. QED
        BY <3>2, <4>2, <4>3
    <3>3. QED
      BY <3>1, <3>2
  <2>6. Nulled(MergedValue(base, over))
          = [map |-> [l \in Keys |->
               IF over.map[l] # Absent THEN over.map[l]
               ELSE IF IsMap(base) /\ base.map[l] # Absent THEN base.map[l] ELSE Null]]
    BY <1>4, NulledMerge
  <2> HIDE DEF over
  <2>7. Nulled(MergedValue(base, over)) = Decided(f, B, k)
    BY <2>2, <2>5, <2>6
  <2>8. QED
    BY <2>7 DEF B, over
<1>5. QED
  BY <1>1, <1>3, <1>4

(* The documents that no deletion comes after. *)
Remaining(f, S) == {i \in S : \A j \in {l \in S : f[l].delete} : Before(f, j, i)}

IsDocument(d) ==
  /\ {"kind", "delete", "body"} \subseteq DOMAIN d /\ d.delete \in BOOLEAN
  /\ DOMAIN d.body = Keys \cup {"configFiles"}

LEMMA FirstSays ==
  ASSUME NoData, NEW f, NEW i \in Nat, NEW k
  PROVE  Nulled(f[i].body[k]) = Decided(f, {i}, k)
<1> DEFINE over == f[i].body[k]
<1>1. Nulled(Absent) = Null /\ ~IsMap(Absent) /\ Nulled(Null) = Null
  BY DEF Nulled, IsMap, NoData
<1>2. Decided(f, {}, k) = Null
  BY DEF Decided, Mentioning
<1>3. Nulled(MergedValue(Absent, over)) = Decided(f, {i}, k)
  <2> DEFINE none == {}
  <2>1. /\ Bounded(none) /\ (\A j \in none : Before(f, j, i))
        /\ Nulled(Absent) = Decided(f, none, k) /\ none \cup {i} = {i}
    BY <1>1, <1>2 DEF Bounded
  <2> HIDE DEF none
  <2>2. Nulled(MergedValue(Absent, over)) = Decided(f, none \cup {i}, k)
    BY <2>1, DecidedStep
  <2>3. QED
    BY <2>1, <2>2
<1> HIDE DEF over
<1>4. Nulled(MergedValue(Absent, over)) = Nulled(over)
  <2>1. CASE IsMap(over)
    <3>1. Nulled(MergedValue(Absent, over))
            = [map |-> [l \in Keys |->
                 IF over.map[l] # Absent THEN over.map[l]
                 ELSE IF IsMap(Absent) /\ Absent.map[l] # Absent THEN Absent.map[l] ELSE Null]]
      BY <2>1, NulledMerge
    <3>2. Nulled(over) = [map |-> [l \in Keys |-> IF over.map[l] = Absent THEN Null
                                                 ELSE over.map[l]]]
      BY <2>1 DEF Nulled
    <3>3. QED
      BY <1>1, <3>1, <3>2
  <2>2. CASE ~IsMap(over)
    BY <1>1, <2>2, MergedCases
  <2>3. QED
    BY <2>1, <2>2
<1>5. QED
  BY <1>3, <1>4 DEF over

LEMMA SaysFirst ==
  ASSUME NoData, NEW f, NEW i \in Nat, IsDocument(f[i])
  PROVE  SaysWhat(f, {i}, f[i])
<1>1. LastOf(f, {i}) = i
  BY DEF LastOf
<1>2. ~Before(f, i, i)
  BY BeforeOrders
<1>3. CASE f[i].delete
  <2>1. Remaining(f, {i}) = {}
    BY <1>2, <1>3 DEF Remaining
  <2>2. QED
    BY <1>1, <2>1 DEF SaysWhat, Remaining
<1>4. CASE ~f[i].delete
  <2>1. Remaining(f, {i}) = {i}
    BY <1>4 DEF Remaining
  <2>2. \A k : Nulled(f[i].body[k]) = Decided(f, {i}, k)
    BY FirstSays
  <2>3. QED
    BY <1>4, <2>1, <2>2 DEF SaysWhat, Remaining
<1>5. QED
  BY <1>3, <1>4

(* A document merged with one more, field by field. *)
LEMMA MergedFields ==
  ASSUME NEW d, IsDocument(d), NEW over, IsDocument(over)
  PROVE  /\ IsDocument(MergeDocument(d, over))
         /\ d.delete \/ over.delete => MergeDocument(d, over) = over
         /\ ~d.delete /\ ~over.delete =>
              /\ ~MergeDocument(d, over).delete
              /\ DOMAIN MergeDocument(d, over).body = Keys \cup {"configFiles"}
              /\ \A k \in Keys \cup {"configFiles"} :
                   MergeDocument(d, over).body[k] = MergedValue(d.body[k], over.body[k])
<1>1. CASE d.delete \/ over.delete
  <2>1. MergeDocument(d, over) = over
    BY <1>1 DEF MergeDocument
  <2>2. QED
    BY <1>1, <2>1
<1>2. CASE ~d.delete /\ ~over.delete
  <2> DEFINE merged == Merge(d.body, over.body)
             r == [over EXCEPT !.body = merged]
  <2>1. MergeDocument(d, over) = r
    BY <1>2 DEF MergeDocument
  <2>2. DOMAIN merged = DOMAIN over.body
        /\ \A k \in DOMAIN over.body : merged[k] = MergedValue(d.body[k], over.body[k])
    BY DEF Merge, MergedValue
  <2> HIDE DEF merged
  <2>3. DOMAIN r = DOMAIN over /\ r.body = merged /\ r.delete = over.delete
    BY DEF IsDocument
  <2> HIDE DEF r
  <2>4. QED
    BY <1>2, <2>1, <2>2, <2>3 DEF IsDocument
<1>3. QED
  BY <1>1, <1>2 DEF IsDocument

(* Merging one more document that comes after all the others. *)
LEMMA SaysStep ==
  ASSUME NoData, NEW f, NEW n \in Nat, NEW A, A \subseteq 1..n, A # {}, NEW i \in 1..n,
         \A j \in A : Before(f, j, i), \A j \in A \cup {i} : IsDocument(f[j]),
         NEW d, IsDocument(d), SaysWhat(f, A, d)
  PROVE  SaysWhat(f, A \cup {i}, MergeDocument(d, f[i]))
<1> DEFINE B == A \cup {i}
           r == MergeDocument(d, f[i])
<1>0. /\ i \in Nat /\ (\A j \in A : j \in Nat /\ ~Before(f, i, j) /\ ~Before(f, j, j))
      /\ ~Before(f, i, i) /\ B \subseteq Nat /\ B # {}
      /\ \A j \in B : j = i \/ Before(f, j, i)
  <2>1. i \in Nat /\ \A j \in A : j \in Nat
    OBVIOUS
  <2>2. QED
    BY <2>1, BeforeOrders
<1>1. CASE f[i].delete
  <2>1. Remaining(f, B) = {}
    BY <1>0, <1>1 DEF Remaining
  <2>2. r = f[i]
    BY <1>1, MergedFields
  <2>3. LastOf(f, B) = i
    BY <1>0, LastIs
  <2> HIDE DEF B, r
  <2>4. SaysWhat(f, B, r)
    BY <2>1, <2>2, <2>3 DEF SaysWhat, Remaining
  <2>5. QED
    BY <2>4 DEF B, r
<1>2. CASE ~f[i].delete /\ Remaining(f, A) = {}
  <2> DEFINE last == LastOf(f, A)
  <2>1. last \in A /\ \A j \in A : j = last \/ Before(f, j, last)
    BY LastExists
  <2>2. d = f[last]
    BY <1>2 DEF SaysWhat, Remaining
  <2>3. f[last].delete
    BY <1>2, <2>1 DEF Remaining
  <2>4. r = f[i]
    BY <2>2, <2>3, MergedFields
  <2>5. Remaining(f, B) = {i}
    BY <1>0, <1>2 DEF Remaining
  <2>6. \A k : Nulled(f[i].body[k]) = Decided(f, {i}, k)
    BY <1>0, FirstSays
  <2> HIDE DEF B, r, last
  <2>7. SaysWhat(f, B, r)
    BY <1>2, <2>4, <2>5, <2>6 DEF SaysWhat, Remaining
  <2>8. QED
    BY <2>7 DEF B, r
<1>3. CASE ~f[i].delete /\ Remaining(f, A) # {}
  <2> DEFINE rest == Remaining(f, A)
  <2>1. ~d.delete /\ \A k \in DOMAIN d.body : Nulled(d.body[k]) = Decided(f, rest, k)
    BY <1>3 DEF SaysWhat, Remaining
  <2>2. Remaining(f, B) = rest \cup {i} /\ rest \subseteq A
    BY <1>0, <1>3 DEF Remaining
  <2>3. /\ ~r.delete /\ DOMAIN r.body = Keys \cup {"configFiles"}
        /\ DOMAIN d.body = Keys \cup {"configFiles"}
        /\ \A k \in Keys \cup {"configFiles"} :
             r.body[k] = MergedValue(d.body[k], f[i].body[k])
    <3>1. IsDocument(d) /\ IsDocument(f[i])
      OBVIOUS
    <3>2. /\ ~r.delete /\ DOMAIN r.body = Keys \cup {"configFiles"}
          /\ \A k \in Keys \cup {"configFiles"} :
               r.body[k] = MergedValue(d.body[k], f[i].body[k])
      BY <1>3, <2>1, <3>1, MergedFields
    <3> HIDE DEF r
    <3>3. QED
      BY <3>1, <3>2 DEF IsDocument
  <2> HIDE DEF r, rest
  <2>4. ASSUME NEW k \in DOMAIN r.body
        PROVE  Nulled(r.body[k]) = Decided(f, rest \cup {i}, k)
    <3>1. Bounded(rest) /\ \A j \in rest : Before(f, j, i)
      BY <2>2 DEF Bounded
    <3>2. Nulled(d.body[k]) = Decided(f, rest, k)
      BY <2>1, <2>3
    <3>3. i \in Nat
      BY <1>0
    <3>4. Nulled(MergedValue(d.body[k], f[i].body[k])) = Decided(f, rest \cup {i}, k)
      BY <3>1, <3>2, <3>3, DecidedStep
    <3>5. QED
      BY <2>3, <3>4
  <2> HIDE DEF B
  <2>5. Remaining(f, B) # {}
    BY <2>2
  <2>6. SaysWhat(f, B, r)
    BY <2>2, <2>3, <2>4, <2>5 DEF SaysWhat, Remaining
  <2>7. QED
    BY <2>6 DEF B, r
<1>4. QED
  BY <1>1, <1>2, <1>3

(* What was merged of some documents is right about them, or nothing was merged. *)
Right(f, S, d) == IF S = {} THEN d = Absent ELSE IsDocument(d) /\ SaysWhat(f, S, d)

LEMMA RightStep ==
  ASSUME NoData, NEW f, NEW n \in Nat, NEW A, A \subseteq 1..n, NEW i \in 1..n,
         \A j \in A : Before(f, j, i), \A j \in A \cup {i} : IsDocument(f[j]),
         NEW d, Right(f, A, d)
  PROVE  Right(f, A \cup {i}, IF d = Absent THEN f[i] ELSE MergeDocument(d, f[i]))
<1>1. CASE A = {}
  <2>1. d = Absent /\ A \cup {i} = {i}
    BY <1>1 DEF Right
  <2>2. SaysWhat(f, {i}, f[i])
    BY SaysFirst
  <2>3. QED
    BY <2>1, <2>2 DEF Right
<1>2. CASE A # {}
  <2>1. IsDocument(d) /\ SaysWhat(f, A, d)
    BY <1>2 DEF Right
  <2>2. d # Absent
    BY <2>1 DEF NoData, IsDocument
  <2>3. SaysWhat(f, A \cup {i}, MergeDocument(d, f[i]))
    BY <1>2, <2>1, SaysStep
  <2>4. IsDocument(MergeDocument(d, f[i]))
    BY <2>1, MergedFields
  <2>5. A \cup {i} # {}
    OBVIOUS
  <2>6. QED
    BY <2>2, <2>3, <2>4, <2>5 DEF Right
<1>3. QED
  BY <1>1, <1>2

LEMMA RightMerge ==
  ASSUME NoData, NEW f, Len(f) \in Nat, NEW P, P \subseteq 1..Len(f),
         NEW S, S \subseteq 1..Len(f), \A i \in P, j \in S : Before(f, i, j),
         \A i, j \in S : i < j => Before(f, i, j), \A i \in P \cup S : IsDocument(f[i]),
         NEW base, Right(f, P, base)
  PROVE  Right(f, P \cup S, MergeOnto(base, f, S))
<1>1. PICK m : Merges(m, base, f, S)
  BY Merged
<1> DEFINE upto(i) == P \cup {j \in S : j <= i}
           T == {i \in Nat : i <= Len(f) => Right(f, upto(i), m[i])}
<1>0. /\ \A j \in S : j \in Nat /\ 1 <= j /\ j <= Len(f)
      /\ \A j \in P : j \in 1..Len(f)
  OBVIOUS
<1>2. 0 \in T
  <2>1. upto(0) = P
    <3>1. \A j \in S : ~(j <= 0)
      BY <1>0
    <3>2. QED
      BY <3>1
  <2>2. m[0] = base
    BY <1>1 DEF Merges
  <2> HIDE DEF upto
  <2>3. QED
    BY <2>1, <2>2
<1>3. ASSUME NEW i \in Nat, i \in T
      PROVE  i + 1 \in T
  <2> SUFFICES ASSUME i + 1 <= Len(f)
               PROVE  Right(f, upto(i + 1), m[i + 1])
    OBVIOUS
  <2>1. Right(f, upto(i), m[i])
    BY <1>3
  <2>2. i + 1 \in 1..Len(f) /\ i + 1 - 1 = i
    OBVIOUS
  <2>3. CASE i + 1 \notin S
    <3>1. upto(i + 1) = upto(i)
      <4>1. \A j \in S : j <= i + 1 <=> j <= i \/ j = i + 1
        BY <1>0
      <4>2. QED
        BY <2>3, <4>1
    <3>2. m[i + 1] = m[i]
      BY <1>1, <2>2, <2>3 DEF Merges
    <3> HIDE DEF upto
    <3>3. QED
      BY <2>1, <3>1, <3>2
  <2>4. CASE i + 1 \in S
    <3>1. upto(i + 1) = upto(i) \cup {i + 1}
      <4>1. \A j \in S : j <= i + 1 <=> j <= i \/ j = i + 1
        BY <1>0
      <4>2. QED
        BY <2>4, <4>1
    <3>2. m[i + 1] = IF m[i] = Absent THEN f[i + 1] ELSE MergeDocument(m[i], f[i + 1])
      BY <1>1, <2>2, <2>4 DEF Merges
    <3>3. /\ upto(i) \subseteq 1..Len(f) /\ (\A j \in upto(i) : Before(f, j, i + 1))
          /\ \A j \in upto(i) \cup {i + 1} : IsDocument(f[j])
      <4>1. \A j \in upto(i) : j \in P \/ (j \in S /\ j < i + 1)
        BY <1>0
      <4> HIDE DEF upto
      <4>2. QED
        BY <1>0, <2>4, <4>1
    <3> HIDE DEF upto
    <3>4. Right(f, upto(i) \cup {i + 1},
                IF m[i] = Absent THEN f[i + 1] ELSE MergeDocument(m[i], f[i + 1]))
      BY <2>1, <2>2, <3>3, RightStep
    <3>5. QED
      BY <3>1, <3>2, <3>4
  <2>5. QED
    BY <2>3, <2>4
<1> HIDE DEF T
<1>4. Len(f) \in T
  BY <1>2, <1>3, Induction
<1>5. Right(f, upto(Len(f)), m[Len(f)])
  BY <1>4 DEF T
<1>6. upto(Len(f)) = P \cup S
  BY <1>0
<1> HIDE DEF upto
<1>7. QED
  BY <1>1, <1>5, <1>6 DEF Merges

LEMMA HostDocumentSays ==
  ASSUME NoData, NEW f, Sound(f), NEW h, NEW id \in Identities(f, h)
  PROVE  SaysWhat(f, Sources(f, h, id), HostDocument(f, h, id))
<1> DEFINE S == Sources(f, h, id)
           defaults == {i \in S : f[i].include = Everyone}
           none == {}
           general == MergeOnto(Absent, f, defaults)
<1>1. Len(f) \in Nat /\ DOMAIN f = 1..Len(f)
  BY DEF Sound
<1>2. S \subseteq 1..Len(f) /\ \A i \in S : IsDocument(f[i])
  <2>1. \A i \in S : i \in DOMAIN f /\ f[i].kind = "patch"
    BY DEF Sources, PatchesFor, Patches, OfKind
  <2>2. QED
    BY <1>1, <2>1 DEF Sound, WellFormed, IsDocument
<1>3. S # {}
  BY DEF Identities, Sources
<1> HIDE DEF S
<1>4. /\ \A i, j \in defaults : i < j => Before(f, i, j)
      /\ \A i, j \in S \ defaults : i < j => Before(f, i, j)
      /\ \A i \in defaults, j \in S \ defaults : Before(f, i, j)
  BY DEF Before
<1>5. defaults \subseteq S /\ defaults \cup (S \ defaults) = S
  OBVIOUS
<1>6. HostDocument(f, h, id) = MergeOnto(general, f, S \ defaults)
  BY DEF HostDocument, S
<1> HIDE DEF defaults
<1>7. Right(f, defaults, general)
  <2>1. /\ none \subseteq 1..Len(f) /\ defaults \subseteq 1..Len(f) /\ Right(f, none, Absent)
        /\ (\A i \in none, j \in defaults : Before(f, i, j)) /\ none \cup defaults = defaults
        /\ \A i \in none \cup defaults : IsDocument(f[i])
    BY <1>2, <1>5 DEF Right
  <2> HIDE DEF none
  <2>2. Right(f, none \cup defaults, MergeOnto(Absent, f, defaults))
    BY <1>1, <1>4, <2>1, RightMerge
  <2>3. QED
    BY <2>1, <2>2
<1> HIDE DEF general
<1>8. Right(f, defaults \cup (S \ defaults), MergeOnto(general, f, S \ defaults))
  <2>1. /\ defaults \subseteq 1..Len(f) /\ S \ defaults \subseteq 1..Len(f)
        /\ \A i \in defaults \cup (S \ defaults) : IsDocument(f[i])
    BY <1>2, <1>5
  <2>2. QED
    BY <1>1, <1>4, <1>7, <2>1, RightMerge
<1>9. QED
  BY <1>3, <1>5, <1>6, <1>8 DEF Right, S

(* What a host gets is what the documents that reach it say, the most specific last. *)
THEOREM MostSpecificAlwaysWins == NoData /\ Spec => []MostSpecificWins
<1>1. ASSUME NoData, FileInv
      PROVE  MostSpecificWins
  <2> SUFFICES ASSUME NEW h, NEW id \in Identities(file, h)
               PROVE  LET S == {i \in DOMAIN file : file[i].kind = "patch" /\ Reaches(file[i], h)
                                                     /\ Identity(file[i]) = id}
                      IN  SaysWhat(file, S, HostDocument(file, h, id))
    BY DEF MostSpecificWins
  <2>1. Sound(file)
    BY <1>1 DEF FileInv
  <2>2. Sources(file, h, id) = {i \in DOMAIN file : file[i].kind = "patch" /\ Reaches(file[i], h)
                                                    /\ Identity(file[i]) = id}
    BY DEF Sources, PatchesFor, Patches, OfKind
  <2>3. QED
    BY <1>1, <2>1, <2>2, HostDocumentSays
<1>2. Init => FileInv
  BY CurrentInit DEF CurrentInv
<1>3. CASE NoData
  <2>1. FileInv => MostSpecificWins
    BY <1>1, <1>3
  <2>2. QED
    BY <1>2, <2>1, FileStep, PTL DEF Spec
<1>4. QED
  BY <1>3

===============================================================================
