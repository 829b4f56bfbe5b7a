----------------------------- MODULE SlipmeshFile -----------------------------
(***************************************************************************)
(* slipmesh.yaml as a sequence of documents, which the operator edits, and   *)
(* `generate', which refuses it or writes patch files from it: what each      *)
(* document is for and whom it reaches (slipmesh_file.rs), how patches of one *)
(* identity are merged (merge.rs), the templates it is given when it has none *)
(* (defaults.rs) and what goes into a host's patch file (patch_file.rs).      *)
(***************************************************************************)
EXTENDS Topology, SequencesExt

CONSTANTS
  Documents,   \* documents the operator may write
  BaseFiles,   \* files to begin with
  Hosts,       \* names of nodes in any of them
  Keys,        \* keys of a patch other than configFiles, and of the mappings under them
  Fresh,       \* obfuscations a run may draw (obfuscation_gen.rs)
  Absent,      \* what is not there: a key, a patch file
  Null,        \* a key's explicit null
  Everyone,    \* the include of a document that leaves it out
  RouterTemplate, NftablesTemplate, LegacyNftables, \* paths of files
  Broken,      \* contents that are no template, or read an unknown variable
  Reference,   \* the content of a default template
  MaxEdits     \* bound on the operator's edits

ASSUME FreshAssumption ==
  \A o \in Fresh : \A f \in ObfuscationFields : f \in Drawn <=> o[f] # Unset

(* A document has the fields that are read from one of its kind. *)
EntryFields == {"port", "plain", "obfuscation"}
WellFormed(d) ==
  /\ {"kind", "include", "exclude"} \subseteq DOMAIN d
  /\ d.kind = "patch" =>
       /\ {"api", "name", "delete", "body"} \subseteq DOMAIN d /\ d.delete \in BOOLEAN
       /\ DOMAIN d.body = Keys \cup {"configFiles"}
  /\ d.kind \in {"network", "roadwarriors"} => "value" \in DOMAIN d
  /\ d.kind = "roadwarriors" =>
       EntryFields \cup {"name", "hosts", "addresses", "clients"} \subseteq DOMAIN d.value
  /\ d.kind = "network" =>
       /\ {"nodes", "links", "bypass", "obfuscation"} \subseteq DOMAIN d.value
       /\ NodeNames(d.value) \subseteq Hosts
       /\ d.value.links \in Seq(Range(d.value.links))
       /\ \A l \in Range(d.value.links) : EntryFields \cup {"pair"} \subseteq DOMAIN l

Written == Documents \cup UNION {Range(f) : f \in BaseFiles}
ASSUME DocumentAssumption ==
  (\A f \in BaseFiles : f \in Seq(Range(f))) /\ \A d \in Written : WellFormed(d)

VARIABLES
  file,    \* slipmesh.yaml
  patch,   \* the patch files
  fresh,   \* history: hosts whose patch was written since the last edit
  edits    \* how many edits were made

vars == <<file, patch, fresh, edits>>

OfKind(f, k) == {i \in DOMAIN f : f[i].kind = k}
Patches(f) == OfKind(f, "patch")

-----------------------------------------------------------------------------
(* Merging (merge.rs).  A value is a leaf or a mapping of leaves; the recursion *)
(* is unrolled to the two levels that make all its cases.                       *)

IsMap(v) == v \notin {Absent, Null} /\ "map" \in DOMAIN v
Leaves(v) == IF IsMap(v) THEN v.map ELSE [k \in Keys |-> Absent]

MergeLeaves(base, over) ==
  [k \in Keys |-> CASE over[k] = Absent -> base[k]
                    [] over[k] = Null -> Absent
                    [] OTHER -> over[k]]

Merge(base, over) ==
  [k \in DOMAIN over |-> CASE over[k] = Absent -> base[k]
                           [] over[k] = Null -> Absent
                           [] IsMap(over[k]) -> [map |-> MergeLeaves(Leaves(base[k]), Leaves(over[k]))]
                           [] OTHER -> over[k]]

(* A deletion is a message to Talos and is not merged, on either side. *)
MergeDocument(base, over) ==
  IF base.delete \/ over.delete THEN over ELSE [over EXCEPT !.body = Merge(base.body, over.body)]

-----------------------------------------------------------------------------
(* Whom documents reach, and what a host gets (slipmesh_file.rs). *)

Reaches(d, h) == (d.include = Everyone \/ h \in d.include) /\ h \notin d.exclude
Identity(d) == <<d.api, d.name>>

PatchesFor(f, h) == {i \in Patches(f) : Reaches(f[i], h)}
Sources(f, h, id) == {i \in PatchesFor(f, h) : Identity(f[i]) = id}
Identities(f, h) == {Identity(f[i]) : i \in PatchesFor(f, h)}

(* The documents at some positions, in file order, merged onto what there is. *)
MergeOnto(base, f, S) ==
  LET merged[i \in 0..Len(f)] ==
        IF i = 0 THEN base
        ELSE IF i \notin S THEN merged[i - 1]
        ELSE IF merged[i - 1] = Absent THEN f[i] ELSE MergeDocument(merged[i - 1], f[i])
  IN  merged[Len(f)]

(* Mutant: in file order, whoever they are aimed at. *)
HostDocumentInFileOrder(f, h, id) == MergeOnto(Absent, f, Sources(f, h, id))

(* Defaults first, then the documents that name the host, each in file order. *)
HostDocument(f, h, id) ==
  LET defaults == {i \in Sources(f, h, id) : f[i].include = Everyone}
  IN  MergeOnto(MergeOnto(Absent, f, defaults), f, Sources(f, h, id) \ defaults)

Files(d) == d.body["configFiles"]
Sets(d, name, path) ==
  d.name = name /\ Files(d) \notin {Absent, Null} /\ path \in DOMAIN Files(d).files
SetsFile(f, name, path) == \E i \in Patches(f) : Sets(f[i], name, path)

(* The network document's, and the pools by the positions of their documents. *)
TheTopology(f) ==
  LET network == f[CHOOSE i \in DOMAIN f : f[i].kind = "network"].value
  IN  [k \in DOMAIN network \cup {"pools"} |->
         IF k = "pools" THEN [i \in OfKind(f, "roadwarriors") |-> f[i].value] ELSE network[k]]

Generated == [awg |-> "awg.yaml", router |-> "router.yaml"]

(* A patch of a generated document may add files to it, and nothing else. *)
AddsFilesOnly(d) ==
  /\ ~d.delete /\ \A k \in Keys : d.body[k] = Absent
  /\ Files(d) \notin {Absent, Null} => Generated[d.name] \notin DOMAIN Files(d).files

(* SlipmeshFile::read *)
Readable(f) ==
  /\ OfKind(f, "nftables") = {}
  /\ \E i \in DOMAIN f : OfKind(f, "network") = {i}
  /\ \A d \in Range(f) : d.kind # "patch" => d.include = Everyone /\ d.exclude = {}
  /\ \A d \in {f[i] : i \in Patches(f)} :
       /\ d.include # Everyone => d.include # {} /\ d.include \subseteq NodeNames(TheTopology(f))
       /\ d.exclude \subseteq NodeNames(TheTopology(f))
       /\ d.name \in DOMAIN Generated => AddsFilesOnly(d)
  /\ Validate(TheTopology(f))

-----------------------------------------------------------------------------
(* defaults.rs *)

Defaults == [router |-> RouterTemplate, nftables |-> NftablesTemplate]
DefaultDocument(name) ==
  [kind |-> "patch", include |-> Everyone, exclude |-> {}, api |-> "v1alpha1", name |-> name,
   delete |-> FALSE,
   body |-> [k \in Keys \cup {"configFiles"} |->
               IF k = "configFiles" THEN [files |-> [p \in {Defaults[name]} |-> Reference]]
               ELSE Absent]]

DefaultDocuments == {DefaultDocument(n) : n \in DOMAIN Defaults}

(* No patch comes in two apiVersions.  The documents are Talos's, and nothing here *)
(* looks at it: of an awg or router document in two, one is left among the others.  *)
OneApi ==
  LET patches == {d \in Written \cup DefaultDocuments : d.kind = "patch"}
  IN  \A d, e \in patches : d.name = e.name => d.api = e.api

(* Mutant: a template that is aimed at some hosts only is taken to be missing. *)
MissingForEveryone(f) ==
  {n \in DOMAIN Defaults :
     ~\E i \in Patches(f) : f[i].include = Everyone /\ Sets(f[i], n, Defaults[n])}

Missing(f) == {n \in DOMAIN Defaults : ~SetsFile(f, n, Defaults[n])}

(* append: in the order of DEFAULT_FILES, each for every host. *)
WithDefaults(f) ==
  LET added(n) == IF n \in Missing(f) THEN <<DefaultDocument(n)>> ELSE <<>>
  IN  f \o added("router") \o added("nftables")

(* Links and pools, by where they are, for which something is drawn. *)
Entries(f) ==
  LET t == TheTopology(f)
      lacks(x) == ~x.plain /\ \E k \in Drawn : x.obfuscation[k] = Unset /\ t.obfuscation[k] = Unset
  IN  {<<"link", i>> : i \in {j \in DOMAIN t.links : lacks(t.links[j])}}
      \cup {<<"pool", i>> : i \in {j \in DOMAIN t.pools : lacks(t.pools[j])}}

Recorded(f, drawn) ==
  LET t == TheTopology(f)
      record(x, at) == IF at \in DOMAIN drawn THEN Record(t, x, drawn[at]) ELSE x
  IN  [i \in DOMAIN f |->
         CASE f[i].kind = "network" ->
                [f[i] EXCEPT !.value.links = [j \in DOMAIN @ |-> record(@[j], <<"link", j>>)]]
           [] f[i].kind = "roadwarriors" ->
                [f[i] EXCEPT !.value = record(@, <<"pool", i>>)]
           [] OTHER -> f[i]]

-----------------------------------------------------------------------------
(* patch_file.rs *)

Named(f, h, name) == {i \in PatchesFor(f, h) : f[i].name = name}
FirstNamed(f, h, name) == Identity(f[Min(Named(f, h, name))])

(* take_added_files: of the document of that name that comes first. *)
AddedFiles(f, h, name) ==
  IF Named(f, h, name) = {} THEN Absent
  ELSE Files(HostDocument(f, h, FirstNamed(f, h, name)))
FilesOf(x) == IF x \in {Absent, Null} THEN <<>> ELSE x.files

Taken(f, h) == {FirstNamed(f, h, n) : n \in {m \in DOMAIN Generated : Named(f, h, m) # {}}}

(* Mutant: the documents whose files were added stay. *)
OthersAndTaken(f, h) == {HostDocument(f, h, id) : id \in Identities(f, h)}
Others(f, h) == {HostDocument(f, h, id) : id \in Identities(f, h) \ Taken(f, h)}

HasTemplate(d) == d.name = "nftables" /\ NftablesTemplate \in DOMAIN FilesOf(Files(d))

(* add_legacy_nftables_file: the ruleset once more, for an older daemon. *)
WithLegacy(d) ==
  IF ~HasTemplate(d) THEN d
  ELSE [d EXCEPT !.body["configFiles"].files =
          [p \in DOMAIN @ \cup {LegacyNftables} |->
             IF p \in DOMAIN @ THEN @[p] ELSE <<"ruleset", @[NftablesTemplate]>>]]

TemplatesValid(f, h) ==
  LET added == FilesOf(AddedFiles(f, h, "router"))
  IN  /\ RouterTemplate \in DOMAIN added /\ added[RouterTemplate] \notin Broken
      /\ \A d \in Others(f, h) :
           HasTemplate(d) => FilesOf(Files(d))[NftablesTemplate] \notin Broken

HostRenders(f, h) ==
  /\ NodeRenders(TheTopology(f), h)
  /\ \A n \in DOMAIN Generated : AddedFiles(f, h, n) # Null
  /\ TemplatesValid(f, h)

PatchFile(f, h) ==
  [others |-> {WithLegacy(d) : d \in Others(f, h)},
   awg    |-> [config |-> AwgConfig(TheTopology(f), h), files |-> FilesOf(AddedFiles(f, h, "awg"))],
   router |-> [config |-> RouterConfig(TheTopology(f), h),
               files |-> FilesOf(AddedFiles(f, h, "router"))]]

-----------------------------------------------------------------------------
(* `generate', for one host or for all, and the operator's edits. *)

Init ==
  /\ file \in BaseFiles
  /\ patch = [h \in Hosts |-> Absent]
  /\ fresh = {} /\ edits = 0

(* Every host is rendered and validated before anything is written: a run that *)
(* refuses leaves everything as it was.                                        *)
Generate(targets) ==
  /\ Readable(file)
  /\ targets \subseteq NodeNames(TheTopology(file))
  /\ \E drawn \in [Entries(file) -> Fresh] :
       LET f == WithDefaults(Recorded(file, drawn))
       IN  /\ \A h \in targets : HostRenders(f, h)
           /\ file' = f
           /\ patch' = [h \in Hosts |-> IF h \in targets THEN PatchFile(f, h) ELSE patch[h]]
  /\ fresh' = fresh \cup targets
  /\ UNCHANGED edits

Edit(f) ==
  /\ edits < MaxEdits
  /\ file' = f
  /\ fresh' = {} /\ edits' = edits + 1
  /\ UNCHANGED patch

Insert(i, d) == Edit(InsertAt(file, i, d))
Delete(i) == Edit(RemoveAt(file, i))
Rewrite(i, d) == d.kind = file[i].kind /\ Edit(ReplaceAt(file, i, d))

Next ==
  \/ \E h \in Hosts : Generate({h})
  \/ Readable(file) /\ Generate(NodeNames(TheTopology(file)))
  \/ \E d \in Documents : \/ \E i \in 1..Len(file) + 1 : Insert(i, d)
                          \/ \E i \in DOMAIN file : Rewrite(i, d)
  \/ \E i \in DOMAIN file : Delete(i)

Spec == Init /\ [][Next]_vars

-----------------------------------------------------------------------------
(* Properties *)

Links(h) == {i \in Range(patch[h].awg.config.interfaces) : i.name[1] = "mesh"}
Bird(h) == BirdContext(patch[h].router.config)

(* The two ends of a link fit, whichever runs wrote them: each has one interface
   for the other with the same port and the same obfuscation, knows the other's
   key, and dials the port the other listens on.  "Magic-header substitution
   requires both peers to agree on the same values" (secrets.rs:8). *)
EndsFit ==
  \A h, g \in fresh : \A i \in Links(h) :
    i.name[2] = g =>
      \E j \in Links(g) :
        /\ \A k \in Links(g) : k.name[2] = h <=> k = j
        /\ j.port = i.port /\ j.obfuscation = i.obfuscation
        /\ i.peers[1].key = PublicKey(j.key)
        /\ i.peers[1].endpoint # Unset => i.peers[1].endpoint[2] = j.port

(* Every two nodes have a BGP session whose ends name each other, from and to the
   addresses that the nodes bring up, and metrics are served on one of those. *)
NodesMeet ==
  \A h, g \in fresh :
    /\ h # g => \E s \in Bird(h).sessions, r \in Bird(g).sessions :
                  s.from = r.to /\ s.to = r.from /\ s.to = patch[g].router.config.loopbacks.v6
    /\ \A m \in {patch[h].awg.config.metrics, patch[h].router.config.metrics} \ {Unset} :
         m[1] = patch[h].router.config.loopbacks.v4

(* What a node needs to start on a patch file, however old: one document of each
   name, the generated ones among them, a router template, ports and interface
   names that do not collide. *)
Starts(p) ==
  LET ifaces == p.awg.config.interfaces
  IN  /\ \A d, e \in p.others : d.name = e.name => d = e
      /\ \A d \in p.others : d.name \notin DOMAIN Generated
      /\ RouterTemplate \in DOMAIN p.router.files
      /\ \A k, j \in DOMAIN ifaces :
           k # j => ifaces[k].port # ifaces[j].port /\ ifaces[k].name # ifaces[j].name
NodeStarts == \A h \in Hosts : patch[h] # Absent => Starts(patch[h])

(* The merged document, said without merging: of the documents of an identity
   that reach the host, the last one, those that name the host coming after those
   that do not, decides about each key it mentions.  A deletion cuts off what is
   before it; a leaf cuts off a mapping. *)
Before(f, i, j) ==
  LET aimed(k) == f[k].include # Everyone
  IN  (aimed(j) /\ ~aimed(i)) \/ (aimed(i) = aimed(j) /\ i < j)

LastOf(f, S) == CHOOSE i \in S : \A j \in S : j = i \/ Before(f, j, i)

Mentioning(f, S, k) == {i \in S : f[i].body[k] # Absent}
Mapping(f, S, k) == {i \in S : IsMap(f[i].body[k])}
Uncut(f, S, k) ==
  {i \in Mapping(f, S, k) :
     \A j \in Mentioning(f, S, k) \ Mapping(f, S, k) : Before(f, j, i)}
DecidedLeaf(f, S, k, leaf) ==
  LET said == {i \in Uncut(f, S, k) : f[i].body[k].map[leaf] # Absent}
  IN  IF said = {} THEN Null ELSE f[LastOf(f, said)].body[k].map[leaf]
Decided(f, S, k) ==
  LET last == LastOf(f, Mentioning(f, S, k))
  IN  IF Mentioning(f, S, k) = {} THEN Null
      ELSE IF last \in Mapping(f, S, k) THEN [map |-> [l \in Keys |-> DecidedLeaf(f, S, k, l)]]
      ELSE f[last].body[k]

Nulled(v) == IF IsMap(v) THEN [map |-> [s \in Keys |-> IF v.map[s] = Absent THEN Null ELSE v.map[s]]]
             ELSE IF v = Absent THEN Null ELSE v

SaysWhat(f, S, d) ==
  LET deleting == {i \in S : f[i].delete}
      after == {i \in S : \A j \in deleting : Before(f, j, i)}
  IN  IF after = {} THEN d = f[LastOf(f, S)]
      ELSE ~d.delete /\ \A k \in DOMAIN d.body : Nulled(d.body[k]) = Decided(f, after, k)

MostSpecificWins ==
  Readable(file) =>
    \A h \in NodeNames(TheTopology(file)) : \A id \in Identities(file, h) :
      LET S == {i \in DOMAIN file : file[i].kind = "patch" /\ Reaches(file[i], h)
                                    /\ Identity(file[i]) = id}
      IN  SaysWhat(file, S, HostDocument(file, h, id))

Template(f, h, n) ==
  LET x == FilesOf(AddedFiles(f, h, n))
  IN  IF Defaults[n] \in DOMAIN x THEN x[Defaults[n]] ELSE Absent

(* `generate' never gives or takes a host a template that some document sets, for
   whichever hosts: "who goes without it was decided by whoever aimed that document,
   and a default for everyone would undo the decision" (defaults.rs:29-30). *)
AimKept ==
  [][edits' = edits =>
       \A n \in DOMAIN Defaults : SetsFile(file, n, Defaults[n]) =>
         \A h \in NodeNames(TheTopology(file)) : Template(file', h, n) = Template(file, h, n)]_vars

=============================================================================
