------------------------------ MODULE Taloscfg ------------------------------
(***************************************************************************)
(* The generator on the operator's workstation (src/taloscfg): `generate',  *)
(* `rw-add', `rw-del' and `rw-inspect' as processes that may overlap, over  *)
(* slipmesh.yaml, which is replaced atomically, and the patch files, which  *)
(* are truncated and written.  A secret is a key or an obfuscation that a   *)
(* run mints when the file does not set it; the n-th one minted for a       *)
(* secret is the number n.                                                  *)
(***************************************************************************)
EXTENDS Naturals, FiniteSets

CONSTANTS
  Procs,        \* invocations that may be under way at a time
  Hosts,        \* the hosts of slipmesh.yaml, a patch file each
  Secrets,      \* node keys, link obfuscations, pool keys and obfuscations
  Uses,         \* the secrets (or their public halves) a host's patch carries
  PoolSecrets,  \* the secrets a client's config is built with
  PoolHosts,    \* the hosts the pool is served from
  Clients,      \* names of clients
  Nothing,      \* the content of a file that is missing or empty
  Torn,         \* the content of a file written in part, or by two at once
  MaxMints,     \* bound on the values minted for one secret
  MaxMishaps    \* bound on secrets deleted and invocations that end early

Unset == 0
Value == 0..MaxMints
Config == [secret : [Secrets -> Value], clients : SUBSET Clients]

(* What host h's awg config has of the file c: the keys of its own end and of *)
(* its peers', the obfuscation of its links and pools; and their clients.     *)
SecretsIn(c, h) == [s \in Uses[h] |-> c.secret[s]]
ClientsIn(c, h) == IF h \in PoolHosts THEN c.clients ELSE {}

(* Host h's patch file. *)
Rendering(c, h) == [secret |-> SecretsIn(c, h), clients |-> ClientsIn(c, h)]

ASSUME TopologyAssumption ==
  /\ Uses \in [Hosts -> SUBSET Secrets]
  /\ PoolSecrets \subseteq Secrets /\ PoolHosts \subseteq Hosts
  /\ MaxMints \in Nat /\ MaxMishaps \in Nat

ASSUME ContentAssumption ==
  /\ Nothing # Torn
  /\ \A c \in Config : \A h \in Hosts : Rendering(c, h) \notin {Nothing, Torn}

VARIABLES
  conf,      \* slipmesh.yaml
  patches,   \* the patch files
  minted,    \* how many values were ever minted for a secret
  recorded,  \* history: the values slipmesh.yaml ever held
  rotated,   \* history: secrets whose value the operator deleted, or an
             \* invocation overwrote that had read an older file
  pc,        \* where an invocation is, "idle" when it is over
  op,        \* its command
  view,      \* the file as it read it, with what it minted and edited
  unsaved,   \* whether it has yet to write that
  todo,      \* hosts it has yet to render
  pending,   \* hosts whose patch it is going to write
  writing,   \* the host whose patch it has truncated, if any
  outdated,  \* history: it has, and slipmesh.yaml was changed since it read it
  mishaps    \* how many secrets were deleted and invocations ended early

files == <<conf, patches>>
history == <<minted, recorded, rotated>>
procVars == <<pc, op, view, unsaved, todo, pending, writing, outdated>>
vars == <<files, history, procVars, mishaps>>

Missing(c) == {s \in Secrets : c.secret[s] = Unset}

(* secrets::resolve and edit::record: the file with every secret that it *)
(* does not set minted, and nothing else touched.                        *)
Settled(c) ==
  [c EXCEPT !.secret = [s \in Secrets |-> IF s \in Missing(c) THEN minted[s] + 1
                                                              ELSE c.secret[s]]]

Mint(c) ==
  /\ \A s \in Missing(c) : minted[s] < MaxMints
  /\ minted' = [s \in Secrets |-> IF s \in Missing(c) THEN minted[s] + 1 ELSE minted[s]]

NoSecrets == [s \in Secrets |-> Unset]
Blank == [secret |-> NoSecrets, clients |-> {}]

Init ==
  /\ conf = Blank
  /\ patches = [h \in Hosts |-> Nothing]
  /\ minted = NoSecrets
  /\ recorded = [s \in Secrets |-> {}]
  /\ rotated = {}
  /\ pc = [p \in Procs |-> "idle"] /\ op = [p \in Procs |-> "none"]
  /\ view = [p \in Procs |-> Blank] /\ unsaved = [p \in Procs |-> FALSE]
  /\ todo = [p \in Procs |-> {}] /\ pending = [p \in Procs |-> {}]
  /\ writing = [p \in Procs |-> {}] /\ outdated = [p \in Procs |-> FALSE]
  /\ mishaps = 0

-----------------------------------------------------------------------------
(* Reading slipmesh.yaml, and everything a command does in memory. *)

Begin(p, command, place, seen, mustSave, targets) ==
  /\ pc[p] = "idle"
  /\ pc' = [pc EXCEPT ![p] = place]
  /\ op' = [op EXCEPT ![p] = command]
  /\ view' = [view EXCEPT ![p] = seen]
  /\ unsaved' = [unsaved EXCEPT ![p] = mustSave]
  /\ todo' = [todo EXCEPT ![p] = targets]
  /\ outdated' = [outdated EXCEPT ![p] = FALSE]
  /\ UNCHANGED <<files, recorded, rotated, pending, writing, mishaps>>

(* The secrets of the whole topology, whichever hosts are rendered.  The file *)
(* is written as well when it lacks a default template, which is not part of  *)
(* the model: either may be.                                                  *)
Generate(p, targets) ==
  /\ Mint(conf)
  /\ \E lacking \in BOOLEAN :
       Begin(p, "generate", "render", Settled(conf), lacking \/ Missing(conf) # {}, targets)

(* --diff stops at a secret that would have to be minted; what it prints *)
(* holds the others.  --check prints none, and changes nothing at all.   *)
Diff(p) ==
  /\ Missing(conf) = {}
  /\ UNCHANGED minted
  /\ Begin(p, "diff", "print", conf, FALSE, {})

(* Mutant: the client's config gets a pool key of its own, which is written. *)
RwAddOwnKey(p, command, c) ==
  LET own == [s \in Secrets |-> IF s \in PoolSecrets THEN minted[s] + 1 ELSE conf.secret[s]]
  IN  /\ c \notin conf.clients
      /\ \A s \in Secrets : minted[s] < MaxMints
      /\ minted' = [s \in Secrets |-> minted[s] + 1]
      /\ Begin(p, command, "save", [secret |-> own, clients |-> conf.clients \cup {c}], TRUE, {})

(* A name that is taken is refused.  "export" prints the client's config. *)
RwAdd(p, command, c) ==
  /\ c \notin conf.clients
  /\ Mint(conf)
  /\ Begin(p, command, "save", [Settled(conf) EXCEPT !.clients = @ \cup {c}], TRUE, {})

RwDel(p, c) ==
  /\ c \in conf.clients
  /\ UNCHANGED minted
  /\ Begin(p, "del", "save", [conf EXCEPT !.clients = @ \ {c}], TRUE, {})

(* Mutant: a secret that is not written down is minted for the config alone. *)
RwInspectMinting(p, c) ==
  /\ c \in conf.clients
  /\ Mint(conf)
  /\ Begin(p, "export", "print", Settled(conf), FALSE, {})

(* Only the pool's own secrets have to be written down already. *)
RwInspect(p, c) ==
  /\ c \in conf.clients
  /\ Missing(conf) \cap PoolSecrets = {}
  /\ UNCHANGED minted
  /\ Begin(p, "export", "print", conf, FALSE, {})

-----------------------------------------------------------------------------
(* The invocation's steps on the file system. *)

(* Over, for whatever reason: what it had in memory is forgotten. *)
Forget(p) ==
  /\ pc' = [pc EXCEPT ![p] = "idle"] /\ op' = [op EXCEPT ![p] = "none"]
  /\ view' = [view EXCEPT ![p] = Blank] /\ unsaved' = [unsaved EXCEPT ![p] = FALSE]
  /\ todo' = [todo EXCEPT ![p] = {}] /\ pending' = [pending EXCEPT ![p] = {}]
  /\ writing' = [writing EXCEPT ![p] = {}]

End(p) == Forget(p) /\ outdated' = [outdated EXCEPT ![p] = FALSE]

(* Mutant: a patch that is there is taken to be the right one. *)
RenderHostOnce(p, h) ==
  LET rest == todo[p] \ {h}
  IN  /\ pc[p] = "render" /\ h \in todo[p]
      /\ todo' = [todo EXCEPT ![p] = rest]
      /\ pending' = [pending EXCEPT ![p] = IF patches[h] # Nothing THEN @ ELSE @ \cup {h}]
      /\ pc' = [pc EXCEPT ![p] = IF rest # {} THEN @ ELSE IF unsaved[p] THEN "save" ELSE "patch"]
      /\ UNCHANGED <<files, history, op, view, unsaved, writing, outdated, mishaps>>

(* A host is rendered, and its patch read: only one that differs is written, *)
(* and nothing is before every host is rendered.                             *)
RenderHost(p, h) ==
  LET rest == todo[p] \ {h}
  IN  /\ pc[p] = "render" /\ h \in todo[p]
      /\ todo' = [todo EXCEPT ![p] = rest]
      /\ pending' = [pending EXCEPT ![p] = IF patches[h] = Rendering(view[p], h)
                                           THEN @ ELSE @ \cup {h}]
      /\ pc' = [pc EXCEPT ![p] = IF rest # {} THEN @ ELSE IF unsaved[p] THEN "save" ELSE "patch"]
      /\ UNCHANGED <<files, history, op, view, unsaved, writing, outdated, mishaps>>

(* slipmesh.yaml becomes c: what others have yet to write is outdated. *)
Replace(c, p) ==
  /\ conf' = c
  /\ recorded' = [s \in Secrets |-> recorded[s] \cup ({c.secret[s]} \ {Unset})]
  /\ outdated' = [q \in Procs |-> q # p /\ unsaved[q] /\ (outdated[q] \/ c # conf)]

Overwritten(c) == {s \in Secrets : conf.secret[s] \notin {Unset, c.secret[s]}}

(* What is left to do once slipmesh.yaml is written. *)
AfterSaving(p) ==
  \/ /\ op[p] \in {"generate", "export"}
     /\ pc' = [pc EXCEPT ![p] = IF op[p] = "generate" THEN "patch" ELSE "print"]
     /\ unsaved' = [unsaved EXCEPT ![p] = FALSE]
     /\ UNCHANGED <<op, view, todo, pending, writing>>
  \/ op[p] \in {"add", "del"} /\ Forget(p)

(* Mutant: rw-add writes the client, and not what it minted. *)
SaveClients(p) ==
  /\ pc[p] = "save"
  /\ Replace(IF op[p] = "generate" THEN view[p] ELSE [conf EXCEPT !.clients = view[p].clients], p)
  /\ rotated' = rotated \cup (IF outdated[p] THEN Overwritten(view[p]) ELSE {})
  /\ AfterSaving(p)
  /\ UNCHANGED <<patches, minted, mishaps>>

Save(p) ==
  /\ pc[p] = "save"
  /\ Replace(view[p], p)
  /\ rotated' = rotated \cup (IF outdated[p] THEN Overwritten(view[p]) ELSE {})
  /\ AfterSaving(p)
  /\ UNCHANGED <<patches, minted, mishaps>>

(* Mutant: every patch file is opened before any is written. *)
TruncateAll(p, h) ==
  /\ pc[p] = "patch" /\ h \in pending[p] \ writing[p]
  /\ writing' = [writing EXCEPT ![p] = @ \cup {h}]
  /\ patches' = [patches EXCEPT ![h] = Nothing]
  /\ UNCHANGED <<conf, history, pc, op, view, unsaved, todo, pending, outdated, mishaps>>

(* fs::write opens and truncates the file ... *)
Truncate(p, h) ==
  /\ pc[p] = "patch" /\ writing[p] = {} /\ h \in pending[p]
  /\ writing' = [writing EXCEPT ![p] = {h}]
  /\ patches' = [patches EXCEPT ![h] = Nothing]
  /\ UNCHANGED <<conf, history, pc, op, view, unsaved, todo, pending, outdated, mishaps>>

(* ... and writes it from its start: over the content of another that       *)
(* truncated it too, and has written meanwhile, whose longer end may remain. *)
Fill(p, h) ==
  /\ h \in writing[p]
  /\ LET text == Rendering(view[p], h)
     IN  \E left \in IF patches[h] \in {Nothing, text} THEN {text} ELSE {text, Torn} :
           patches' = [patches EXCEPT ![h] = left]
  /\ writing' = [writing EXCEPT ![p] = {}]
  /\ pending' = [pending EXCEPT ![p] = @ \ {h}]
  /\ UNCHANGED <<conf, history, pc, op, view, unsaved, todo, outdated, mishaps>>

(* The end: a client's config or a diff printed, the last patch written. *)
Finish(p) ==
  /\ pc[p] = "print" \/ (pc[p] = "patch" /\ pending[p] = {})
  /\ End(p)
  /\ UNCHANGED <<files, history, mishaps>>

-----------------------------------------------------------------------------
(* Faults, and the operator. *)

(* The process is killed, or fails: a host that does not validate, a patch   *)
(* that cannot be read, a slipmesh.yaml that cannot be replaced, a file that *)
(* is truncated and not, or not all, written.                                *)
Abort(p) ==
  /\ pc[p] # "idle" /\ mishaps < MaxMishaps
  /\ mishaps' = mishaps + 1
  /\ End(p)
  /\ patches' \in IF writing[p] = {} THEN {patches}
                  ELSE {patches} \cup {[patches EXCEPT ![h] = Torn] : h \in writing[p]}
  /\ UNCHANGED <<conf, history>>

(* The operator deletes a secret, for the next run to mint it anew. *)
Rotate(s) ==
  /\ mishaps < MaxMishaps /\ s \notin Missing(conf)
  /\ conf' = [conf EXCEPT !.secret[s] = Unset]
  /\ rotated' = rotated \cup {s}
  /\ outdated' = unsaved
  /\ mishaps' = mishaps + 1
  /\ UNCHANGED <<patches, minted, recorded, pc, op, view, unsaved, todo, pending,
                 writing>>

Start(p) ==
  \/ \E targets \in {Hosts} \cup {{h} : h \in Hosts} : Generate(p, targets)
  \/ Diff(p)
  \/ \E c \in Clients : \/ \E command \in {"add", "export"} : RwAdd(p, command, c)
                        \/ RwDel(p, c)
                        \/ RwInspect(p, c)

Step(p) ==
  \/ \E h \in Hosts : RenderHost(p, h) \/ Truncate(p, h) \/ Fill(p, h)
  \/ Save(p) \/ Finish(p)

Next == (\E p \in Procs : Start(p) \/ Step(p) \/ Abort(p)) \/ \E s \in Secrets : Rotate(s)

Spec == Init /\ [][Next]_vars

(* An invocation that is under way goes on; nobody has to start one. *)
FairSpec == Spec /\ \A p \in Procs : WF_vars(Step(p))

-----------------------------------------------------------------------------
(* Properties *)

Commands == {"none", "generate", "diff", "add", "export", "del"}
Places == {"idle", "render", "save", "patch", "print"}
Intact(h) == patches[h] \notin {Nothing, Torn}

(* Types of the variables. *)
TypeOK ==
  /\ conf \in Config
  /\ DOMAIN patches = Hosts
  /\ \A h \in Hosts : Intact(h) => \E c \in Config : patches[h] = Rendering(c, h)
  /\ minted \in [Secrets -> Value]
  /\ recorded \in [Secrets -> SUBSET Value] /\ rotated \subseteq Secrets
  /\ pc \in [Procs -> Places] /\ op \in [Procs -> Commands]
  /\ view \in [Procs -> Config] /\ unsaved \in [Procs -> BOOLEAN]
  /\ todo \in [Procs -> SUBSET Hosts] /\ pending \in [Procs -> SUBSET Hosts]
  /\ writing \in [Procs -> SUBSET Hosts] /\ outdated \in [Procs -> BOOLEAN]
  /\ \A p \in Procs : \A h, g \in writing[p] : h = g /\ h \in pending[p]
  /\ mishaps \in 0..MaxMishaps

(* No secret leaves the tool that slipmesh.yaml does not hold or has not held:
   whatever overlaps, fails or is killed, a key in a patch, in a client's config
   or in a printed diff was written down first.  "A key minted for the exported
   config has to be the one `generate' puts on the wire, not a key that dies
   with this process" (main.rs:206). *)
RecordedFirst ==
  /\ \A h \in Hosts : Intact(h) => \A s \in Uses[h] : patches[h].secret[s] \in recorded[s]
  /\ \A p \in Procs : pc[p] = "print" =>
       \A s \in IF op[p] = "diff" THEN Secrets ELSE PoolSecrets : view[p].secret[s] \in recorded[s]

(* The two ends of a link, and a pool and its clients, have the same secrets:
   those of slipmesh.yaml, in every whole patch, of whichever run, and in every
   config being printed, except for secrets that were rotated. *)
EndsAgree ==
  /\ \A h \in Hosts : Intact(h) =>
       \A s \in Uses[h] \ rotated : patches[h].secret[s] = conf.secret[s]
  /\ \A p \in Procs : pc[p] = "print" =>
       \A s \in PoolSecrets \ rotated : view[p].secret[s] = conf.secret[s]

(* An invocation that is alone in changing slipmesh.yaml rotates no secret that
   is set and takes out nothing but the client it was told to: what others wrote
   before it read the file is still there ("A regeneration never rotates a key
   that is written down", README.md:461). *)
NothingLost ==
  [][\A p \in Procs :
       pc[p] = "save" /\ pc'[p] # "save" /\ ~outdated[p] =>
         /\ \A s \in Secrets \ Missing(conf) : conf'.secret[s] = conf.secret[s]
         /\ \/ conf.clients \subseteq conf'.clients
            \/ op[p] = "del" /\ \E c \in conf.clients : conf'.clients = conf.clients \ {c}]_vars

InStep(h) == patches[h] = Rendering(conf, h)
BeingWritten(h) == patches[h] = Nothing /\ \E p \in Procs : h \in writing[p]
FullRun == \E p \in Procs : pc[p] = "idle" /\ op'[p] = "generate" /\ todo'[p] = Hosts

(* Patches follow slipmesh.yaml: once it is no longer changed and no invocation
   fails, and provided `generate' is run for every host again and again, no patch
   torn, overwritten, stale or absent before is seen any more, and a patch is
   empty only while somebody is writing it. *)
PatchesFollow ==
  (/\ <>[][UNCHANGED <<conf, mishaps>>]_vars
   /\ []<><<FullRun>>_vars)
  => <>[](\A h \in Hosts : InStep(h) \/ BeingWritten(h))

=============================================================================
