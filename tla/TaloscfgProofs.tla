--------------------------- MODULE TaloscfgProofs ---------------------------
(***************************************************************************)
(* What holds of Taloscfg for all hosts, secrets and clients, any number   *)
(* of invocations at a time and every bound: nothing is given out that was *)
(* not written down, the patches agree, and an invocation that is alone in *)
(* changing slipmesh.yaml takes nothing away.                              *)
(***************************************************************************)
EXTENDS Taloscfg, TLAPS

USE TopologyAssumption

LEMMA RenderingIsText ==
  ASSUME NEW c \in Config, NEW h \in Hosts
  PROVE  Rendering(c, h) # Nothing /\ Rendering(c, h) # Torn
BY ContentAssumption

(* What minting makes of slipmesh.yaml: a file that lacks nothing, and keeps
   what was set. *)
LEMMA SettledFile ==
  ASSUME TypeOK, Mint(conf)
  PROVE  /\ Settled(conf) \in Config /\ minted' \in [Secrets -> Value]
         /\ Settled(conf).clients = conf.clients
         /\ \A s \in Secrets : /\ Settled(conf).secret[s] # Unset
                               /\ s \notin Missing(conf)
                                    => Settled(conf).secret[s] = conf.secret[s]
<1>c. /\ conf \in [secret : [Secrets -> Value], clients : SUBSET Clients]
      /\ minted \in [Secrets -> Value]
  BY DEF TypeOK, Config
<1>1. \A s \in Missing(conf) : minted[s] + 1 \in 1..MaxMints
  BY <1>c DEF Mint, Missing, Value
<1>2. minted' \in [Secrets -> Value]
  BY <1>c, <1>1 DEF Mint, Value
<1> DEFINE secret == [s \in Secrets |-> IF s \in Missing(conf) THEN minted[s] + 1
                                                              ELSE conf.secret[s]]
<1>3. secret \in [Secrets -> Value] /\ \A s \in Secrets : secret[s] # Unset
  BY <1>c, <1>1 DEF Missing, Value, Unset
<1>4. Settled(conf) = [secret |-> secret, clients |-> conf.clients]
  BY <1>c DEF Settled
<1>5. QED
  BY <1>c, <1>2, <1>3, <1>4 DEF Config

-----------------------------------------------------------------------------

LEMMA TypeInit == Init => TypeOK
<1> SUFFICES ASSUME Init PROVE TypeOK
  OBVIOUS
<1>1. NoSecrets \in [Secrets -> Value] /\ Blank \in Config
  BY DEF NoSecrets, Blank, Config, Value, Unset
<1>2. QED
  BY <1>1 DEF Init, TypeOK, Intact, Places, Commands

LEMMA TypeBegin ==
  ASSUME TypeOK, NEW p \in Procs, NEW command \in Commands, NEW place \in Places,
         NEW seen \in Config, NEW mustSave \in BOOLEAN, NEW targets \in SUBSET Hosts,
         Begin(p, command, place, seen, mustSave, targets),
         minted' \in [Secrets -> Value]
  PROVE  TypeOK'
BY DEF TypeOK, Begin, files, Intact

(* What every end of an invocation leaves behind. *)
LEMMA TypeForget ==
  ASSUME TypeOK, NEW p \in Procs, Forget(p)
  PROVE  /\ pc' \in [Procs -> Places] /\ op' \in [Procs -> Commands]
         /\ view' \in [Procs -> Config] /\ unsaved' \in [Procs -> BOOLEAN]
         /\ todo' \in [Procs -> SUBSET Hosts] /\ pending' \in [Procs -> SUBSET Hosts]
         /\ writing' \in [Procs -> SUBSET Hosts]
         /\ \A q \in Procs : \A h, g \in writing'[q] : h = g /\ h \in pending'[q]
<1>1. Blank \in Config
  BY DEF Blank, NoSecrets, Config, Value, Unset
<1>2. QED
  BY <1>1 DEF TypeOK, Forget, Places, Commands

(* What a command may give out of the file it has read. *)
Scope(command) == IF command = "export" THEN PoolSecrets ELSE Secrets

(* What every command makes of slipmesh.yaml before it touches a file: it keeps
   the secrets that are set, and the clients but for the one it deletes; what it
   will write lacks nothing, unless it only deletes; and it does without writing
   only where nothing it gives out is missing. *)
Sound(command, place, seen, mustSave) ==
  /\ place \in {"render", "save", "print"}
  /\ place = "render" => command = "generate"
  /\ place = "save" => mustSave /\ command \in {"add", "export", "del"}
  /\ place = "print" => ~mustSave /\ command \in {"diff", "export"}
  /\ \A s \in Secrets \ Missing(conf) : seen.secret[s] = conf.secret[s]
  /\ mustSave /\ command # "del" => \A s \in Secrets : seen.secret[s] # Unset
  /\ ~mustSave => Scope(command) \cap Missing(conf) = {}
  /\ \/ command # "del" /\ conf.clients \subseteq seen.clients
     \/ command = "del" /\ \E c \in conf.clients : seen.clients = conf.clients \ {c}

LEMMA Starting ==
  ASSUME TypeOK, NEW p \in Procs, Start(p)
  PROVE  /\ minted' \in [Secrets -> Value]
         /\ \E command \in Commands, place \in Places, seen \in Config,
               mustSave \in BOOLEAN, targets \in SUBSET Hosts :
               /\ Begin(p, command, place, seen, mustSave, targets)
               /\ Sound(command, place, seen, mustSave)
<1> DEFINE Started ==
      /\ minted' \in [Secrets -> Value]
      /\ \E command \in Commands, place \in Places, seen \in Config,
            mustSave \in BOOLEAN, targets \in SUBSET Hosts :
            /\ Begin(p, command, place, seen, mustSave, targets)
            /\ Sound(command, place, seen, mustSave)
<1>c. conf \in Config /\ minted \in [Secrets -> Value]
  BY DEF TypeOK
<1>f. ASSUME \E targets \in {Hosts} \cup {{h} : h \in Hosts} : Generate(p, targets)
      PROVE  Started
  <2>1. PICK targets \in SUBSET Hosts : Generate(p, targets)
    BY <1>f
  <2>2. PICK lacking \in BOOLEAN :
           Begin(p, "generate", "render", Settled(conf), lacking \/ Missing(conf) # {}, targets)
    BY <2>1 DEF Generate
  <2>3. PICK mustSave \in BOOLEAN : /\ mustSave <=> (lacking \/ Missing(conf) # {})
                                    /\ Begin(p, "generate", "render", Settled(conf), mustSave, targets)
    BY <2>2
  <2>4. Sound("generate", "render", Settled(conf), mustSave)
    BY <2>1, <2>3, SettledFile DEF Generate, Sound, Scope, Missing
  <2>5. QED
    BY <2>1, <2>3, <2>4, SettledFile DEF Generate, Commands, Places
<1>d. ASSUME Diff(p) PROVE Started
  <2>1. Begin(p, "diff", "print", conf, FALSE, {}) /\ Sound("diff", "print", conf, FALSE)
    BY <1>d DEF Diff, Sound, Scope
  <2>2. QED
    BY <1>c, <1>d, <2>1 DEF Diff, Commands, Places
<1>a. ASSUME NEW command \in {"add", "export"}, NEW c \in Clients, RwAdd(p, command, c)
      PROVE  Started
  <2> DEFINE seen == [Settled(conf) EXCEPT !.clients = @ \cup {c}]
  <2>1. /\ seen \in Config /\ minted' \in [Secrets -> Value]
        /\ seen.secret = Settled(conf).secret /\ seen.clients = conf.clients \cup {c}
    BY <1>a, SettledFile DEF RwAdd, Config
  <2>2. PICK mustSave \in BOOLEAN, targets \in SUBSET Hosts :
           mustSave /\ Begin(p, command, "save", seen, mustSave, targets)
    <3>1. /\ TRUE \in BOOLEAN /\ {} \in SUBSET Hosts
          /\ TRUE /\ Begin(p, command, "save", seen, TRUE, {})
      BY <1>a DEF RwAdd
    <3> HIDE DEF seen
    <3>2. QED
      BY <3>1, Zenon
  <2> HIDE DEF seen
  <2>3. Sound(command, "save", seen, mustSave)
    BY <1>a, <2>1, <2>2, SettledFile DEF RwAdd, Sound
  <2>4. command \in Commands /\ "save" \in Places
    BY DEF Commands, Places
  <2>5. QED
    BY <2>1, <2>2, <2>3, <2>4
<1>x. ASSUME NEW c \in Clients, RwDel(p, c) PROVE Started
  <2> DEFINE seen == [conf EXCEPT !.clients = @ \ {c}]
  <2>1. seen \in Config /\ seen.secret = conf.secret /\ seen.clients = conf.clients \ {c}
    BY <1>c DEF Config
  <2>2. PICK mustSave \in BOOLEAN, targets \in SUBSET Hosts :
           mustSave /\ Begin(p, "del", "save", seen, mustSave, targets)
    <3>1. /\ TRUE \in BOOLEAN /\ {} \in SUBSET Hosts
          /\ TRUE /\ Begin(p, "del", "save", seen, TRUE, {})
      BY <1>x DEF RwDel
    <3> HIDE DEF seen
    <3>2. QED
      BY <3>1, Zenon
  <2> HIDE DEF seen
  <2>x. c \in conf.clients /\ minted' = minted
    BY <1>x DEF RwDel
  <2>3. Sound("del", "save", seen, mustSave)
    BY <2>1, <2>2, <2>x DEF Sound
  <2>4. "del" \in Commands /\ "save" \in Places
    BY DEF Commands, Places
  <2>5. \E cmd \in Commands, place \in Places, file \in Config,
           save \in BOOLEAN, goals \in SUBSET Hosts :
             Begin(p, cmd, place, file, save, goals) /\ Sound(cmd, place, file, save)
    BY <2>1, <2>2, <2>3, <2>4, Zenon
  <2>6. QED
    BY <1>c, <2>x, <2>5
<1>i. ASSUME NEW c \in Clients, RwInspect(p, c) PROVE Started
  <2>1. Begin(p, "export", "print", conf, FALSE, {}) /\ Sound("export", "print", conf, FALSE)
    BY <1>i DEF RwInspect, Sound, Scope
  <2>2. QED
    BY <1>c, <1>i, <2>1 DEF RwInspect, Commands, Places
<1>q. QED
  BY <1>f, <1>d, <1>a, <1>x, <1>i DEF Start

(* Whoever ends early leaves at most the one file it was writing torn. *)
LEMMA TornAtMost ==
  ASSUME TypeOK, NEW p \in Procs, Abort(p)
  PROVE  \A h \in Hosts : patches'[h] \in {patches[h], Torn}
<1>1. CASE writing[p] = {}
  BY <1>1 DEF Abort
<1>2. CASE writing[p] # {}
  BY <1>2 DEF Abort, TypeOK
<1>3. QED
  BY <1>1, <1>2

LEMMA TypeStep == TypeOK /\ [Next]_vars => TypeOK'
<1> SUFFICES ASSUME TypeOK, [Next]_vars PROVE TypeOK'
  OBVIOUS
<1> USE DEF history, files
<1>b. ASSUME NEW p \in Procs, Start(p) PROVE TypeOK'
  <2>1. PICK command \in Commands, place \in Places, seen \in Config,
             mustSave \in BOOLEAN, targets \in SUBSET Hosts :
               Begin(p, command, place, seen, mustSave, targets)
    BY <1>b, Starting
  <2>2. QED
    BY <1>b, <2>1, Starting, TypeBegin
<1>r. ASSUME NEW p \in Procs, NEW h \in Hosts, RenderHost(p, h) PROVE TypeOK'
  <2>1. pc' \in [Procs -> Places] /\ todo' \in [Procs -> SUBSET Hosts]
    BY <1>r DEF RenderHost, TypeOK, Places
  <2>2. pending' \in [Procs -> SUBSET Hosts] /\ \A q \in Procs : pending[q] \subseteq pending'[q]
    BY <1>r DEF RenderHost, TypeOK
  <2>3. QED
    BY <1>r, <2>1, <2>2 DEF RenderHost, TypeOK, Intact
<1>s. ASSUME NEW p \in Procs, Save(p) PROVE TypeOK'
  <2>1. /\ conf' \in Config /\ recorded' \in [Secrets -> SUBSET Value]
        /\ outdated' \in [Procs -> BOOLEAN] /\ rotated' \subseteq Secrets
    BY <1>s DEF Save, Replace, Overwritten, TypeOK, Config
  <2>2. CASE op[p] \in {"add", "del"} /\ Forget(p)
    BY <1>s, <2>1, <2>2, TypeForget DEF Save, TypeOK, Intact
  <2>3. CASE ~(op[p] \in {"add", "del"} /\ Forget(p))
    <3>1. /\ pc' \in [Procs -> Places] /\ unsaved' \in [Procs -> BOOLEAN]
          /\ UNCHANGED <<op, view, todo, pending, writing>>
      BY <1>s, <2>3 DEF Save, AfterSaving, TypeOK, Places
    <3>2. QED
      BY <1>s, <2>1, <3>1 DEF Save, TypeOK, Intact
  <2>4. QED
    BY <2>2, <2>3
<1>t. ASSUME NEW p \in Procs, NEW h \in Hosts, Truncate(p, h) PROVE TypeOK'
  BY <1>t DEF Truncate, TypeOK, Intact
<1>w. ASSUME NEW p \in Procs, NEW h \in Hosts, Fill(p, h) PROVE TypeOK'
  <2>1. PICK left \in {Rendering(view[p], h), Torn} : patches' = [patches EXCEPT ![h] = left]
    BY <1>w DEF Fill
  <2>2. \A k \in Hosts : Intact(k)' => \E c \in Config : patches'[k] = Rendering(c, k)
    BY <2>1 DEF TypeOK, Intact
  <2>3. \A q \in Procs : \A k, g \in writing'[q] : k = g /\ k \in pending'[q]
    BY <1>w DEF Fill, TypeOK
  <2>4. QED
    BY <1>w, <2>2, <2>3 DEF Fill, TypeOK
<1>e. ASSUME NEW p \in Procs, Finish(p) PROVE TypeOK'
  BY <1>e, TypeForget DEF Finish, End, TypeOK, Intact
<1>k. ASSUME NEW p \in Procs, Abort(p) PROVE TypeOK'
  <2>1. \A k \in Hosts : Intact(k)' => \E c \in Config : patches'[k] = Rendering(c, k)
    BY <1>k, TornAtMost DEF TypeOK, Intact
  <2>2. QED
    BY <1>k, <2>1, TypeForget DEF Abort, End, TypeOK
<1>o. ASSUME NEW s \in Secrets, Rotate(s) PROVE TypeOK'
  <2>1. conf' \in Config
    <3>1. conf \in [secret : [Secrets -> Value], clients : SUBSET Clients] /\ Unset \in Value
      BY DEF TypeOK, Config, Value, Unset
    <3>2. [conf EXCEPT !.secret[s] = Unset] \in [secret : [Secrets -> Value], clients : SUBSET Clients]
      BY <3>1
    <3>3. QED
      BY <1>o, <3>2 DEF Rotate, Config
  <2>2. QED
    BY <1>o, <2>1 DEF Rotate, TypeOK, Intact
<1>u. CASE UNCHANGED vars
  BY <1>u DEF vars, procVars, TypeOK, Intact
<1>q. QED
  BY <1>b, <1>r, <1>s, <1>t, <1>w, <1>e, <1>k, <1>o, <1>u DEF Next, Step

(* The files and the invocations are of their types. *)
THEOREM TypeCorrect == Spec => []TypeOK
BY TypeInit, TypeStep, PTL DEF Spec

-----------------------------------------------------------------------------

(* Where an invocation is, and what it may be doing there. *)
Phases ==
  \A p \in Procs :
    /\ pc[p] = "render" => op[p] = "generate"
    /\ pc[p] = "save" => unsaved[p] /\ op[p] \in {"generate", "add", "export", "del"}
    /\ pc[p] = "patch" => ~unsaved[p] /\ op[p] = "generate"
    /\ pc[p] = "print" => ~unsaved[p] /\ op[p] \in {"diff", "export"}
    /\ pc[p] = "idle" => ~unsaved[p]
    /\ pc[p] # "patch" => writing[p] = {}

(* What every file holds, and what an invocation holds that need not write the
   file, was written down; what it has yet to write lacks nothing. *)
Known ==
  /\ \A s \in Secrets : Unset \notin recorded[s] /\ conf.secret[s] \in recorded[s] \cup {Unset}
  /\ \A h \in Hosts : Intact(h) => \A s \in Uses[h] : patches[h].secret[s] \in recorded[s]
  /\ \A p \in Procs : pc[p] # "idle" /\ ~unsaved[p] =>
       \A s \in Scope(op[p]) : view[p].secret[s] \in recorded[s]
  /\ \A p \in Procs : unsaved[p] /\ op[p] # "del" =>
       \A s \in Secrets : view[p].secret[s] # Unset

(* How what an invocation holds compares with slipmesh.yaml: in its secrets, but
   for rotated ones, if it need not write it; and if it would be the first to
   write it since it read it, in everything but what it was told to change. *)
Compared ==
  /\ \A p \in Procs : pc[p] # "idle" /\ ~unsaved[p] =>
       \A s \in Scope(op[p]) \ rotated : view[p].secret[s] = conf.secret[s]
  /\ \A p \in Procs : unsaved[p] /\ ~outdated[p] =>
       /\ \A s \in Secrets \ Missing(conf) : view[p].secret[s] = conf.secret[s]
       /\ \/ op[p] # "del" /\ conf.clients \subseteq view[p].clients
          \/ op[p] = "del" /\ \E c \in conf.clients : view[p].clients = conf.clients \ {c}

(* Every whole patch has the secrets of slipmesh.yaml, but for rotated ones. *)
Agreed ==
  \A h \in Hosts : Intact(h) =>
    \A s \in Uses[h] \ rotated : patches[h].secret[s] = conf.secret[s]

LEMMA InitPhases == Init => Phases /\ Known /\ Compared /\ Agreed
<1>1. Init => Phases /\ Compared
  BY DEF Init, Phases, Compared
<1>2. Init => Known /\ Agreed
  BY DEF Init, Known, Agreed, Intact, Blank, NoSecrets
<1>3. QED
  BY <1>1, <1>2

(* An invocation is one thing at a time: it renders, then writes slipmesh.yaml,
   and only then the patches. *)
LEMMA PhasesStep == TypeOK /\ Phases /\ [Next]_vars => Phases'
<1> SUFFICES ASSUME TypeOK, Phases, [Next]_vars PROVE Phases'
  OBVIOUS
<1> USE DEF history, files
<1>b. ASSUME NEW p \in Procs, Start(p) PROVE Phases'
  <2>1. PICK command \in Commands, place \in Places, seen \in Config,
             mustSave \in BOOLEAN, targets \in SUBSET Hosts :
               /\ Begin(p, command, place, seen, mustSave, targets)
               /\ Sound(command, place, seen, mustSave)
    BY <1>b, Starting
  <2>2. QED
    BY <2>1 DEF Begin, Sound, Phases, TypeOK
<1>r. ASSUME NEW p \in Procs, NEW h \in Hosts, RenderHost(p, h) PROVE Phases'
  BY <1>r DEF RenderHost, Phases, TypeOK
<1>s. ASSUME NEW p \in Procs, Save(p) PROVE Phases'
  <2>1. CASE op[p] \in {"add", "del"} /\ Forget(p)
    BY <1>s, <2>1 DEF Forget, Save, Phases, TypeOK
  <2>2. CASE ~(op[p] \in {"add", "del"} /\ Forget(p))
    BY <1>s, <2>2 DEF Save, AfterSaving, Phases, TypeOK
  <2>3. QED
    BY <2>1, <2>2
<1>t. ASSUME NEW p \in Procs, NEW h \in Hosts, Truncate(p, h) PROVE Phases'
  BY <1>t DEF Truncate, Phases, TypeOK
<1>w. ASSUME NEW p \in Procs, NEW h \in Hosts, Fill(p, h) PROVE Phases'
  BY <1>w DEF Fill, Phases, TypeOK
<1>e. ASSUME NEW p \in Procs, End(p) PROVE Phases'
  BY <1>e DEF End, Forget, Phases, TypeOK
<1>o. ASSUME NEW s \in Secrets, Rotate(s) PROVE Phases'
  BY <1>o DEF Rotate, Phases
<1>u. CASE UNCHANGED vars
  BY <1>u DEF vars, procVars, Phases
<1>q. QED
  BY <1>b, <1>r, <1>s, <1>t, <1>w, <1>e, <1>o, <1>u DEF Next, Step, Finish, Abort

LEMMA KnownStep == TypeOK /\ Phases /\ Known /\ [Next]_vars => Known'
<1> SUFFICES ASSUME TypeOK, Phases, Known, [Next]_vars PROVE Known'
  OBVIOUS
<1> USE DEF history, files
<1>b. ASSUME NEW p \in Procs, Start(p) PROVE Known'
  <2>1. PICK command \in Commands, place \in Places, seen \in Config,
             mustSave \in BOOLEAN, targets \in SUBSET Hosts :
               /\ Begin(p, command, place, seen, mustSave, targets)
               /\ Sound(command, place, seen, mustSave)
    BY <1>b, Starting
  <2>2. ~mustSave => \A s \in Scope(command) : seen.secret[s] \in recorded[s]
    BY <2>1 DEF Sound, Scope, Missing, Known
  <2>3. mustSave /\ command # "del" => \A s \in Secrets : seen.secret[s] # Unset
    BY <2>1 DEF Sound
  <2>4. /\ op' = [op EXCEPT ![p] = command] /\ view' = [view EXCEPT ![p] = seen]
        /\ unsaved' = [unsaved EXCEPT ![p] = mustSave] /\ \A q \in Procs \ {p} : pc'[q] = pc[q]
        /\ UNCHANGED <<conf, patches, recorded>>
    BY <2>1 DEF Begin, TypeOK
  <2>5. QED
    BY <2>2, <2>3, <2>4 DEF Known, Intact, TypeOK
<1>r. ASSUME NEW p \in Procs, NEW h \in Hosts, RenderHost(p, h) PROVE Known'
  BY <1>r DEF RenderHost, Known, Intact, TypeOK
<1>s. ASSUME NEW p \in Procs, Save(p) PROVE Known'
  <2>1. /\ conf' = view[p] /\ UNCHANGED patches
        /\ \A s \in Secrets : recorded'[s] = recorded[s] \cup ({view[p].secret[s]} \ {Unset})
    BY <1>s DEF Save, Replace
  <2>2. \A s \in Secrets : /\ recorded[s] \subseteq recorded'[s] /\ Unset \notin recorded'[s]
                           /\ view[p].secret[s] # Unset => view[p].secret[s] \in recorded'[s]
    BY <2>1 DEF Known
  <2>3. unsaved[p] /\ op[p] \in {"generate", "add", "export", "del"}
    BY <1>s DEF Save, Phases
  <2>4. Uses \in [Hosts -> SUBSET Secrets] /\ \A q \in Procs : Scope(op[q]) \subseteq Secrets
    BY DEF Scope
  <2>5. ASSUME NEW q \in Procs, pc'[q] # "idle", ~unsaved'[q], NEW s \in Scope(op'[q])
        PROVE  view'[q].secret[s] \in recorded'[s]
    <3>1. CASE q = p
      <4>1. op[p] \in {"generate", "export"} /\ view'[p] = view[p] /\ op'[p] = op[p]
        BY <1>s, <2>5, <3>1 DEF Save, AfterSaving, Forget, TypeOK
      <4>2. QED
        BY <2>2, <2>3, <2>4, <3>1, <4>1, <2>5 DEF Known
    <3>2. CASE q # p
      <4>1. view'[q] = view[q] /\ op'[q] = op[q] /\ pc'[q] = pc[q] /\ unsaved'[q] = unsaved[q]
        BY <1>s, <3>2 DEF Save, AfterSaving, Forget, TypeOK
      <4>2. QED
        BY <2>2, <2>4, <2>5, <4>1 DEF Known
    <3>3. QED
      BY <3>1, <3>2
  <2>6. ASSUME NEW q \in Procs, unsaved'[q], op'[q] # "del"
        PROVE  unsaved[q] /\ op[q] # "del" /\ view'[q] = view[q]
    <3>1. ~unsaved'[p]
      BY <1>s DEF Save, AfterSaving, Forget, TypeOK
    <3>2. view'[q] = view[q] /\ op'[q] = op[q] /\ unsaved'[q] = unsaved[q]
      BY <1>s, <2>6, <3>1 DEF Save, AfterSaving, Forget, TypeOK
    <3>3. QED
      BY <2>6, <3>2
  <2>7. \A h \in Hosts : Intact(h)' => \A s \in Uses[h] : patches'[h].secret[s] \in recorded'[s]
    BY <2>1, <2>2, <2>4 DEF Known, Intact
  <2>8. \A s \in Secrets : /\ Unset \notin recorded'[s]
                           /\ conf'.secret[s] \in recorded'[s] \cup {Unset}
    BY <2>1, <2>2
  <2>9. \A q \in Procs : unsaved'[q] /\ op'[q] # "del" =>
          \A s \in Secrets : view'[q].secret[s] # Unset
    BY <2>6 DEF Known
  <2>10. QED
    BY <2>5, <2>7, <2>8, <2>9 DEF Known
<1>t. ASSUME NEW p \in Procs, NEW h \in Hosts, Truncate(p, h) PROVE Known'
  BY <1>t DEF Truncate, Known, Intact, TypeOK
<1>w. ASSUME NEW p \in Procs, NEW h \in Hosts, Fill(p, h) PROVE Known'
  <2>1. PICK left \in {Rendering(view[p], h), Torn} : patches' = [patches EXCEPT ![h] = left]
    BY <1>w DEF Fill
  <2>2. pc[p] # "idle" /\ ~unsaved[p] /\ op[p] = "generate"
    BY <1>w DEF Fill, Phases
  <2>3. \A s \in Uses[h] : Rendering(view[p], h).secret[s] \in recorded[s]
    BY <2>2 DEF Known, Scope, Rendering, SecretsIn
  <2>4. \A k \in Hosts : Intact(k)' => \A s \in Uses[k] : patches'[k].secret[s] \in recorded[s]
    BY <2>1, <2>3 DEF Known, Intact, TypeOK
  <2>5. QED
    BY <1>w, <2>4 DEF Fill, Known
<1>e. ASSUME NEW p \in Procs, Finish(p) PROVE Known'
  BY <1>e DEF Finish, End, Forget, Known, Intact, TypeOK
<1>k. ASSUME NEW p \in Procs, Abort(p) PROVE Known'
  <2>1. \A h \in Hosts : Intact(h)' => Intact(h) /\ patches'[h] = patches[h]
    BY <1>k, TornAtMost DEF Intact
  <2>2. QED
    BY <1>k, <2>1 DEF Abort, End, Forget, Known, TypeOK
<1>o. ASSUME NEW s \in Secrets, Rotate(s) PROVE Known'
  <2>1. \A x \in Secrets : conf'.secret[x] \in {conf.secret[x], Unset}
    BY <1>o DEF Rotate, TypeOK, Config
  <2>2. QED
    BY <1>o, <2>1 DEF Rotate, Known, Intact
<1>u. CASE UNCHANGED vars
  BY <1>u DEF vars, procVars, Known, Intact
<1>q. QED
  BY <1>b, <1>r, <1>s, <1>t, <1>w, <1>e, <1>k, <1>o, <1>u DEF Next, Step

(* Writing slipmesh.yaml keeps what is set, but for what is counted as rotated. *)
LEMMA SaveKeeps ==
  ASSUME TypeOK, Phases, Compared, NEW p \in Procs, Save(p)
  PROVE  /\ rotated \subseteq rotated'
         /\ \A s \in Secrets \ rotated' :
              conf.secret[s] # Unset => conf'.secret[s] = conf.secret[s]
<1>1. conf' = view[p] /\ unsaved[p]
  BY DEF Save, Replace, Phases
<1>2. CASE outdated[p]
  BY <1>1, <1>2 DEF Save, Overwritten
<1>3. CASE ~outdated[p]
  BY <1>1, <1>3 DEF Save, Compared, Missing
<1>4. QED
  BY <1>2, <1>3

LEMMA ComparedStep ==
  TypeOK /\ Phases /\ Known /\ Compared /\ [Next]_vars => Compared'
<1> SUFFICES ASSUME TypeOK, Phases, Known, Compared, [Next]_vars PROVE Compared'
  OBVIOUS
<1> USE DEF history, files
<1>b. ASSUME NEW p \in Procs, Start(p) PROVE Compared'
  <2>1. PICK command \in Commands, place \in Places, seen \in Config,
             mustSave \in BOOLEAN, targets \in SUBSET Hosts :
               /\ Begin(p, command, place, seen, mustSave, targets)
               /\ Sound(command, place, seen, mustSave)
    BY <1>b, Starting
  <2>2. ~mustSave => \A s \in Scope(command) : seen.secret[s] = conf.secret[s]
    BY <2>1 DEF Sound, Scope
  <2>3. /\ op' = [op EXCEPT ![p] = command] /\ view' = [view EXCEPT ![p] = seen]
        /\ unsaved' = [unsaved EXCEPT ![p] = mustSave] /\ \A q \in Procs \ {p} : pc'[q] = pc[q]
        /\ outdated' = [outdated EXCEPT ![p] = FALSE] /\ UNCHANGED <<conf, rotated>>
    BY <2>1 DEF Begin, TypeOK
  <2>4. \A q \in Procs : pc'[q] # "idle" /\ ~unsaved'[q] =>
          \A s \in Scope(op'[q]) \ rotated' : view'[q].secret[s] = conf'.secret[s]
    BY <2>2, <2>3 DEF Compared, TypeOK
  <2>5. /\ \A s \in Secrets \ Missing(conf) : seen.secret[s] = conf.secret[s]
        /\ \/ command # "del" /\ conf.clients \subseteq seen.clients
           \/ command = "del" /\ \E c \in conf.clients : seen.clients = conf.clients \ {c}
    BY <2>1 DEF Sound
  <2>6. QED
    BY <2>3, <2>4, <2>5 DEF Compared, Missing, TypeOK
<1>s. ASSUME NEW p \in Procs, Save(p) PROVE Compared'
  <2>1. conf' = view[p]
    BY <1>s DEF Save, Replace
  <2>2. ASSUME NEW q \in Procs, pc'[q] # "idle", ~unsaved'[q],
               NEW s \in Scope(op'[q]) \ rotated'
        PROVE  view'[q].secret[s] = conf'.secret[s]
    <3>1. CASE q = p
      <4>1. view'[p] = view[p]
        BY <1>s, <2>2, <3>1 DEF Save, AfterSaving, Forget, TypeOK
      <4>2. QED
        BY <2>1, <3>1, <4>1
    <3>2. CASE q # p
      <4>1. view'[q] = view[q] /\ op'[q] = op[q] /\ pc'[q] = pc[q] /\ unsaved'[q] = unsaved[q]
        BY <1>s, <3>2 DEF Save, AfterSaving, Forget, TypeOK
      <4>2. s \in Secrets /\ view[q].secret[s] \in recorded[s] /\ Unset \notin recorded[s]
        BY <2>2, <4>1 DEF Known, Scope
      <4>3. view[q].secret[s] = conf.secret[s]
        BY <1>s, <2>2, <4>1, SaveKeeps DEF Compared
      <4>4. QED
        BY <1>s, <2>2, <4>1, <4>2, <4>3, SaveKeeps
    <3>3. QED
      BY <3>1, <3>2
  <2>3. ASSUME NEW q \in Procs, unsaved'[q], ~outdated'[q]
        PROVE  /\ unsaved[q] /\ ~outdated[q] /\ conf' = conf
               /\ view'[q] = view[q] /\ op'[q] = op[q]
    <3>1. ~unsaved'[p]
      BY <1>s DEF Save, AfterSaving, Forget, TypeOK
    <3>2. q # p
      BY <2>3, <3>1
    <3>3. view'[q] = view[q] /\ op'[q] = op[q] /\ unsaved'[q] = unsaved[q]
      BY <1>s, <3>2 DEF Save, AfterSaving, Forget, TypeOK
    <3>4. QED
      BY <1>s, <2>1, <2>3, <3>2, <3>3 DEF Save, Replace
  <2>4. QED
    BY <2>2, <2>3 DEF Compared, Missing
<1>r. ASSUME NEW p \in Procs, NEW h \in Hosts, RenderHost(p, h) PROVE Compared'
  BY <1>r DEF RenderHost, Compared, Missing, TypeOK
<1>t. ASSUME NEW p \in Procs, NEW h \in Hosts, Truncate(p, h) PROVE Compared'
  BY <1>t DEF Truncate, Compared, Missing
<1>w. ASSUME NEW p \in Procs, NEW h \in Hosts, Fill(p, h) PROVE Compared'
  BY <1>w DEF Fill, Compared, Missing
<1>e. ASSUME NEW p \in Procs, End(p), UNCHANGED <<conf, rotated>> PROVE Compared'
  BY <1>e DEF End, Forget, Compared, Missing, TypeOK
<1>o. ASSUME NEW s \in Secrets, Rotate(s) PROVE Compared'
  <2>1. \A x \in Secrets \ {s} : conf'.secret[x] = conf.secret[x]
    BY <1>o DEF Rotate, TypeOK, Config
  <2>2. \A q \in Procs : Scope(op[q]) \subseteq Secrets
    BY DEF Scope
  <2>3. QED
    BY <1>o, <2>1, <2>2 DEF Rotate, Compared
<1>u. CASE UNCHANGED vars
  BY <1>u DEF vars, procVars, Compared, Missing
<1>q. QED
  BY <1>b, <1>r, <1>s, <1>t, <1>w, <1>e, <1>o, <1>u DEF Next, Step, Finish, Abort

LEMMA AgreedStep ==
  TypeOK /\ Phases /\ Known /\ Compared /\ Agreed /\ [Next]_vars => Agreed'
<1> SUFFICES ASSUME TypeOK, Phases, Known, Compared, Agreed, [Next]_vars PROVE Agreed'
  OBVIOUS
<1> USE DEF history, files
<1>1. \A h \in Hosts : Uses[h] \subseteq Secrets
  OBVIOUS
<1>n. ASSUME UNCHANGED <<conf, rotated>>, \A h \in Hosts : Intact(h)' => patches'[h] = patches[h]
      PROVE  Agreed'
  BY <1>n DEF Agreed, Intact
<1>b. ASSUME NEW p \in Procs, Start(p) PROVE Agreed'
  <2>1. UNCHANGED <<conf, patches, rotated>>
    BY <1>b, Starting DEF Begin
  <2>2. QED
    BY <1>n, <2>1
<1>r. ASSUME NEW p \in Procs, NEW h \in Hosts, RenderHost(p, h) PROVE Agreed'
  BY <1>r, <1>n DEF RenderHost
<1>s. ASSUME NEW p \in Procs, Save(p) PROVE Agreed'
  <2>1. \A h \in Hosts : Intact(h) =>
          \A s \in Uses[h] \ rotated : patches[h].secret[s] = conf.secret[s] /\ conf.secret[s] # Unset
    BY <1>1 DEF Agreed, Known
  <2>2. patches' = patches
    BY <1>s DEF Save
  <2>3. QED
    BY <1>1, <1>s, <2>1, <2>2, SaveKeeps DEF Agreed, Intact
<1>t. ASSUME NEW p \in Procs, NEW h \in Hosts, Truncate(p, h) PROVE Agreed'
  BY <1>t, <1>n DEF Truncate, TypeOK, Intact
<1>w. ASSUME NEW p \in Procs, NEW h \in Hosts, Fill(p, h) PROVE Agreed'
  <2>1. PICK left \in {Rendering(view[p], h), Torn} : patches' = [patches EXCEPT ![h] = left]
    BY <1>w DEF Fill
  <2>2. pc[p] # "idle" /\ ~unsaved[p] /\ op[p] = "generate"
    BY <1>w DEF Fill, Phases
  <2>3. \A s \in Uses[h] \ rotated : Rendering(view[p], h).secret[s] = conf.secret[s]
    BY <1>1, <2>2 DEF Compared, Scope, Rendering, SecretsIn
  <2>4. QED
    BY <1>w, <2>1, <2>3 DEF Fill, Agreed, Intact, TypeOK
<1>e. ASSUME NEW p \in Procs, Finish(p) PROVE Agreed'
  BY <1>e, <1>n DEF Finish
<1>k. ASSUME NEW p \in Procs, Abort(p) PROVE Agreed'
  <2>1. \A h \in Hosts : Intact(h)' => patches'[h] = patches[h]
    BY <1>k, TornAtMost DEF Intact
  <2>2. QED
    BY <1>k, <1>n, <2>1 DEF Abort
<1>o. ASSUME NEW s \in Secrets, Rotate(s) PROVE Agreed'
  <2>1. \A x \in Secrets \ {s} : conf'.secret[x] = conf.secret[x]
    BY <1>o DEF Rotate, TypeOK, Config
  <2>2. QED
    BY <1>1, <1>o, <2>1 DEF Rotate, Agreed, Intact
<1>u. CASE UNCHANGED vars
  BY <1>u, <1>n DEF vars
<1>q. QED
  BY <1>b, <1>r, <1>s, <1>t, <1>w, <1>e, <1>k, <1>o, <1>u DEF Next, Step

-----------------------------------------------------------------------------

(* All that is needed of a state, by induction on the steps. *)
Invariant == TypeOK /\ Phases /\ Known /\ Compared /\ Agreed

LEMMA InvariantHolds == Spec => []Invariant
<1>1. Init => Invariant
  BY TypeInit, InitPhases DEF Invariant
<1>2. Invariant /\ [Next]_vars => Invariant'
  BY TypeStep, PhasesStep, KnownStep, ComparedStep, AgreedStep DEF Invariant
<1>3. QED
  BY <1>1, <1>2, PTL DEF Spec

(* Whatever overlaps, fails or is killed: a secret in a patch, in a client's
   config or in a diff was in slipmesh.yaml before. *)
THEOREM WrittenDownFirst == Spec => []RecordedFirst
<1>1. Invariant => RecordedFirst
  BY DEF Invariant, Phases, Known, RecordedFirst, Scope
<1>2. QED
  BY <1>1, InvariantHolds, PTL

(* The ends of every link, and every pool and its clients, are given the same
   secrets, until one is rotated. *)
THEOREM SameSecrets == Spec => []EndsAgree
<1>1. Invariant => EndsAgree
  BY DEF Invariant, Phases, Compared, Agreed, EndsAgree, Scope
<1>2. QED
  BY <1>1, InvariantHolds, PTL

(* Who reads slipmesh.yaml last and writes it first takes nothing from it but
   the client it deletes. *)
THEOREM NothingTakenAway == Spec => NothingLost
<1> DEFINE Kept(p) ==
      pc[p] = "save" /\ pc'[p] # "save" /\ ~outdated[p] =>
        /\ \A s \in Secrets \ Missing(conf) : conf'.secret[s] = conf.secret[s]
        /\ \/ conf.clients \subseteq conf'.clients
           \/ op[p] = "del" /\ \E c \in conf.clients : conf'.clients = conf.clients \ {c}
<1>1. ASSUME Invariant, [Next]_vars, NEW p \in Procs PROVE Kept(p)
  <2> USE DEF Invariant, history, files
  <2>1. CASE Save(p)
    BY <1>1, <2>1 DEF Save, Replace, Phases, Compared
  <2>2. CASE conf' = conf
    BY <2>2
  <2>3. ASSUME NEW q \in Procs \ {p}, Save(q) PROVE pc'[p] = pc[p]
    BY <1>1, <2>3 DEF Save, AfterSaving, Forget, TypeOK
  <2>4. ASSUME NEW s \in Secrets, Rotate(s) PROVE pc' = pc
    BY <2>4 DEF Rotate
  <2>5. ASSUME NEW q \in Procs, Start(q) PROVE conf' = conf
    BY <1>1, <2>5, Starting DEF Begin
  <2>6. QED
    BY <1>1, <2>1, <2>2, <2>3, <2>4, <2>5
       DEF Next, Step, RenderHost, Truncate, Fill, Finish, Abort, vars
<1>2. Invariant /\ [Next]_vars => [\A p \in Procs : Kept(p)]_vars
  BY <1>1
<1>3. QED
  BY <1>2, InvariantHolds, PTL DEF Spec, NothingLost
=============================================================================
