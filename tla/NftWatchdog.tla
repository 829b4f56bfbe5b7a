---------------------------- MODULE NftWatchdog ----------------------------
(***************************************************************************)
(* The nftables daemon (nftables/src/main.rs, ruleset.rs): it applies a    *)
(* ruleset once, then reads the lines of `nft monitor' and re-checks its   *)
(* tables at each of them, reapplying when one is missing.  Beside it: the *)
(* kernel's tables, which others on the node reset, and the monitor, a     *)
(* child process that sees only what happens after it has subscribed.      *)
(***************************************************************************)
EXTENDS Naturals

CONSTANTS
  Table,       \* nftables tables, ours and those of others on the node
  Rulesets,    \* the possible configs, each the set of tables it declares
  Reads,       \* address families whose default-route interface it reads
  Retries,     \* DEFAULT_ROUTE_RETRIES
  MaxLines,    \* bound: unread monitor lines that are told apart
  MaxResets,   \* bound: resets of the node's ruleset by somebody else
  MaxRestarts, \* bound: crashes and config restarts of the container
  Faults       \* what the environment may do, a subset of FaultKinds

FaultKinds ==
  {"lookup", "delete", "load", "check", "spawn", "monitor exits", "read"}

ASSUME RulesetAssumption == Rulesets \subseteq SUBSET Table
ASSUME ReadsAssumption == Reads \subseteq {"v4", "v6"}
ASSUME BoundAssumption ==
  /\ Retries \in Nat \ {0}
  /\ MaxLines \in Nat \ {0}
  /\ MaxResets \in Nat
  /\ MaxRestarts \in Nat
  /\ Faults \subseteq FaultKinds

VARIABLES
  copies,      \* kernel: how often each table's rules are loaded, 0 if absent
  defaultRoute,\* kernel: the families that have a default route
  ruleset,     \* the running config: the tables it declares
  pc,          \* where the process is
  unresolved,  \* families whose default-route interface is still looked up
  attempt,     \* of the lookup
  caller,      \* who called apply: "startup" or "watchdog"
  todo,        \* tables apply has yet to delete
  monitor,     \* the child: "none", "starting", "subscribed" or "exited"
  lines,       \* lines it printed that the daemon has not read
  belief,      \* history: "checked" when a check under this subscription has
               \* found every table, and no check or load has failed since
  undeleted,   \* history: tables whose last delete failed though they exist
  resets, restarts

applyVars   == <<caller, todo, undeleted>>
lookupVars  == <<unresolved, attempt>>
monitorVars == <<monitor, lines, belief>>
bounds      == <<resets, restarts>>
vars == <<copies, defaultRoute, ruleset, pc, lookupVars, applyVars, monitorVars,
          bounds>>

Present == {t \in Table : copies[t] > 0}

(* Two copies of a table's rules are as wrong as three. *)
OneMore(n) == IF n = 0 THEN 1 ELSE 2

(* A change of the ruleset is a line for a monitor that has subscribed. *)
LinesAfterChange ==
  IF monitor = "subscribed" /\ lines < MaxLines THEN lines + 1 ELSE lines

-----------------------------------------------------------------------------

Init ==
  /\ ruleset \in Rulesets
  /\ copies = [t \in Table |-> IF t \in UNION Rulesets THEN 0 ELSE 1]
  /\ defaultRoute \in SUBSET Reads
  /\ pc = "down"
  /\ unresolved = {} /\ attempt = 1
  /\ caller = "startup" /\ todo = {} /\ undeleted = {}
  /\ monitor = "none" /\ lines = 0 /\ belief = "unchecked"
  /\ resets = 0 /\ restarts = 0

(* Somebody else drops tables it does not recognise. *)
Reset(S) ==
  /\ resets < MaxResets
  /\ S # {} /\ S \subseteq Present
  /\ resets' = resets + 1
  /\ copies' = [t \in Table |-> IF t \in S THEN 0 ELSE copies[t]]
  /\ lines' = LinesAfterChange
  /\ UNCHANGED <<defaultRoute, ruleset, pc, lookupVars, applyVars, monitor,
                 belief, restarts>>

(* Somebody else changes a table of its own. *)
OtherChange ==
  /\ lines' = LinesAfterChange
  /\ UNCHANGED <<copies, defaultRoute, ruleset, pc, lookupVars, applyVars,
                 monitor, belief, bounds>>

DefaultRouteAppears(f) ==
  /\ defaultRoute' = defaultRoute \cup {f}
  /\ UNCHANGED <<copies, ruleset, pc, lookupVars, applyVars, monitorVars, bounds>>

(* The container is gone, and the monitor with it; the tables stay. *)
Exited ==
  /\ pc' = "down"
  /\ unresolved' = {} /\ attempt' = 1
  /\ caller' = "startup" /\ todo' = {}
  /\ monitor' = "none" /\ lines' = 0 /\ belief' = "unchecked"

Stop ==
  /\ pc # "down"
  /\ restarts < MaxRestarts
  /\ restarts' = restarts + 1
  /\ Exited
  /\ UNCHANGED <<copies, defaultRoute, ruleset, undeleted, resets>>

MonitorSubscribes ==
  /\ monitor = "starting"
  /\ monitor' = "subscribed"
  /\ UNCHANGED <<copies, defaultRoute, ruleset, pc, lookupVars, applyVars, lines,
                 belief, bounds>>

MonitorExits ==
  /\ "monitor exits" \in Faults
  /\ monitor \in {"starting", "subscribed"}
  /\ monitor' = "exited"
  /\ UNCHANGED <<copies, defaultRoute, ruleset, pc, lookupVars, applyVars, lines,
                 belief, bounds>>

-----------------------------------------------------------------------------
(* Startup *)

Start ==
  /\ pc = "down"
  /\ ruleset' \in Rulesets
  /\ pc' = "lookup"
  /\ unresolved' = Reads
  /\ UNCHANGED <<copies, defaultRoute, attempt, applyVars, monitorVars, bounds>>

Family == IF "v4" \in unresolved THEN "v4" ELSE "v6"

LookupFound ==
  /\ pc = "lookup" /\ unresolved # {}
  /\ Family \in defaultRoute
  /\ unresolved' = unresolved \ {Family}
  /\ attempt' = 1
  /\ UNCHANGED <<copies, defaultRoute, ruleset, pc, applyVars, monitorVars, bounds>>

(* Mutant: one attempt too many (`<=' for `<' in the match guard). *)
LookupRetriedOnceMore ==
  /\ pc = "lookup" /\ unresolved # {}
  /\ Family \notin defaultRoute
  /\ attempt <= Retries
  /\ attempt' = attempt + 1
  /\ UNCHANGED <<copies, defaultRoute, ruleset, pc, unresolved, applyVars,
                 monitorVars, bounds>>

LookupRetried ==
  /\ pc = "lookup" /\ unresolved # {}
  /\ Family \notin defaultRoute
  /\ attempt < Retries
  /\ attempt' = attempt + 1
  /\ UNCHANGED <<copies, defaultRoute, ruleset, pc, unresolved, applyVars,
                 monitorVars, bounds>>

(* The last attempt found none, or the lookup itself failed: fatal. *)
LookupFatal ==
  /\ pc = "lookup" /\ unresolved # {}
  /\ \/ Family \notin defaultRoute /\ attempt = Retries
     \/ "lookup" \in Faults
  /\ Exited
  /\ UNCHANGED <<copies, defaultRoute, ruleset, undeleted, bounds>>

(* Mutant: the first apply of a process takes the tables to be absent. *)
FirstApplyDeletesNothing ==
  /\ pc = "lookup" /\ unresolved = {}
  /\ pc' = "delete"
  /\ UNCHANGED <<copies, defaultRoute, ruleset, lookupVars, applyVars,
                 monitorVars, bounds>>

FirstApply ==
  /\ pc = "lookup" /\ unresolved = {}
  /\ pc' = "delete"
  /\ todo' = ruleset
  /\ UNCHANGED <<copies, defaultRoute, ruleset, lookupVars, caller, undeleted,
                 monitorVars, bounds>>

-----------------------------------------------------------------------------
(* apply: delete each declared table, then load the whole ruleset at once *)

(* Mutant: `flush ruleset' for `delete table'. *)
DeleteEveryTable(t) ==
  /\ pc = "delete" /\ t \in todo
  /\ todo' = todo \ {t}
  /\ copies' = [u \in Table |-> 0]
  /\ undeleted' = {}
  /\ lines' = IF Present # {} THEN LinesAfterChange ELSE lines
  /\ UNCHANGED <<defaultRoute, ruleset, pc, lookupVars, caller, monitor, belief,
                 bounds>>

DeleteTable(t) ==
  /\ pc = "delete" /\ t \in todo
  /\ todo' = todo \ {t}
  /\ copies' = [copies EXCEPT ![t] = 0]
  /\ undeleted' = undeleted \ {t}
  /\ lines' = IF t \in Present THEN LinesAfterChange ELSE lines
  /\ UNCHANGED <<defaultRoute, ruleset, pc, lookupVars, caller, monitor, belief,
                 bounds>>

(* Any failure is taken for "does not exist yet". *)
DeleteFails(t) ==
  /\ "delete" \in Faults
  /\ pc = "delete" /\ t \in todo \cap Present
  /\ todo' = todo \ {t}
  /\ undeleted' = undeleted \cup {t}
  /\ UNCHANGED <<copies, defaultRoute, ruleset, pc, lookupVars, caller,
                 monitorVars, bounds>>

(* `nft -f' is one transaction; it adds to what a table already holds. *)
Load ==
  /\ pc = "delete" /\ todo = {}
  /\ copies' = [t \in Table |->
                  IF t \in ruleset THEN OneMore(copies[t]) ELSE copies[t]]
  /\ lines' = IF ruleset # {} THEN LinesAfterChange ELSE lines
  /\ pc' = IF caller = "startup" THEN "spawn" ELSE "watch"
  /\ caller' = "watchdog"
  /\ UNCHANGED <<defaultRoute, ruleset, lookupVars, todo, undeleted, monitor,
                 belief, bounds>>

LoadFatal ==
  /\ "load" \in Faults
  /\ pc = "delete" /\ todo = {} /\ caller = "startup"
  /\ Exited
  /\ UNCHANGED <<copies, defaultRoute, ruleset, undeleted, bounds>>

(* In the watchdog a failed reapply is logged, and the next line awaited. *)
LoadFails ==
  /\ "load" \in Faults
  /\ pc = "delete" /\ todo = {} /\ caller = "watchdog"
  /\ pc' = "watch"
  /\ belief' = "unchecked"
  /\ UNCHANGED <<copies, defaultRoute, ruleset, lookupVars, applyVars, monitor,
                 lines, bounds>>

-----------------------------------------------------------------------------
(* watchdog *)

Spawn ==
  /\ pc = "spawn"
  /\ monitor' = "starting"
  /\ pc' = "watch"
  /\ UNCHANGED <<copies, defaultRoute, ruleset, lookupVars, applyVars, lines,
                 belief, bounds>>

(* Tried again five seconds later: nothing has changed. *)
SpawnFails ==
  /\ "spawn" \in Faults
  /\ pc = "spawn"
  /\ UNCHANGED vars

ReadLine ==
  /\ pc = "watch" /\ lines > 0
  /\ lines' = lines - 1
  /\ pc' = "check"
  /\ UNCHANGED <<copies, defaultRoute, ruleset, lookupVars, applyVars, monitor,
                 belief, bounds>>

(* The monitor is gone and everything it printed has been read. *)
ReadEnd ==
  /\ pc = "watch" /\ lines = 0 /\ monitor = "exited"
  /\ pc' = "reap"
  /\ UNCHANGED <<copies, defaultRoute, ruleset, lookupVars, applyVars,
                 monitorVars, bounds>>

(* A line that is not UTF-8, or the pipe failing, while the monitor runs. *)
ReadFails ==
  /\ "read" \in Faults
  /\ pc = "watch" /\ lines > 0
  /\ lines' = lines - 1
  /\ pc' = "reap"
  /\ UNCHANGED <<copies, defaultRoute, ruleset, lookupVars, applyVars, monitor,
                 belief, bounds>>

(* monitor.wait(): returns once the child has exited, and only then. *)
Reap ==
  /\ pc = "reap" /\ monitor = "exited"
  /\ pc' = "spawn"
  /\ monitor' = "none" /\ lines' = 0 /\ belief' = "unchecked"
  /\ UNCHANGED <<copies, defaultRoute, ruleset, lookupVars, applyVars, bounds>>

(* Mutant: `any' for `all'. *)
AnyPresent == ruleset \cap Present # {}

AllPresent == ruleset \subseteq Present

CheckFindsAll ==
  /\ pc = "check"
  /\ AllPresent
  /\ pc' = "watch"
  /\ belief' = IF monitor = "subscribed" THEN "checked" ELSE "unchecked"
  /\ UNCHANGED <<copies, defaultRoute, ruleset, lookupVars, applyVars, monitor,
                 lines, bounds>>

(* Mutant: a loss is logged and nothing more. *)
LossIsLogged ==
  /\ pc = "check"
  /\ ~AllPresent
  /\ pc' = "watch"
  /\ UNCHANGED <<copies, defaultRoute, ruleset, lookupVars, applyVars,
                 monitorVars, bounds>>

CheckFindsLoss ==
  /\ pc = "check"
  /\ ~AllPresent
  /\ pc' = "delete"
  /\ todo' = ruleset
  /\ UNCHANGED <<copies, defaultRoute, ruleset, lookupVars, caller, undeleted,
                 monitorVars, bounds>>

CheckFails ==
  /\ "check" \in Faults
  /\ pc = "check"
  /\ pc' = "watch"
  /\ belief' = "unchecked"
  /\ UNCHANGED <<copies, defaultRoute, ruleset, lookupVars, applyVars, monitor,
                 lines, bounds>>

-----------------------------------------------------------------------------

Environment ==
  \/ \E S \in SUBSET Table : Reset(S)
  \/ OtherChange
  \/ \E f \in Reads : DefaultRouteAppears(f)
  \/ Stop
  \/ MonitorExits

Daemon ==
  \/ Start \/ LookupFound \/ LookupRetried \/ LookupFatal \/ FirstApply
  \/ \E t \in Table : DeleteTable(t) \/ DeleteFails(t)
  \/ Load \/ LoadFatal \/ LoadFails
  \/ Spawn \/ SpawnFails \/ ReadLine \/ ReadEnd \/ ReadFails \/ Reap
  \/ CheckFindsAll \/ CheckFindsLoss \/ CheckFails

Next == Environment \/ Daemon \/ MonitorSubscribes

Spec == Init /\ [][Next]_vars

(* Talos restarts the container ("restart: always"), the daemon's loop waits
   only for what its guards say, and a monitor that was spawned gets to
   subscribe.  A monitor need not ever exit, nor anybody else do anything. *)
FairSpec == Spec /\ WF_vars(Daemon) /\ WF_vars(MonitorSubscribes)

-----------------------------------------------------------------------------
(* Properties *)

TypeOK ==
  /\ copies \in [Table -> 0..2]
  /\ defaultRoute \subseteq Reads
  /\ ruleset \in Rulesets
  /\ pc \in {"down", "lookup", "delete", "spawn", "watch", "check", "reap"}
  /\ unresolved \subseteq Reads
  /\ attempt \in 1..Retries
  /\ caller \in {"startup", "watchdog"}
  /\ todo \subseteq Table
  /\ undeleted \subseteq Table
  /\ monitor \in {"none", "starting", "subscribed", "exited"}
  /\ lines \in 0..MaxLines
  /\ belief \in {"unchecked", "checked"}
  /\ resets \in 0..MaxResets
  /\ restarts \in 0..MaxRestarts

(* Every table the running config declares is loaded. *)
InPlace == \A t \in ruleset : copies[t] > 0

(* Once one check under a live subscription has found every table, silence
   means they are all there: any loss since has left a line to be read. *)
QuietMeansPresent ==
  belief = "checked" /\ monitor = "subscribed" /\ pc = "watch" /\ lines = 0
    => InPlace

(* However often the ruleset is reapplied, by whatever process, its rules are
   loaded once, unless nft refused to delete the table they are in: deleting
   first is "the whole answer to how does this loader avoid piling up
   duplicate/stale rules" (ruleset.rs:9). *)
NoDuplicateRules == \A t \in Table \ undeleted : copies[t] <= 1

(* The daemon's steps leave the tables of others alone ("must survive this",
   ruleset.rs:14). *)
ForeignTablesSurvive ==
  [][Daemon => \A t \in Table \ ruleset : copies'[t] = copies[t]]_vars

Fault ==
  \/ LoadFatal \/ LoadFails \/ CheckFails \/ MonitorExits \/ LookupFatal
FaultsCease == <>[][~Fault]_vars

(* On a node whose ruleset keeps changing for other reasons, every loss is
   repaired and the tables stay, unless the watchdog is left waiting for a
   monitor whose output it failed to read, which has no reason to exit
   (main.rs:155-161). *)
RepairedOnBusyNode ==
  FaultsCease /\ []<>(lines > 0) /\ []<>(pc # "reap") => <>[]InPlace

(* The tables come back after every loss ("applies an nftables ruleset and
   keeps it applied", README.md:11). *)
KeptApplied == FaultsCease => []<>InPlace
=============================================================================
