------------------------- MODULE NftWatchdogProofs -------------------------
(***************************************************************************)
(* What holds of NftWatchdog for every set of tables and configs.          *)
(***************************************************************************)
EXTENDS NftWatchdog, TLAPS

USE RulesetAssumption, ReadsAssumption, BoundAssumption

(* The initial states have their types. *)
LEMMA TypeInit == Init => TypeOK
BY DEF Init, TypeOK

(* A change of the ruleset leaves the unread lines within their bound. *)
LEMMA LinesBounded == TypeOK => LinesAfterChange \in 0..MaxLines
BY DEF TypeOK, LinesAfterChange

(* Every step of the daemon, the monitor and the node keeps the types. *)
LEMMA TypeStep == TypeOK /\ [Next]_vars => TypeOK'
<1> SUFFICES ASSUME TypeOK, [Next]_vars
             PROVE  TypeOK'
  OBVIOUS
<1> USE LinesBounded DEF TypeOK, applyVars, lookupVars, monitorVars, bounds
<1>1. CASE Environment \/ MonitorSubscribes
  <2>1. ASSUME NEW S \in SUBSET Table, Reset(S)
        PROVE  TypeOK'
    BY <2>1 DEF Reset
  <2>2. CASE OtherChange
    BY <2>2 DEF OtherChange
  <2>3. ASSUME NEW f \in Reads, DefaultRouteAppears(f)
        PROVE  TypeOK'
    BY <2>3 DEF DefaultRouteAppears
  <2>4. CASE Stop
    BY <2>4 DEF Stop, Exited
  <2>5. CASE MonitorExits \/ MonitorSubscribes
    BY <2>5 DEF MonitorExits, MonitorSubscribes
  <2>6. QED
    BY <1>1, <2>1, <2>2, <2>3, <2>4, <2>5 DEF Environment
<1>2a. CASE Start
  BY <1>2a DEF Start
<1>2b. CASE LookupFound
  BY <1>2b DEF LookupFound
<1>2c. CASE FirstApply
  BY <1>2c DEF FirstApply
<1>3. CASE LookupRetried
  BY <1>3 DEF LookupRetried
<1>4a. CASE LookupFatal
  BY <1>4a DEF LookupFatal, Exited
<1>4b. CASE LoadFatal
  BY <1>4b DEF LoadFatal, Exited
<1>5. ASSUME NEW t \in Table, DeleteTable(t)
      PROVE  TypeOK'
  BY <1>5 DEF DeleteTable
<1>6. ASSUME NEW t \in Table, DeleteFails(t)
      PROVE  TypeOK'
  BY <1>6 DEF DeleteFails
<1>7. CASE Load
  <2>1. \A t \in Table : OneMore(copies[t]) \in 0..2
    BY DEF OneMore
  <2>2. QED
    BY <1>7, <2>1 DEF Load
<1>8. CASE LoadFails
  BY <1>8 DEF LoadFails
<1>9. CASE Spawn
  BY <1>9 DEF Spawn
<1>9a. CASE Reap
  BY <1>9a DEF Reap
<1>9b. CASE ReadLine
  BY <1>9b DEF ReadLine
<1>9c. CASE ReadEnd
  BY <1>9c DEF ReadEnd
<1>9d. CASE ReadFails
  BY <1>9d DEF ReadFails
<1>10. CASE CheckFindsAll \/ CheckFindsLoss \/ CheckFails
  BY <1>10 DEF CheckFindsAll, CheckFindsLoss, CheckFails
<1>11. CASE SpawnFails \/ UNCHANGED vars
  BY <1>11 DEF SpawnFails, vars
<1>12. QED
  BY <1>1, <1>2a, <1>2b, <1>2c, <1>3, <1>4a, <1>4b, <1>5, <1>6, <1>7, <1>8,
     <1>9, <1>9a, <1>9b, <1>9c, <1>9d, <1>10, <1>11 DEF Next, Daemon

(* Every variable keeps its type. *)
THEOREM TypeCorrect == Spec => []TypeOK
BY TypeInit, TypeStep, PTL DEF Spec

-----------------------------------------------------------------------------
(* Silence means presence.  No check stands behind a subscription that is only
   starting, so MonitorSubscribes cannot break it. *)

QuietInv ==
  /\ TypeOK
  /\ caller = "startup" \/ pc = "spawn" => monitor = "none"
  /\ pc \in {"spawn", "watch", "check", "reap"} => caller = "watchdog"
  /\ belief = "checked" => monitor \in {"subscribed", "exited"}
  /\ QuietMeansPresent

(* Every step preserves it: a loss under a subscription leaves a line, and the
   daemon reads the last line only to check again. *)
LEMMA QuietStep == QuietInv /\ [Next]_vars => QuietInv'
<1> SUFFICES ASSUME QuietInv, [Next]_vars
             PROVE  QuietInv'
  OBVIOUS
<1> USE DEF QuietInv, QuietMeansPresent, InPlace, applyVars, lookupVars,
            monitorVars, bounds
<1>0. TypeOK'
  BY TypeStep
<1>1. CASE \E S \in SUBSET Table : Reset(S)
  BY <1>0, <1>1 DEF Reset, LinesAfterChange, TypeOK
<1>2. CASE OtherChange \/ \E f \in Reads : DefaultRouteAppears(f)
  BY <1>0, <1>2 DEF OtherChange, DefaultRouteAppears, LinesAfterChange, TypeOK
<1>3. CASE Stop \/ MonitorSubscribes \/ MonitorExits
  BY <1>0, <1>3 DEF Stop, Exited, MonitorSubscribes, MonitorExits
<1>4. CASE Start \/ LookupFound \/ LookupRetried \/ LookupFatal \/ FirstApply
  BY <1>0, <1>4
     DEF Start, LookupFound, LookupRetried, LookupFatal, FirstApply, Exited
<1>5. CASE \E t \in Table : DeleteTable(t) \/ DeleteFails(t)
  BY <1>0, <1>5 DEF DeleteTable, DeleteFails
<1>6. CASE Load
  <2>1. \A t \in ruleset : t \in Table /\ copies'[t] > 0
    BY <1>6 DEF Load, OneMore, TypeOK
  <2>2. QED
    BY <1>0, <1>6, <2>1 DEF Load
<1>7. CASE LoadFatal \/ LoadFails
  BY <1>0, <1>7 DEF LoadFatal, LoadFails, Exited
<1>8. CASE Spawn
  BY <1>0, <1>8 DEF Spawn
<1>9a. CASE ReadLine
  BY <1>0, <1>9a DEF ReadLine
<1>9b. CASE ReadEnd \/ ReadFails
  BY <1>0, <1>9b DEF ReadEnd, ReadFails
<1>9c. CASE Reap
  BY <1>0, <1>9c DEF Reap
<1>10. CASE CheckFindsAll \/ CheckFindsLoss \/ CheckFails
  BY <1>0, <1>10
     DEF CheckFindsAll, CheckFindsLoss, CheckFails, AllPresent, Present, TypeOK
<1>11. CASE SpawnFails \/ UNCHANGED vars
  BY <1>0, <1>11 DEF SpawnFails, vars
<1>12. QED
  BY <1>1, <1>2, <1>3, <1>4, <1>5, <1>6, <1>7, <1>8, <1>9a, <1>9b, <1>9c,
     <1>10, <1>11 DEF Next, Environment, Daemon

(* After one complete check under a live subscription, no unread line means
   no missing table, whatever is reset and whenever. *)
THEOREM SilenceMeansPresence == Spec => []QuietMeansPresent
<1>1. Init => QuietInv
  BY TypeInit DEF Init, QuietInv, QuietMeansPresent
<1>2. QuietInv => QuietMeansPresent
  BY DEF QuietInv
<1>3. QED
  BY <1>1, <1>2, QuietStep, PTL DEF Spec

-----------------------------------------------------------------------------
(* Rules are loaded once *)

OnceInv ==
  /\ TypeOK
  /\ pc = "delete" => \A t \in ruleset \ todo : copies[t] = 0 \/ t \in undeleted
  /\ NoDuplicateRules

(* Every step preserves it: when `nft -f' runs, each declared table is gone, or
   nft refused to delete it. *)
LEMMA OnceStep == OnceInv /\ [Next]_vars => OnceInv'
<1> SUFFICES ASSUME OnceInv, [Next]_vars
             PROVE  OnceInv'
  OBVIOUS
<1> USE DEF OnceInv, NoDuplicateRules, applyVars, lookupVars, monitorVars, bounds
<1>0. TypeOK'
  BY TypeStep
<1>1. CASE Environment \/ MonitorSubscribes
  <2>1. ASSUME NEW S \in SUBSET Table, Reset(S)
        PROVE  OnceInv'
    BY <1>0, <2>1 DEF Reset, TypeOK
  <2>2. CASE OtherChange \/ MonitorSubscribes \/ MonitorExits
    BY <1>0, <2>2 DEF OtherChange, MonitorSubscribes, MonitorExits
  <2>3. ASSUME NEW f \in Reads, DefaultRouteAppears(f)
        PROVE  OnceInv'
    BY <1>0, <2>3 DEF DefaultRouteAppears
  <2>4. CASE Stop
    BY <1>0, <2>4 DEF Stop, Exited
  <2>5. QED
    BY <1>1, <2>1, <2>2, <2>3, <2>4 DEF Environment
<1>2. CASE Start \/ LookupFound \/ LookupRetried \/ LookupFatal \/ FirstApply
  BY <1>0, <1>2
     DEF Start, LookupFound, LookupRetried, LookupFatal, FirstApply, Exited
<1>3. ASSUME NEW t \in Table, DeleteTable(t) \/ DeleteFails(t)
      PROVE  OnceInv'
  BY <1>0, <1>3 DEF DeleteTable, DeleteFails, Present, TypeOK
<1>4. CASE Load
  BY <1>0, <1>4 DEF Load, OneMore, TypeOK
<1>5. CASE LoadFatal \/ LoadFails
  BY <1>0, <1>5 DEF LoadFatal, LoadFails, Exited
<1>6. CASE Spawn \/ SpawnFails \/ ReadLine \/ ReadEnd \/ ReadFails \/ Reap
  BY <1>0, <1>6 DEF Spawn, SpawnFails, ReadLine, ReadEnd, ReadFails, Reap, vars
<1>7. CASE CheckFindsAll \/ CheckFindsLoss \/ CheckFails
  BY <1>0, <1>7 DEF CheckFindsAll, CheckFindsLoss, CheckFails
<1>8. CASE UNCHANGED vars
  BY <1>0, <1>8 DEF vars
<1>9. QED
  BY <1>1, <1>2, <1>3, <1>4, <1>5, <1>6, <1>7, <1>8 DEF Next, Daemon

(* No sequence of reapplies, crashes and config changes loads a rule twice into
   a table that nft was willing to delete. *)
THEOREM RulesLoadedOnce == Spec => []NoDuplicateRules
<1>1. Init => OnceInv
  BY TypeInit DEF Init, OnceInv, NoDuplicateRules
<1>2. OnceInv => NoDuplicateRules
  BY DEF OnceInv
<1>3. QED
  BY <1>1, <1>2, OnceStep, PTL DEF Spec

-----------------------------------------------------------------------------
(* The tables of others *)

ForeignInv ==
  /\ TypeOK
  /\ todo \subseteq ruleset
  /\ pc # "delete" => todo = {}

(* Every step preserves it: a process that ends drops what it had yet to delete, and
   only a process that starts reads another config. *)
LEMMA ForeignStep == ForeignInv /\ [Next]_vars => ForeignInv'
<1> SUFFICES ASSUME ForeignInv, [Next]_vars
             PROVE  ForeignInv'
  OBVIOUS
<1> USE DEF ForeignInv, applyVars, lookupVars, monitorVars, bounds
<1>0. TypeOK'
  BY TypeStep
<1>1. CASE Environment \/ MonitorSubscribes
  BY <1>0, <1>1
     DEF Environment, Reset, OtherChange, DefaultRouteAppears, Stop, Exited, MonitorExits,
         MonitorSubscribes
<1>2. CASE Start \/ LookupFound \/ LookupRetried \/ LookupFatal \/ FirstApply
  BY <1>0, <1>2
     DEF Start, LookupFound, LookupRetried, LookupFatal, FirstApply, Exited
<1>3. CASE \E t \in Table : DeleteTable(t) \/ DeleteFails(t)
  BY <1>0, <1>3 DEF DeleteTable, DeleteFails
<1>4. CASE Load \/ LoadFatal \/ LoadFails
  BY <1>0, <1>4 DEF Load, LoadFatal, LoadFails, Exited
<1>5. CASE Spawn \/ SpawnFails \/ ReadLine \/ ReadEnd \/ ReadFails \/ Reap
  BY <1>0, <1>5 DEF Spawn, SpawnFails, ReadLine, ReadEnd, ReadFails, Reap, vars
<1>6. CASE CheckFindsAll \/ CheckFindsLoss \/ CheckFails
  BY <1>0, <1>6 DEF CheckFindsAll, CheckFindsLoss, CheckFails
<1>7. CASE UNCHANGED vars
  BY <1>0, <1>7 DEF vars
<1>8. QED
  BY <1>1, <1>2, <1>3, <1>4, <1>5, <1>6, <1>7 DEF Next, Daemon

(* Where nothing but declared tables is left to delete, no step of the daemon changes
   a table that the running config does not declare. *)
LEMMA ForeignUntouched ==
  ForeignInv /\ Daemon => \A t \in Table \ ruleset : copies'[t] = copies[t]
<1> SUFFICES ASSUME ForeignInv, Daemon, NEW t \in Table \ ruleset
             PROVE  copies'[t] = copies[t]
  OBVIOUS
<1> USE DEF ForeignInv, TypeOK
<1>1. CASE \E u \in Table : DeleteTable(u) \/ DeleteFails(u)
  BY <1>1 DEF DeleteTable, DeleteFails
<1>2. CASE Load
  BY <1>2 DEF Load
<1>3. CASE copies' = copies
  BY <1>3
<1>4. QED
  BY <1>1, <1>2, <1>3
     DEF Daemon, Start, LookupFound, LookupRetried, LookupFatal, FirstApply, LoadFatal,
         LoadFails, Spawn, SpawnFails, ReadLine, ReadEnd, ReadFails, Reap, CheckFindsAll,
         CheckFindsLoss, CheckFails, vars

(* However often configs change and processes crash in the middle of an apply, the
   daemon never touches a table of somebody else's. *)
THEOREM OthersTablesSurvive == Spec => ForeignTablesSurvive
<1>1. Init => ForeignInv
  BY TypeInit DEF Init, ForeignInv
<1>2. ForeignInv /\ [Next]_vars
        => [Daemon => \A t \in Table \ ruleset : copies'[t] = copies[t]]_vars
  BY ForeignUntouched
<1>3. QED
  BY <1>1, <1>2, ForeignStep, PTL DEF Spec, ForeignTablesSurvive
=============================================================================
