----------------------- MODULE RouterReconcileProofs -----------------------
(***************************************************************************)
(* What holds of RouterReconcile for every config, every outcome of        *)
(* resolving and every bound: one task reconciles at a time, bird never    *)
(* reads a file that is being written, it runs what the file says while    *)
(* nothing fails, and once it blackholes it is given only what was         *)
(* resolved.                                                               *)
(***************************************************************************)
EXTENDS RouterReconcile, TLAPS

USE NamesAssumption, BoundAssumption

(* Before bird runs. *)
Starting == pc["main"] \in {"off", "resolve", "first write", "spawn"}

(* With the lock, from taking it to releasing it. *)
Inside == {"compare", "write", "configure", "check"}

Exclusive == \A t \in Task : pc[t] \in Inside <=> lock = t

(* The loops run, and the lock is used, only while bird does; by then there is
   a file. *)
Phases ==
  /\ Starting => /\ bird = "down" /\ lock = "free"
                 /\ pc["refresh"] = "off" /\ pc["watchdog"] = "off"
  /\ ~Starting => bird # "down" /\ file # Absent
  /\ pc["main"] = "spawn" => file = Render(desired)

(* TypeOK is not inductive alone: that bird has a config when it is up rests on
   the phases. *)
TypeInv == TypeOK /\ Exclusive /\ Phases

-----------------------------------------------------------------------------

(* The steps of the induction, an exit being common to several actions. *)
LEMMA TypeInit == Init => TypeInv
BY DEF Init, TypeInv, TypeOK, Exclusive, Phases, Starting, Inside, Task, Places,
       Routes

(* A rendered file is none of the odd ones. *)
LEMMA RenderedFile ==
  ASSUME cfg \in Config, NEW r \in Routes
  PROVE  Render(r) \in Rendered /\ Render(r) # Torn /\ Render(r) # Absent
BY DEF Render, Rendered

(* What every exit leaves behind. *)
LEMMA TypeExited ==
  ASSUME TypeInv, Exited, upstream' \in Resolution, cfg' \in Config,
         changes' = changes, stucks' = stucks, restarts' \in 0..MaxRestarts
  PROVE  TypeInv'
<1> USE DEF Exited
<1>1. pc' \in [Task -> Places]
  BY DEF Places
<1>t. TypeOK'
  BY <1>1 DEF TypeInv, TypeOK, Routes
<1>x. Exclusive'
  BY DEF Exclusive, Inside, Task
<1>p. Phases'
  BY DEF Phases, Starting, Task
<1>q. QED
  BY <1>t, <1>x, <1>p DEF TypeInv

LEMMA TypeStep == TypeInv /\ [Next]_vars => TypeInv'
<1> SUFFICES ASSUME TypeInv, [Next]_vars
             PROVE  TypeInv'
  OBVIOUS
<1> USE DEF Task, Places, Routes, Goto, birdVars, daemonVars, bounds
<1>e. CASE Environment
  <2>1. CASE UpstreamChanges
    <3>0a. changes \in 0..MaxChanges
      BY DEF TypeInv, TypeOK
    <3>0b. changes' \in 0..MaxChanges
      BY <2>1, <3>0a DEF UpstreamChanges
    <3>t. TypeOK'
      BY <2>1, <3>0b DEF UpstreamChanges, TypeInv, TypeOK, Phases, Starting
    <3>x. Exclusive'
      BY <2>1 DEF UpstreamChanges, TypeInv, TypeOK, Exclusive, Inside
    <3>p. Phases'
      BY <2>1 DEF UpstreamChanges, TypeInv, TypeOK, Exclusive, Inside, Phases, Starting, Render
    <3>q. QED
      BY <3>t, <3>x, <3>p DEF TypeInv
  <2>3. CASE GetsStuck
    <3>0a. stucks \in 0..MaxStuck
      BY DEF TypeInv, TypeOK
    <3>0b. stucks' \in 0..MaxStuck
      BY <2>3, <3>0a DEF GetsStuck
    <3>t. TypeOK'
      BY <2>3, <3>0b DEF GetsStuck, TypeInv, TypeOK, Phases, Starting
    <3>x. Exclusive'
      BY <2>3 DEF GetsStuck, TypeInv, TypeOK, Exclusive, Inside
    <3>p. Phases'
      BY <2>3 DEF GetsStuck, TypeInv, TypeOK, Exclusive, Inside, Phases, Starting, Render
    <3>q. QED
      BY <3>t, <3>x, <3>p DEF TypeInv
  <2>4. CASE BirdWedges \/ BirdRecovers
    <3>t. TypeOK'
      BY <2>4 DEF BirdWedges, BirdRecovers, TypeInv, TypeOK, Phases, Starting
    <3>x. Exclusive'
      BY <2>4 DEF BirdWedges, BirdRecovers, TypeInv, TypeOK, Exclusive, Inside
    <3>p. Phases'
      BY <2>4 DEF BirdWedges, BirdRecovers, TypeInv, TypeOK, Exclusive, Inside, Phases, Starting, Render
    <3>q. QED
      BY <3>t, <3>x, <3>p DEF TypeInv
  <2>2. CASE Restart
    <3>r. restarts \in 0..MaxRestarts
      BY DEF TypeInv, TypeOK
    <3>1. restarts' \in 0..MaxRestarts
      BY <2>2, <3>r DEF Restart
    <3>q. QED
      BY <2>2, <3>1, TypeExited DEF Restart, TypeInv, TypeOK
  <2>q. QED
    BY <1>e, <2>1, <2>2, <2>3, <2>4 DEF Environment
<1>s. ASSUME Start \/ FirstWrite \/ BirdStarts \/ StartFails
      PROVE  TypeInv'
  <2>1. CASE Start
    <3>t. TypeOK'
      BY <2>1 DEF Start, TypeInv, TypeOK, Phases, Starting
    <3>x. Exclusive'
      BY <2>1 DEF Start, TypeInv, TypeOK, Exclusive, Inside
    <3>p. Phases'
      BY <2>1 DEF Start, TypeInv, TypeOK, Exclusive, Inside, Phases, Starting, Render
    <3>q. QED
      BY <3>t, <3>x, <3>p DEF TypeInv
  <2>2. CASE FirstWrite
    <3>r. Render(desired) \in Rendered /\ Render(desired) \notin {Torn, Absent}
      BY RenderedFile DEF TypeInv, TypeOK
    <3>t. TypeOK'
      BY <2>2, <3>r DEF FirstWrite, TypeInv, TypeOK, Phases, Starting, Render
    <3>x. Exclusive'
      BY <2>2, <3>r DEF FirstWrite, TypeInv, TypeOK, Exclusive, Inside
    <3>p. Phases'
      BY <2>2, <3>r DEF FirstWrite, TypeInv, TypeOK, Exclusive, Inside, Phases, Starting, Render
    <3>q. QED
      BY <3>t, <3>x, <3>p DEF TypeInv
  <2>3. CASE BirdStarts
    <3>r. Render(desired) \in Rendered /\ Render(desired) \notin {Torn, Absent}
      BY RenderedFile DEF TypeInv, TypeOK
    <3>c. pc' \in [Task -> Places]
      BY <2>3, <3>r DEF BirdStarts, TypeInv, TypeOK
    <3>t. TypeOK'
      BY <2>3, <3>r, <3>c DEF BirdStarts, TypeInv, TypeOK, Phases, Starting
    <3>x. Exclusive'
      BY <2>3, <3>r DEF BirdStarts, TypeInv, TypeOK, Exclusive, Inside
    <3>p. Phases'
      BY <2>3, <3>r DEF BirdStarts, TypeInv, TypeOK, Exclusive, Inside, Phases, Starting, Render
    <3>q. QED
      BY <3>t, <3>x, <3>p DEF TypeInv
  <2>4. CASE StartFails
    BY <2>4, TypeExited DEF StartFails, TypeInv, TypeOK
  <2>q. QED
    BY <1>s, <2>1, <2>2, <2>3, <2>4
<1>r. ASSUME NEW t \in {"main", "refresh"}, Reconciling(t)
      PROVE  TypeInv'
  <2>1. CASE ResolveOk(t)
    <3>c. pc' \in [Task -> Places]
      BY <2>1 DEF ResolveOk, AfterResolving, TypeInv, TypeOK
    <3>0a. attempt \in 1..Retries
      BY DEF TypeInv, TypeOK
    <3>0b. attempt' \in 1..Retries
      BY <2>1, <3>0a DEF ResolveOk
    <3>t. TypeOK'
      BY <2>1, <3>0b, <3>c DEF ResolveOk, AfterResolving, TypeInv, TypeOK, Phases, Starting
    <3>x. Exclusive'
      BY <2>1 DEF ResolveOk, AfterResolving, TypeInv, TypeOK, Exclusive, Inside
    <3>p. Phases'
      BY <2>1 DEF ResolveOk, AfterResolving, TypeInv, TypeOK, Exclusive, Inside, Phases, Starting, Render
    <3>q. QED
      BY <3>t, <3>x, <3>p DEF TypeInv
  <2>6. CASE ResolveFails(t)
    <3>c. pc' \in [Task -> Places]
      BY <2>6 DEF ResolveFails, AfterResolving, TypeInv, TypeOK
    <3>0a. attempt \in 1..Retries
      BY DEF TypeInv, TypeOK
    <3>0b. attempt' \in 1..Retries
      BY <2>6, <3>0a DEF ResolveFails
    <3>d. desired' \in Routes /\ cache' \in Resolution \cup {None}
      BY <2>6 DEF ResolveFails, Served, TypeInv, TypeOK
    <3>t. TypeOK'
      BY <2>6, <3>0b, <3>c, <3>d DEF ResolveFails, AfterResolving, TypeInv, TypeOK, Phases, Starting
    <3>x. Exclusive'
      BY <2>6 DEF ResolveFails, AfterResolving, TypeInv, TypeOK, Exclusive, Inside
    <3>p. Phases'
      BY <2>6 DEF ResolveFails, AfterResolving, TypeInv, TypeOK, Exclusive, Inside, Phases, Starting, Render
    <3>q. QED
      BY <3>t, <3>x, <3>p DEF TypeInv
  <2>2. CASE CompareEqual(t)
    <3>t. TypeOK'
      BY <2>2 DEF CompareEqual, Unlock, TypeInv, TypeOK, Phases, Starting
    <3>x. Exclusive'
      BY <2>2 DEF CompareEqual, Unlock, TypeInv, TypeOK, Exclusive, Inside
    <3>p. Phases'
      BY <2>2 DEF CompareEqual, Unlock, TypeInv, TypeOK, Exclusive, Inside, Phases, Starting, Render
    <3>q. QED
      BY <3>t, <3>x, <3>p DEF TypeInv
  <2>3. CASE Truncate(t)
    <3>t. TypeOK'
      BY <2>3 DEF Truncate, TypeInv, TypeOK, Phases, Starting
    <3>x. Exclusive'
      BY <2>3 DEF Truncate, TypeInv, TypeOK, Exclusive, Inside
    <3>p. Phases'
      BY <2>3 DEF Truncate, TypeInv, TypeOK, Exclusive, Inside, Phases, Starting, Render
    <3>q. QED
      BY <3>t, <3>x, <3>p DEF TypeInv
  <2>4. CASE WriteOk(t)
    <3>r. Render(desired) \in Rendered /\ Render(desired) \notin {Torn, Absent}
      BY RenderedFile DEF TypeInv, TypeOK
    <3>c. pc' \in [Task -> Places]
      BY <2>4, <3>r DEF WriteOk, TypeInv, TypeOK
    <3>t. TypeOK'
      BY <2>4, <3>r, <3>c DEF WriteOk, TypeInv, TypeOK, Phases, Starting
    <3>x. Exclusive'
      BY <2>4, <3>r DEF WriteOk, TypeInv, TypeOK, Exclusive, Inside
    <3>p. Phases'
      BY <2>4, <3>r DEF WriteOk, TypeInv, TypeOK, Exclusive, Inside, Phases, Starting, Render
    <3>q. QED
      BY <3>t, <3>x, <3>p DEF TypeInv
  <2>5. CASE WriteFails(t)
    <3>1. CASE t = "main"
      BY <2>5, <3>1, TypeExited DEF WriteFails, TypeInv, TypeOK
    <3>2. CASE t = "refresh"
      <4>t. TypeOK'
        BY <2>5, <3>2 DEF WriteFails, Unlock, TypeInv, TypeOK, Phases, Starting
      <4>x. Exclusive'
        BY <2>5, <3>2 DEF WriteFails, Unlock, TypeInv, TypeOK, Exclusive, Inside
      <4>p. Phases'
        BY <2>5, <3>2 DEF WriteFails, Unlock, TypeInv, TypeOK, Exclusive, Inside, Phases, Starting, Render
      <4>q. QED
        BY <4>t, <4>x, <4>p DEF TypeInv
    <3>q. QED
      BY <3>1, <3>2
  <2>q. QED
    BY <1>r, <2>1, <2>2, <2>3, <2>4, <2>5, <2>6
    DEF Reconciling
<1>c. ASSUME NEW t \in Task, Configuring(t)
      PROVE  TypeInv'
  <2>1. CASE ConfigureOk(t)
    <3>t. TypeOK'
      BY <2>1 DEF ConfigureOk, Unlock, TypeInv, TypeOK, Phases, Starting, Exclusive, Inside
    <3>x. Exclusive'
      BY <2>1 DEF ConfigureOk, Unlock, TypeInv, TypeOK, Exclusive, Inside
    <3>p. Phases'
      BY <2>1 DEF ConfigureOk, Unlock, TypeInv, TypeOK, Exclusive, Inside, Phases, Starting, Render
    <3>q. QED
      BY <3>t, <3>x, <3>p DEF TypeInv
  <2>2. CASE ConfigureFails(t)
    <3>1. CASE t = "main"
      BY <2>2, <3>1, TypeExited DEF ConfigureFails, TypeInv, TypeOK
    <3>2. CASE t # "main"
      <4>t. TypeOK'
        BY <2>2, <3>2 DEF ConfigureFails, Unlock, TypeInv, TypeOK, Phases, Starting, Exclusive, Inside
      <4>x. Exclusive'
        BY <2>2, <3>2 DEF ConfigureFails, Unlock, TypeInv, TypeOK, Exclusive, Inside
      <4>p. Phases'
        BY <2>2, <3>2 DEF ConfigureFails, Unlock, TypeInv, TypeOK, Exclusive, Inside, Phases, Starting, Render
      <4>q. QED
        BY <4>t, <4>x, <4>p DEF TypeInv
    <3>q. QED
      BY <3>1, <3>2
  <2>q. QED
    BY <1>c, <2>1, <2>2 DEF Configuring
<1>l. ASSUME NEW t \in Task, Lock(t)
      PROVE  TypeInv'
  <2>t. TypeOK'
    BY <1>l DEF Lock, TypeInv, TypeOK, Phases, Starting
  <2>x. Exclusive'
    BY <1>l DEF Lock, TypeInv, TypeOK, Exclusive, Inside
  <2>p. Phases'
    BY <1>l DEF Lock, TypeInv, TypeOK, Exclusive, Inside, Phases, Starting, Render
  <2>q. QED
    BY <2>t, <2>x, <2>p DEF TypeInv
<1>k. CASE RefreshTick \/ WatchdogTick
  <2>c. pc' \in [Task -> Places]
    BY <1>k DEF RefreshTick, WatchdogTick, TypeInv, TypeOK
  <2>t. TypeOK'
    BY <1>k, <2>c DEF RefreshTick, WatchdogTick, TypeInv, TypeOK, Phases, Starting
  <2>x. Exclusive'
    BY <1>k DEF RefreshTick, WatchdogTick, TypeInv, TypeOK, Exclusive, Inside
  <2>p. Phases'
    BY <1>k DEF RefreshTick, WatchdogTick, TypeInv, TypeOK, Exclusive, Inside, Phases, Starting, Render
  <2>q. QED
    BY <2>t, <2>x, <2>p DEF TypeInv
<1>h. CASE HealthyCheck \/ UnhealthyCheck \/ CheckFails
  <2>t. TypeOK'
    BY <1>h DEF HealthyCheck, UnhealthyCheck, CheckFails, Unlock, TypeInv, TypeOK, Phases, Starting
  <2>x. Exclusive'
    BY <1>h DEF HealthyCheck, UnhealthyCheck, CheckFails, Unlock, TypeInv, TypeOK, Exclusive, Inside
  <2>p. Phases'
    BY <1>h DEF HealthyCheck, UnhealthyCheck, CheckFails, Unlock, TypeInv, TypeOK, Exclusive, Inside, Phases, Starting, Render
  <2>q. QED
    BY <2>t, <2>x, <2>p DEF TypeInv
<1>u. CASE UNCHANGED vars
  <2>t. TypeOK'
    BY <1>u DEF vars, TypeInv, TypeOK, Phases, Starting
  <2>x. Exclusive'
    BY <1>u DEF vars, TypeInv, TypeOK, Exclusive, Inside
  <2>p. Phases'
    BY <1>u DEF vars, TypeInv, TypeOK, Exclusive, Inside, Phases, Starting, Render
  <2>q. QED
    BY <2>t, <2>x, <2>p DEF TypeInv
<1>q. QED
  BY <1>e, <1>s, <1>r, <1>c, <1>l, <1>k, <1>h, <1>u
  DEF Next, Main, Refresh, Watchdog

(* Every variable keeps its type, and bird has loaded a config exactly while it
   runs. *)
THEOREM TypeCorrect == Spec => []TypeOK
<1>1. TypeInv => TypeOK
  BY DEF TypeInv
<1>2. QED
  BY TypeInit, TypeStep, <1>1, PTL DEF Spec

-----------------------------------------------------------------------------
(* The file.  While bird runs it is whole and of the running config, unless it
   is being written or the last write failed; and it is what bird runs, unless
   a task is between writing it and bird's answer, or the last one of either
   failed. *)

Writing     == \E t \in Task : pc[t] = "write"
Reloading   == \E t \in Task : pc[t] \in {"write", "configure"}

Intact ==
  ~Starting =>
    \/ file \in Rendered /\ file.cfg = cfg
    \/ file = Torn /\ (Writing \/ "write" \in mishaps)

InStep ==
  ~Starting /\ ~Reloading /\ mishaps \cap {"write", "configure"} = {}
    => loaded = file

FileInv == TypeInv /\ Intact /\ InStep

(* Nothing is claimed before the first write. *)
LEMMA FileInit == Init => FileInv
BY TypeInit DEF Init, FileInv, Intact, InStep, Starting, Task

(* An exit makes both claims void. *)
LEMMA FileExited == Exited => (Intact /\ InStep)'
BY DEF Exited, Intact, InStep, Starting, Task

LEMMA FileStep == FileInv /\ [Next]_vars => FileInv'
<1> SUFFICES ASSUME FileInv, [Next]_vars
             PROVE  Intact' /\ InStep'
  BY TypeStep DEF FileInv
<1> USE DEF Goto, birdVars, daemonVars, bounds
<1>0. pc \in [Task -> Places] /\ \A t \in Task : pc[t] \in Inside <=> lock = t
  BY DEF FileInv, TypeInv, TypeOK, Exclusive
<1>e. CASE Environment
  BY <1>e, FileExited DEF Environment, UpstreamChanges, GetsStuck, BirdWedges,
     BirdRecovers, Restart, FileInv, Intact, InStep, Starting, Writing, Reloading
<1>s. ASSUME Start \/ FirstWrite \/ BirdStarts \/ StartFails
      PROVE  Intact' /\ InStep'
  <2>1. CASE Start \/ FirstWrite
    BY <2>1, <1>0 DEF Start, FirstWrite, Intact, InStep, Starting, Task
  <2>2. CASE BirdStarts
    <3>1. file = Render(desired) /\ file \in Rendered
      BY <2>2, RenderedFile DEF BirdStarts, FileInv, TypeInv, TypeOK, Phases
    <3>2. file.cfg = cfg
      BY <3>1 DEF Render
    <3>q. QED
      BY <2>2, <3>1, <3>2 DEF BirdStarts, Intact, InStep
  <2>3. CASE StartFails
    BY <2>3, FileExited DEF StartFails
  <2>q. QED
    BY <1>s, <2>1, <2>2, <2>3
<1>r. ASSUME NEW t \in {"main", "refresh"}, Reconciling(t)
      PROVE  Intact' /\ InStep'
  <2>0. t \in Task
    BY DEF Task
  <2>1. CASE ResolveOk(t) \/ ResolveFails(t)
    BY <2>1, <2>0, <1>0 DEF ResolveOk, ResolveFails, AfterResolving, FileInv, Intact,
       InStep, Starting, Writing, Reloading, Task
  <2>2. CASE CompareEqual(t)
    BY <2>2, <2>0, <1>0 DEF CompareEqual, Unlock, FileInv, Intact, InStep, Starting,
       Writing, Reloading, Task, Inside
  <2>3. CASE Truncate(t)
    BY <2>3, <2>0, <1>0 DEF Truncate, Intact, InStep, Writing, Reloading, Task
  <2>4. CASE WriteOk(t)
    <3>1. Render(desired) \in Rendered /\ Render(desired).cfg = cfg
      BY RenderedFile DEF FileInv, TypeInv, TypeOK, Render
    <3>q. QED
      BY <2>4, <2>0, <1>0, <3>1 DEF WriteOk, Intact, InStep, Reloading, Task
  <2>5. CASE WriteFails(t)
    <3>1. CASE t = "main"
      BY <2>5, <3>1, FileExited DEF WriteFails
    <3>2. CASE t = "refresh"
      BY <2>5, <3>2, <1>0 DEF WriteFails, Unlock, FileInv, Intact, InStep, Starting,
         Task
    <3>q. QED
      BY <3>1, <3>2
  <2>q. QED
    BY <1>r, <2>1, <2>2, <2>3, <2>4, <2>5 DEF Reconciling
<1>c. ASSUME NEW t \in Task, Configuring(t)
      PROVE  Intact' /\ InStep'
  <2>1. CASE ConfigureOk(t)
    BY <2>1, <1>0 DEF ConfigureOk, Unlock, FileInv, Intact, InStep, Starting,
       Writing, Task, Inside
  <2>2. CASE ConfigureFails(t)
    <3>1. CASE t = "main"
      BY <2>2, <3>1, FileExited DEF ConfigureFails
    <3>2. CASE t # "main"
      BY <2>2, <3>2, <1>0 DEF ConfigureFails, Unlock, FileInv, Intact, InStep,
         Starting, Writing, Task, Inside
    <3>q. QED
      BY <3>1, <3>2
  <2>q. QED
    BY <1>c, <2>1, <2>2 DEF Configuring
<1>l. ASSUME NEW t \in Task, Lock(t)
      PROVE  Intact' /\ InStep'
  BY <1>l, <1>0 DEF Lock, FileInv, Intact, InStep, Starting, Writing, Reloading, Task
<1>k. CASE RefreshTick \/ WatchdogTick
  BY <1>k, <1>0 DEF RefreshTick, WatchdogTick, FileInv, Intact, InStep, Starting,
     Writing, Reloading, Task
<1>h. CASE HealthyCheck \/ UnhealthyCheck \/ CheckFails
  BY <1>h, <1>0 DEF HealthyCheck, UnhealthyCheck, CheckFails, Unlock, FileInv, Intact,
     InStep, Starting, Writing, Reloading, Task, Inside
<1>u. CASE UNCHANGED vars
  BY <1>u DEF vars, FileInv, Intact, InStep, Starting, Writing, Reloading
<1>q. QED
  BY <1>e, <1>s, <1>r, <1>c, <1>l, <1>k, <1>h, <1>u
  DEF Next, Main, Refresh, Watchdog, Task

(* When nobody reconciles and nothing failed the last time, bird runs what the
   file says, and that is of the running config. *)
THEOREM FileIsRun == Spec => []BirdRunsTheFile
<1>1. FileInv => BirdRunsTheFile
  <2> SUFFICES ASSUME FileInv, Serving, lock = "free",
                      mishaps \subseteq {"resolve", "check"}
               PROVE  loaded = file /\ loaded.cfg = cfg
    BY DEF BirdRunsTheFile
  <2>1. \A t \in Task : pc[t] \notin Inside
    BY DEF FileInv, TypeInv, Exclusive, Task
  <2>2. ~Starting /\ ~Writing /\ ~Reloading
    BY <2>1 DEF Serving, Starting, Writing, Reloading, Inside
  <2>q. QED
    BY <2>2 DEF FileInv, Intact, InStep
<1>2. QED
  BY FileInit, FileStep, <1>1, PTL DEF Spec

(* Who configures holds the lock, so nobody is writing: a torn file is then one
   whose write failed. *)
LEMMA TornAtConfigure ==
  ASSUME FileInv, NEW t \in Task, pc[t] = "configure", file = Torn
  PROVE  "write" \in mishaps
<1>1. lock = t /\ \A u \in Task : pc[u] \in Inside => lock = u
  BY DEF FileInv, TypeInv, Exclusive, Inside
<1>2. ~Starting
  BY <1>1 DEF FileInv, TypeInv, Phases, Task
<1>3. ~Writing
  BY <1>1 DEF Writing, Inside
<1>4. QED
  BY <1>2, <1>3 DEF FileInv, Intact

(* The only steps that give bird a file are its start and the reloads. *)
LEMMA LoadStep ==
  ASSUME FileInv, [Next]_vars, loaded' # loaded
  PROVE  \/ loaded' = Absent
         \/ BirdStarts
         \/ \E t \in Task : pc[t] = "configure" /\ loaded' = file
<1> USE DEF birdVars, Exited
<1>e. CASE Environment
  BY <1>e DEF Environment, UpstreamChanges, GetsStuck, BirdWedges, BirdRecovers,
     Restart
<1>s. CASE Start \/ FirstWrite \/ BirdStarts \/ StartFails
  BY <1>s DEF Start, FirstWrite, StartFails
<1>r. CASE \E t \in {"main", "refresh"} : Reconciling(t)
  BY <1>r DEF Reconciling, ResolveOk, ResolveFails, CompareEqual, Truncate, WriteOk,
     WriteFails
<1>c. CASE \E t \in Task : Configuring(t)
  BY <1>c DEF Configuring, ConfigureOk, ConfigureFails
<1>l. CASE \E t \in Task : Lock(t)
  BY <1>l DEF Lock
<1>k. CASE \/ RefreshTick \/ WatchdogTick
           \/ HealthyCheck \/ UnhealthyCheck \/ CheckFails
  BY <1>k DEF RefreshTick, WatchdogTick, HealthyCheck, UnhealthyCheck, CheckFails
<1>u. CASE UNCHANGED vars
  BY <1>u DEF vars
<1>q. QED
  BY <1>e, <1>s, <1>r, <1>c, <1>l, <1>k, <1>u
  DEF Next, Main, Refresh, Watchdog, Task

(* bird never reads a file that is being written: it loads a torn one only
   after writing it failed. *)
THEOREM TornOnlyAfterFailure == Spec => NoTornLoad
<1>1. FileInv /\ [Next]_vars
        => [loaded' = Torn /\ loaded # Torn => "write" \in mishaps]_vars
  <2> SUFFICES ASSUME FileInv, [Next]_vars, loaded' = Torn, loaded # Torn
               PROVE  "write" \in mishaps
    OBVIOUS
  <2>1. CASE BirdStarts
    <3>1. file = Render(desired) /\ file # Torn
      BY <2>1, RenderedFile DEF BirdStarts, FileInv, TypeInv, TypeOK, Phases
    <3>q. QED
      BY <2>1, <3>1 DEF BirdStarts
  <2>2. CASE \E t \in Task : pc[t] = "configure" /\ loaded' = file
    BY <2>2, TornAtConfigure
  <2>q. QED
    BY <2>1, <2>2, LoadStep
<1>2. QED
  BY FileInit, FileStep, <1>1, PTL DEF Spec, NoTornLoad

-----------------------------------------------------------------------------
(* The bypass.  What was resolved last is what is cached and what is wanted, a
   failure serves the cache, and once the file or bird blackholes anything there
   is a cache. *)

Remembered ==
  /\ cache = None => desired = NoRoutes
  /\ cache # None => desired = cache /\ cache \in resolved

Kept ==
  /\ Remembered
  /\ ~Starting =>
       /\ Blackholing(file) \/ Blackholing(loaded) => cache # None
       /\ Blackholing(file) => file.routes \in resolved
       /\ Blackholing(loaded) => /\ loaded.routes \in resolved
                                 /\ file = Torn \/ file.routes \in resolved

BlankInv == TypeInv /\ Kept

LEMMA BlankInit == Init => BlankInv
BY TypeInit DEF Init, BlankInv, Kept, Remembered, Starting, Task

LEMMA KeptExited == Exited => Kept'
BY DEF Exited, Kept, Remembered, Starting, Task

(* A file rendered now blackholes only what was resolved, and does so whenever
   there is a cache that does. *)
LEMMA RenderResolved ==
  ASSUME TypeInv, Remembered
  PROVE  /\ cache # None => Render(desired).routes \in resolved
         /\ Blackholing(Render(desired)) => cache # None
BY DEF Remembered, Render, Blackholing

LEMMA BlankStep == BlankInv /\ [Next]_vars => BlankInv'
<1> SUFFICES ASSUME BlankInv, [Next]_vars
             PROVE  Kept'
  BY TypeStep DEF BlankInv
<1> USE DEF Goto, birdVars, daemonVars, bounds
<1>0. pc \in [Task -> Places] /\ Torn # Absent /\ ~Blackholing(Torn)
  BY DEF BlankInv, TypeInv, TypeOK, Blackholing
<1>1. /\ cache # None => Render(desired).routes \in resolved
      /\ Blackholing(Render(desired)) => cache # None
  BY RenderResolved DEF BlankInv, Kept
<1>2. \A t \in Task : pc[t] \in Inside => ~Starting
  BY DEF BlankInv, TypeInv, Exclusive, Phases, Task
<1>e. CASE Environment
  BY <1>e, KeptExited DEF Environment, UpstreamChanges, GetsStuck, BirdWedges,
     BirdRecovers, Restart, BlankInv, Kept, Remembered, Starting, Blackholing
<1>s. ASSUME Start \/ FirstWrite \/ BirdStarts \/ StartFails
      PROVE  Kept'
  <2>1. CASE Start \/ FirstWrite
    BY <2>1, <1>0 DEF Start, FirstWrite, BlankInv, Kept, Remembered, Starting, Task
  <2>2. CASE BirdStarts
    <3>1. file = Render(desired)
      BY <2>2 DEF BirdStarts, BlankInv, TypeInv, Phases
    <3>2. /\ file' = Render(desired) /\ loaded' = Render(desired)
          /\ desired' = desired /\ cache' = cache /\ resolved' = resolved
      BY <2>2, <3>1 DEF BirdStarts
    <3>3. Remembered'
      BY <3>2 DEF BlankInv, Kept, Remembered
    <3>q. QED
      BY <3>2, <3>3, <1>1 DEF Kept, Blackholing
  <2>3. CASE StartFails
    BY <2>3, KeptExited DEF StartFails
  <2>q. QED
    BY <1>s, <2>1, <2>2, <2>3
<1>r. ASSUME NEW t \in {"main", "refresh"}, Reconciling(t)
      PROVE  Kept'
  <2>0. t \in Task
    BY DEF Task
  <2>1. CASE ResolveOk(t)
    <3>1. upstream # None
      BY DEF BlankInv, TypeInv, TypeOK, Routes
    <3>2. Starting => Starting'
      BY <2>1, <2>0, <1>0 DEF ResolveOk, AfterResolving, Starting, Task
    <3>3. Remembered'
      BY <2>1, <3>1 DEF ResolveOk, Remembered
    <3>q. QED
      BY <2>1, <3>1, <3>2, <3>3 DEF ResolveOk, BlankInv, Kept, Blackholing
  <2>2. CASE ResolveFails(t)
    <3>1. Starting => Starting'
      BY <2>2, <2>0, <1>0 DEF ResolveFails, AfterResolving, Starting, Task
    <3>2. Remembered'
      BY <2>2 DEF ResolveFails, Served, BlankInv, Kept, Remembered
    <3>q. QED
      BY <2>2, <3>1, <3>2 DEF ResolveFails, BlankInv, Kept, Blackholing
  <2>3. CASE CompareEqual(t)
    BY <2>3, <2>0, <1>2 DEF CompareEqual, BlankInv, Kept, Remembered, Blackholing, Inside
  <2>4. CASE Truncate(t)
    BY <2>4, <2>0, <1>0, <1>2 DEF Truncate, BlankInv, Kept, Remembered, Blackholing, Inside
  <2>5. CASE WriteOk(t)
    <3>1. /\ file' = Render(desired) /\ loaded' = loaded /\ desired' = desired
          /\ cache' = cache /\ resolved' = resolved /\ ~Starting
      BY <2>5, <2>0, <1>2 DEF WriteOk, Inside
    <3>2. Remembered'
      BY <3>1 DEF BlankInv, Kept, Remembered
    <3>q. QED
      BY <3>1, <3>2, <1>1 DEF BlankInv, Kept, Blackholing
  <2>6. CASE WriteFails(t)
    BY <2>6, <2>0, <1>2, KeptExited DEF WriteFails, BlankInv, Kept, Remembered, Blackholing,
       Inside
  <2>q. QED
    BY <1>r, <2>1, <2>2, <2>3, <2>4, <2>5, <2>6 DEF Reconciling
<1>c. ASSUME NEW t \in Task, Configuring(t)
      PROVE  Kept'
  <2>1. ~Starting
    BY <1>c, <1>2 DEF Configuring, ConfigureOk, ConfigureFails, Inside
  <2>q. QED
    BY <1>c, <2>1, <1>0, KeptExited DEF Configuring, ConfigureOk, ConfigureFails,
       BlankInv, Kept, Remembered, Blackholing
<1>l. ASSUME NEW t \in Task, Lock(t)
      PROVE  Kept'
  BY <1>l, <1>0 DEF Lock, BlankInv, Kept, Remembered, Blackholing, Starting, Task
<1>k. CASE RefreshTick \/ WatchdogTick
  BY <1>k, <1>0 DEF RefreshTick, WatchdogTick, BlankInv, Kept, Remembered, Blackholing,
     Starting, Task
<1>h. CASE HealthyCheck \/ UnhealthyCheck \/ CheckFails
  <2>1. ~Starting
    BY <1>h, <1>2 DEF HealthyCheck, UnhealthyCheck, CheckFails, Inside, Task
  <2>q. QED
    BY <1>h, <2>1 DEF HealthyCheck, UnhealthyCheck, CheckFails, BlankInv, Kept, Remembered,
       Blackholing
<1>u. CASE UNCHANGED vars
  BY <1>u DEF vars, BlankInv, Kept, Remembered, Blackholing, Starting
<1>q. QED
  BY <1>e, <1>s, <1>r, <1>c, <1>l, <1>k, <1>h, <1>u
  DEF Next, Main, Refresh, Watchdog, Task

(* A bird that blackholes the bypass is from then on given only what the bypass
   was resolved to, whatever fails: every file it can be given is rendered from
   a resolution. *)
THEOREM BypassKept == Spec => NeverBlanked
<1>1. BlankInv /\ FileInv /\ [Next]_vars
        => [Serving /\ Serving' /\ Blackholing(loaded) /\ loaded' \in Rendered
              => loaded'.routes \in resolved]_vars
  <2> SUFFICES ASSUME BlankInv, FileInv, [Next]_vars, Serving,
                      Blackholing(loaded), loaded' \in Rendered
               PROVE  loaded'.routes \in resolved
    OBVIOUS
  <2>1. CASE loaded' = loaded
    BY <2>1 DEF BlankInv, Kept, Serving, Starting
  <2>2. CASE BirdStarts
    BY <2>2 DEF BirdStarts, Serving
  <2>3. CASE loaded' = file
    BY <2>3 DEF BlankInv, Kept, Serving, Starting
  <2>q. QED
    BY <2>1, <2>2, <2>3, LoadStep
<1>2. QED
  BY BlankInit, BlankStep, FileInit, FileStep, <1>1, PTL DEF Spec, NeverBlanked
=============================================================================
