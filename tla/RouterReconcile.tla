-------------------------- MODULE RouterReconcile --------------------------
(***************************************************************************)
(* The router daemon (router/src/main.rs, bird.rs): it renders bird.conf   *)
(* from its config and the resolved bypass routes, starts bird on it, and  *)
(* then runs two loops beside each other: one resolves the bypass again    *)
(* and reloads bird, the other nudges a bird that is stuck.  Both take     *)
(* render_lock.  Beside them: the file, bird with the config it has        *)
(* loaded, and the upstream sources the bypass is resolved from.           *)
(***************************************************************************)
EXTENDS Naturals

CONSTANTS
  Config,      \* the possible router.yaml files
  HasBypass,   \* the ones with a bypass block
  Resolution,  \* what resolving the bypass may yield
  NoRoutes,    \* no bypass routes; may be a Resolution, of all being excluded
  None,        \* nothing cached
  Torn,        \* a bird.conf cut off half way
  Absent,      \* no bird.conf, and what a bird that is not running has loaded
  Retries,     \* BYPASS_STARTUP_RETRIES
  MaxChanges,  \* bound: changes upstream
  MaxStuck,    \* bound: interface notifications bird misses
  MaxRestarts, \* bound: restarts of the container
  Faults       \* what the environment may do, a subset of FaultKinds

FaultKinds == {"resolve", "start", "read", "write", "birdc", "wedge"}

Task     == {"main", "refresh", "watchdog"}
Routes   == Resolution \cup {NoRoutes}
Rendered == [cfg : Config, routes : Routes]

ASSUME NamesAssumption ==
  /\ HasBypass \subseteq Config
  /\ Config # {} /\ Resolution # {}
  /\ None \notin Routes
  /\ Torn \notin Rendered /\ Absent \notin Rendered /\ Torn # Absent
ASSUME BoundAssumption ==
  /\ Retries \in Nat \ {0}
  /\ MaxChanges \in Nat /\ MaxStuck \in Nat /\ MaxRestarts \in Nat
  /\ Faults \subseteq FaultKinds

VARIABLES
  upstream,    \* what resolving would yield now
  file,        \* bird.conf
  loaded,      \* the config bird runs
  bird,        \* "down", "up", or "wedged": up, and answering nobody
  health,      \* "stuck" when a protocol of bird needs a nudge
  cfg,         \* the running router.yaml
  pc,          \* where each task is
  desired,     \* the bypass routes the task reconciling last resolved
  attempt,     \* of the resolution
  cache,       \* bypass_cache: last-known-good, or None
  lock,        \* render_lock: the task holding it, or "free"
  mishaps,     \* history: the operations that failed the last time
  resolved,    \* history: what this process has resolved the bypass to
  changes, stucks, restarts

birdVars   == <<loaded, bird, health>>
daemonVars == <<cfg, desired, attempt, cache, resolved>>
bounds     == <<changes, stucks, restarts>>
vars == <<upstream, file, birdVars, pc, daemonVars, lock, mishaps, bounds>>

Render(r) == [cfg |-> cfg, routes |-> r]

Goto(t, l) == pc' = [pc EXCEPT ![t] = l]

-----------------------------------------------------------------------------

Init ==
  /\ upstream \in Resolution
  /\ file = Absent
  /\ loaded = Absent /\ bird = "down" /\ health = "ok"
  /\ cfg \in Config
  /\ pc = [t \in Task |-> "off"]
  /\ desired = NoRoutes /\ attempt = 1 /\ cache = None /\ resolved = {}
  /\ lock = "free"
  /\ mishaps = {}
  /\ changes = 0 /\ stucks = 0 /\ restarts = 0

UpstreamChanges ==
  /\ changes < MaxChanges
  /\ changes' = changes + 1
  /\ upstream' \in Resolution \ {upstream}
  /\ UNCHANGED <<file, birdVars, pc, daemonVars, lock, mishaps, stucks, restarts>>

(* bird misses a notification: a protocol has no listening socket, or an OSPF
   interface is not attached, until bird is told to configure again. *)
GetsStuck ==
  /\ bird # "down" /\ stucks < MaxStuck
  /\ stucks' = stucks + 1
  /\ health' = "stuck"
  /\ UNCHANGED <<upstream, file, loaded, bird, pc, daemonVars, lock, mishaps,
                 changes, restarts>>

BirdWedges ==
  /\ "wedge" \in Faults
  /\ bird = "up"
  /\ bird' = "wedged"
  /\ UNCHANGED <<upstream, file, loaded, health, pc, daemonVars, lock, mishaps,
                 bounds>>

BirdRecovers ==
  /\ bird = "wedged"
  /\ bird' = "up"
  /\ UNCHANGED <<upstream, file, loaded, health, pc, daemonVars, lock, mishaps,
                 bounds>>

(* The whole container goes, bird with it, and every lock and cache; whether
   the file is still there when it starts again is the runtime's business. *)
Exited ==
  /\ pc' = [t \in Task |-> "off"]
  /\ loaded' = Absent /\ bird' = "down" /\ health' = "ok"
  /\ desired' = NoRoutes /\ attempt' = 1 /\ cache' = None /\ resolved' = {}
  /\ lock' = "free"
  /\ mishaps' = {}
  /\ file' \in {file, Absent}

(* bird exits, the daemon crashes, or Talos restarts it on a new config. *)
Restart ==
  /\ pc["main"] # "off"
  /\ restarts < MaxRestarts
  /\ restarts' = restarts + 1
  /\ Exited
  /\ UNCHANGED <<upstream, cfg, changes, stucks>>

-----------------------------------------------------------------------------
(* Resolving: main at startup, then the refresh loop *)

Start ==
  /\ pc["main"] = "off"
  /\ cfg' \in Config
  /\ Goto("main", IF cfg' \in HasBypass THEN "resolve" ELSE "first write")
  /\ UNCHANGED <<upstream, file, birdVars, desired, attempt, cache, resolved, lock,
                 mishaps, bounds>>

AfterResolving(t) == IF t = "main" THEN "first write" ELSE "lock"

(* Mutant: what is cached is served without resolving again. *)
ResolveOnce(t) ==
  /\ pc[t] = "resolve"
  /\ desired' = IF cache = None THEN upstream ELSE cache
  /\ cache' = desired'
  /\ resolved' = resolved \cup {desired'}
  /\ attempt' = 1
  /\ Goto(t, AfterResolving(t))
  /\ mishaps' = mishaps \ {"resolve"}
  /\ UNCHANGED <<upstream, file, birdVars, cfg, lock, bounds>>

ResolveOk(t) ==
  /\ pc[t] = "resolve"
  /\ desired' = upstream
  /\ cache' = upstream
  /\ resolved' = resolved \cup {upstream}
  /\ attempt' = 1
  /\ Goto(t, AfterResolving(t))
  /\ mishaps' = mishaps \ {"resolve"}
  /\ UNCHANGED <<upstream, file, birdVars, cfg, lock, bounds>>

(* What a failure serves: what is cached, or nothing. *)
Served == IF cache = None THEN NoRoutes ELSE cache

(* Mutant: a failure blanks the bypass until the next refresh. *)
ResolveFailsBlank(t) ==
  /\ "resolve" \in Faults
  /\ pc[t] = "resolve"
  /\ desired' = NoRoutes
  /\ Goto(t, AfterResolving(t))
  /\ mishaps' = mishaps \cup {"resolve"}
  /\ UNCHANGED <<upstream, file, birdVars, cfg, attempt, cache, resolved, lock, bounds>>

(* Mutant: one attempt too many (`<=' for `<'). *)
ResolveRetriedOnceMore(t) ==
  /\ "resolve" \in Faults
  /\ pc[t] = "resolve"
  /\ IF cache = None /\ attempt <= Retries
     THEN attempt' = attempt + 1 /\ UNCHANGED <<desired, pc>>
     ELSE attempt' = 1 /\ desired' = Served /\ Goto(t, AfterResolving(t))
  /\ mishaps' = mishaps \cup {"resolve"}
  /\ UNCHANGED <<upstream, file, birdVars, cfg, cache, resolved, lock, bounds>>

(* With something cached that is served at once; with nothing cached yet it is
   tried again, and given up at the last attempt. *)
ResolveFails(t) ==
  /\ "resolve" \in Faults
  /\ pc[t] = "resolve"
  /\ IF cache = None /\ attempt < Retries
     THEN attempt' = attempt + 1 /\ UNCHANGED <<desired, pc>>
     ELSE attempt' = 1 /\ desired' = Served /\ Goto(t, AfterResolving(t))
  /\ mishaps' = mishaps \cup {"resolve"}
  /\ UNCHANGED <<upstream, file, birdVars, cfg, cache, resolved, lock, bounds>>

-----------------------------------------------------------------------------
(* Startup: write bird.conf, start bird on it, then reconcile as ever *)

FirstWrite ==
  /\ pc["main"] = "first write"
  /\ file' = Render(desired)
  /\ Goto("main", "spawn")
  /\ UNCHANGED <<upstream, birdVars, daemonVars, lock, mishaps, bounds>>

(* bird parses the file, then its control socket appears. *)
BirdStarts ==
  /\ pc["main"] = "spawn"
  /\ bird' = "up" /\ loaded' = file
  /\ Goto("main", "lock")
  /\ UNCHANGED <<upstream, file, health, daemonVars, lock, mishaps, bounds>>

(* Writing, spawning or waiting for the socket failed: fatal. *)
StartFails ==
  /\ "start" \in Faults
  /\ pc["main"] \in {"first write", "spawn"}
  /\ Exited
  /\ UNCHANGED <<upstream, cfg, bounds>>

-----------------------------------------------------------------------------
(* reconcile, under render_lock, by main (once) and the refresh loop *)

(* Mutant: the watchdog does without the lock. *)
LockUnlessWatchdog(t) ==
  /\ pc[t] = "lock"
  /\ t = "watchdog" \/ lock = "free"
  /\ lock' = IF t = "watchdog" THEN lock ELSE t
  /\ Goto(t, IF t = "watchdog" THEN "check" ELSE "compare")
  /\ UNCHANGED <<upstream, file, birdVars, daemonVars, mishaps, bounds>>

Lock(t) ==
  /\ pc[t] = "lock" /\ lock = "free"
  /\ lock' = t
  /\ Goto(t, IF t = "watchdog" THEN "check" ELSE "compare")
  /\ UNCHANGED <<upstream, file, birdVars, daemonVars, mishaps, bounds>>

(* Done: main starts the loops and waits for bird, a loop awaits its tick. *)
Unlock(t) ==
  /\ lock' = "free"
  /\ IF t = "main"
     THEN pc' = [u \in Task |-> IF u = "main" THEN "serve"
                               ELSE IF u = "refresh" /\ cfg \notin HasBypass
                               THEN "off" ELSE "tick"]
     ELSE Goto(t, "tick")

CompareEqual(t) ==
  /\ pc[t] = "compare"
  /\ file = Render(desired)
  /\ Unlock(t)
  /\ UNCHANGED <<upstream, file, birdVars, daemonVars, mishaps, bounds>>

(* A file that cannot be read is taken for a different one; opening it for
   writing truncates it. *)
Truncate(t) ==
  /\ pc[t] = "compare"
  /\ file # Render(desired) \/ "read" \in Faults
  /\ file' = Torn
  /\ Goto(t, "write")
  /\ UNCHANGED <<upstream, birdVars, daemonVars, lock, mishaps, bounds>>

(* Mutant: the file is written and bird not told. *)
WriteOnly(t) ==
  /\ pc[t] = "write"
  /\ file' = Render(desired)
  /\ mishaps' = mishaps \ {"write"}
  /\ Unlock(t)
  /\ UNCHANGED <<upstream, birdVars, daemonVars, bounds>>

WriteOk(t) ==
  /\ pc[t] = "write"
  /\ file' = Render(desired)
  /\ mishaps' = mishaps \ {"write"}
  /\ Goto(t, "configure")
  /\ UNCHANGED <<upstream, birdVars, daemonVars, lock, bounds>>

(* For main an error is fatal; a loop logs it and goes on. *)
WriteFails(t) ==
  /\ "write" \in Faults
  /\ pc[t] = "write"
  /\ IF t = "main"
     THEN Exited /\ UNCHANGED cfg
     ELSE /\ Unlock(t)
          /\ mishaps' = mishaps \cup {"write"}
          /\ UNCHANGED <<file, birdVars, daemonVars>>
  /\ UNCHANGED <<upstream, bounds>>

(* `configure': bird reads the file and attaches what it had missed. *)
ConfigureOk(t) ==
  /\ pc[t] = "configure" /\ bird = "up"
  /\ loaded' = file
  /\ health' = "ok"
  /\ mishaps' = mishaps \ {"configure"}
  /\ Unlock(t)
  /\ UNCHANGED <<upstream, file, bird, daemonVars, bounds>>

(* Refused, unreachable, or no reply within COMMAND_TIMEOUT, in which case bird
   may have loaded the file all the same. *)
ConfigureFails(t) ==
  /\ pc[t] = "configure"
  /\ "birdc" \in Faults \/ bird = "wedged" \/ file = Torn
  /\ IF t = "main"
     THEN Exited /\ UNCHANGED cfg
     ELSE /\ Unlock(t)
          /\ loaded' \in {loaded, file}
          /\ mishaps' = mishaps \cup {"configure"}
          /\ UNCHANGED <<file, bird, health, daemonVars>>
  /\ UNCHANGED <<upstream, bounds>>

-----------------------------------------------------------------------------
(* The loops *)

RefreshTick ==
  /\ pc["refresh"] = "tick"
  /\ Goto("refresh", "resolve")
  /\ UNCHANGED <<upstream, file, birdVars, daemonVars, lock, mishaps, bounds>>

WatchdogTick ==
  /\ pc["watchdog"] = "tick"
  /\ Goto("watchdog", "lock")
  /\ UNCHANGED <<upstream, file, birdVars, daemonVars, lock, mishaps, bounds>>

HealthyCheck ==
  /\ pc["watchdog"] = "check" /\ bird = "up" /\ health = "ok"
  /\ Unlock("watchdog")
  /\ mishaps' = mishaps \ {"check"}
  /\ UNCHANGED <<upstream, file, birdVars, daemonVars, bounds>>

(* Mutant: the watchdog reconciles, which compares the file first. *)
UnhealthyCheckReconciles ==
  /\ pc["watchdog"] = "check" /\ bird = "up" /\ health = "stuck"
  /\ Goto("watchdog", "compare")
  /\ mishaps' = mishaps \ {"check"}
  /\ UNCHANGED <<upstream, file, birdVars, daemonVars, lock, bounds>>

(* force_reconfigure, whatever the file holds. *)
UnhealthyCheck ==
  /\ pc["watchdog"] = "check" /\ bird = "up" /\ health = "stuck"
  /\ Goto("watchdog", "configure")
  /\ mishaps' = mishaps \ {"check"}
  /\ UNCHANGED <<upstream, file, birdVars, daemonVars, lock, bounds>>

(* Mutant: no timeout on the reply of a wedged bird. *)
CheckWaits ==
  /\ pc["watchdog"] = "check"
  /\ "birdc" \in Faults /\ bird = "up"
  /\ Unlock("watchdog")
  /\ mishaps' = mishaps \cup {"check"}
  /\ UNCHANGED <<upstream, file, birdVars, daemonVars, bounds>>

CheckFails ==
  /\ pc["watchdog"] = "check"
  /\ "birdc" \in Faults \/ bird = "wedged"
  /\ Unlock("watchdog")
  /\ mishaps' = mishaps \cup {"check"}
  /\ UNCHANGED <<upstream, file, birdVars, daemonVars, bounds>>

-----------------------------------------------------------------------------

Environment ==
  \/ UpstreamChanges \/ GetsStuck \/ BirdWedges \/ BirdRecovers \/ Restart

Reconciling(t) ==
  \/ ResolveOk(t) \/ ResolveFails(t)
  \/ CompareEqual(t) \/ Truncate(t) \/ WriteOk(t) \/ WriteFails(t)

Configuring(t) == ConfigureOk(t) \/ ConfigureFails(t)

Main ==
  \/ Start \/ FirstWrite \/ BirdStarts \/ StartFails
  \/ Reconciling("main") \/ Configuring("main") \/ Lock("main")

Refresh == RefreshTick \/ Reconciling("refresh") \/ Configuring("refresh")

Watchdog ==
  \/ WatchdogTick \/ HealthyCheck \/ UnhealthyCheck \/ CheckFails
  \/ Configuring("watchdog")

Next ==
  \/ Environment
  \/ Main \/ Refresh \/ Watchdog
  \/ Lock("refresh") \/ Lock("watchdog")

Spec == Init /\ [][Next]_vars

(* Talos restarts the container, each task waits only for its own timers and
   replies, all of them bounded, and a tokio mutex is handed out in the order
   it was asked for: a task that waits for it cannot be overtaken for ever. *)
FairSpec ==
  /\ Spec
  /\ WF_vars(Main) /\ WF_vars(Refresh) /\ WF_vars(Watchdog)
  /\ SF_vars(Lock("refresh")) /\ SF_vars(Lock("watchdog"))

-----------------------------------------------------------------------------
(* Properties *)

Places == {"off", "resolve", "first write", "spawn", "lock", "compare", "write",
           "configure", "check", "tick", "serve"}

TypeOK ==
  /\ upstream \in Resolution
  /\ file \in Rendered \cup {Torn, Absent}
  /\ loaded \in Rendered \cup {Torn, Absent}
  /\ (loaded = Absent) <=> (bird = "down")
  /\ bird \in {"down", "up", "wedged"}
  /\ health \in {"ok", "stuck"}
  /\ cfg \in Config
  /\ pc \in [Task -> Places]
  /\ desired \in Routes
  /\ attempt \in 1..Retries
  /\ cache \in Resolution \cup {None}
  /\ lock \in Task \cup {"free"}
  /\ mishaps \subseteq {"resolve", "write", "configure", "check"}
  /\ resolved \subseteq Resolution
  /\ changes \in 0..MaxChanges
  /\ stucks \in 0..MaxStuck
  /\ restarts \in 0..MaxRestarts

Serving == pc["main"] = "serve"

(* bird never reads bird.conf while the refresh loop is writing it ("without
   this a health-watchdog nudge could interleave with a bypass-refresh write",
   main.rs:69): a torn file is loaded only if writing it failed half way. *)
NoTornLoad ==
  [][loaded' = Torn /\ loaded # Torn => "write" \in mishaps]_vars

(* A running bird that blackholes the bypass is from then on given only what the
   bypass was resolved to, whatever fails ("rather than blanking the bypass
   out", main.rs:206). *)
Blackholing(x) == x \in Rendered /\ x.routes # NoRoutes
NeverBlanked ==
  [][Serving /\ Serving' /\ Blackholing(loaded) /\ loaded' \in Rendered
       => loaded'.routes \in resolved]_vars

(* When nobody is reconciling and the last write and reload were successful,
   bird runs what the file says, and that is of the running config. *)
BirdRunsTheFile ==
  Serving /\ lock = "free" /\ mishaps \subseteq {"resolve", "check"}
    => loaded = file /\ loaded.cfg = cfg

Fault ==
  \/ BirdWedges \/ StartFails \/ CheckFails
  \/ \E t \in Task : ResolveFails(t) \/ WriteFails(t) \/ ConfigureFails(t)
FaultsCease == <>[][~Fault]_vars

(* What the bypass resolves to in the end is what bird blackholes in the end,
   unless the last reload failed (StaleConfigReloaded). *)
RefreshReachesBird ==
  FaultsCease /\ <>[](bird # "wedged") =>
    \A r \in Resolution :
      <>[](upstream = r /\ cfg \in HasBypass)
        => <>[](loaded = Render(r) \/ "configure" \in mishaps)

(* A protocol that missed a notification is brought back, although the file
   does not change ("reconcile()'s diff check would never retry", bird.rs:116). *)
StuckProtocolNudged ==
  FaultsCease /\ <>[](bird # "wedged") => <>[](health = "ok")

(* The refresh loop gets its turn even while bird answers nobody: the watchdog
   holds the lock for a bounded time ("silently and permanently stop
   bypass-route refreshes too", birdc.rs:42). *)
RefreshNotStarved == pc["refresh"] = "lock" ~> pc["refresh"] # "lock"

(* A reload that failed is made up for ("on every reconcile pass ... and
   reloads it", bird.rs:1). *)
StaleConfigReloaded ==
  FaultsCease /\ <>[](bird # "wedged") =>
    \A r \in Resolution :
      <>[](upstream = r /\ cfg \in HasBypass) => <>[](loaded = Render(r))
=============================================================================
