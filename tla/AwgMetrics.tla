------------------------------ MODULE AwgMetrics ------------------------------
(***************************************************************************)
(* awg's metrics endpoint (awg/src/metrics.rs): connections, each served by  *)
(* a task of its own, whose scrapes share one genetlink client in a mutex.   *)
(* A scrape dumps every interface under a timeout and renders what it read   *)
(* with the routing loop's last verdict; a connection may end at any moment, *)
(* which drops its task where it stands.                                     *)
(***************************************************************************)
EXTENDS Naturals, Sequences, FiniteSets, SequencesExt

CONSTANTS
  Conns,     \* connections
  Interface, \* the config's interfaces, a sequence
  None,      \* no client, no holder
  MaxFaults  \* bound on what goes wrong

ASSUME NamesAssumption == None \notin Conns \cup {"good", "wedged"}
ASSUME InterfaceAssumption == Interface \in Seq(Range(Interface))
ASSUME BoundAssumption == MaxFaults \in Nat

VARIABLES
  conn,      \* what each connection's task is at
  queue,     \* tasks waiting for the mutex, which is fair
  holder,    \* the task that has it
  client,    \* the genetlink client in it: None, "good", or "wedged": never answering
  next,      \* the interface the holder's scrape dumps next
  dumps,     \* interfaces each task's scrape has read
  excused,   \* history: interfaces a fault of this very scrape keeps from being read
  faults

taskVars == <<conn, queue, holder>>
scrapeVars == <<client, next, dumps, excused>>
vars == <<taskVars, scrapeVars, faults>>

Interfaces == {Interface[i] : i \in DOMAIN Interface}
From(i) == {Interface[j] : j \in {k \in DOMAIN Interface : k >= i}}

Init ==
  /\ conn = [c \in Conns |-> "closed"]
  /\ queue = <<>> /\ holder = None
  /\ client = None /\ next = 1
  /\ dumps = [c \in Conns |-> {}] /\ excused = [c \in Conns |-> {}]
  /\ faults = 0

Fault == faults < MaxFaults /\ faults' = faults + 1

(* The kernel, or the socket, stops answering on this client for good. *)
Wedge ==
  /\ client = "good" /\ client' = "wedged" /\ Fault
  /\ UNCHANGED <<taskVars, next, dumps, excused>>

Accept(c) ==
  /\ conn[c] = "closed"
  /\ conn' = [conn EXCEPT ![c] = "open"]
  /\ UNCHANGED <<queue, holder, scrapeVars, faults>>

(* GET /metrics; anything else is answered without a scrape. *)
Request(c) ==
  /\ conn[c] = "open"
  /\ conn' = [conn EXCEPT ![c] = "waiting"] /\ queue' = Append(queue, c)
  /\ UNCHANGED <<holder, scrapeVars, faults>>

(* Mutant: the task that came last is let in first. *)
LockNewest ==
  /\ holder = None /\ queue # <<>>
  /\ holder' = Last(queue) /\ queue' = Front(queue)
  /\ conn' = [conn EXCEPT ![holder'] = "scraping"]
  /\ UNCHANGED <<scrapeVars, faults>>

Lock ==
  /\ holder = None /\ queue # <<>>
  /\ holder' = Head(queue) /\ queue' = Tail(queue)
  /\ conn' = [conn EXCEPT ![holder'] = "scraping"]
  /\ UNCHANGED <<scrapeVars, faults>>

(* collect: one attempt to connect per scrape, before the first dump. *)
Connect ==
  /\ holder # None /\ client = None /\ next = 1
  /\ client' = "good"
  /\ UNCHANGED <<taskVars, next, dumps, excused, faults>>

ConnectFails ==
  /\ holder # None /\ client = None /\ next = 1 /\ Fault
  /\ next' = Len(Interface) + 1
  /\ excused' = [excused EXCEPT ![holder] = Interfaces]
  /\ UNCHANGED <<taskVars, client, dumps>>

Dumping == holder # None /\ next <= Len(Interface)

DumpOk ==
  /\ Dumping /\ client = "good"
  /\ dumps' = [dumps EXCEPT ![holder] = @ \cup {Interface[next]}]
  /\ next' = next + 1
  /\ UNCHANGED <<taskVars, client, excused, faults>>

(* Mutant: whatever goes wrong, the client is dropped. *)
DumpFailsDropping ==
  /\ Dumping /\ client = "good" /\ Fault
  /\ excused' = [excused EXCEPT ![holder] = @ \cup {Interface[next]}]
  /\ next' = next + 1 /\ client' = None
  /\ UNCHANGED <<taskVars, dumps>>

(* The kernel refuses: the interface's own failure, and the client goes on. *)
DumpFails ==
  /\ Dumping /\ client = "good" /\ Fault
  /\ excused' = [excused EXCEPT ![holder] = @ \cup {Interface[next]}]
  /\ next' = next + 1
  /\ UNCHANGED <<taskVars, client, dumps>>

(* Mutant: the client that did not answer stays for the next scrape. *)
DumpTimesOutKeeping ==
  /\ Dumping /\ client = "wedged"
  /\ next' = next + 1
  /\ excused' = [excused EXCEPT ![holder] = @ \cup From(next)]
  /\ UNCHANGED <<taskVars, client, dumps, faults>>

(* DUMP_TIMEOUT; what comes after it in this scrape is not read either. *)
DumpTimesOut ==
  /\ Dumping /\ client = "wedged"
  /\ client' = None /\ next' = next + 1
  /\ excused' = [excused EXCEPT ![holder] = @ \cup From(next)]
  /\ UNCHANGED <<taskVars, dumps, faults>>

DumpSkipped ==
  /\ Dumping /\ client = None /\ next > 1
  /\ next' = next + 1
  /\ UNCHANGED <<taskVars, client, dumps, excused, faults>>

(* The end of collect gives the mutex back. *)
Collected ==
  /\ holder # None /\ next > Len(Interface)
  /\ conn' = [conn EXCEPT ![holder] = "rendering"] /\ holder' = None /\ next' = 1
  /\ UNCHANGED <<queue, client, dumps, excused, faults>>

(* The response: what was read, with the verdict if the loop's last pass is recent. *)
Render(c) ==
  /\ conn[c] = "rendering"
  /\ conn' = [conn EXCEPT ![c] = "open"]
  /\ dumps' = [dumps EXCEPT ![c] = {}] /\ excused' = [excused EXCEPT ![c] = {}]
  /\ UNCHANGED <<queue, holder, client, next, faults>>

(* CONNECTION_TIMEOUT, or the client hangs up: the task is dropped where it is, a  *)
(* dump in flight with it, and the client stays in the mutex.                      *)
Ends(c) ==
  /\ conn[c] # "closed" /\ Fault
  /\ conn' = [conn EXCEPT ![c] = "closed"]
  /\ queue' = SelectSeq(queue, LAMBDA d : d # c)
  /\ IF holder = c THEN holder' = None /\ next' = 1 ELSE UNCHANGED <<holder, next>>
  /\ dumps' = [dumps EXCEPT ![c] = {}] /\ excused' = [excused EXCEPT ![c] = {}]
  /\ UNCHANGED client

Next ==
  \/ Wedge \/ Lock \/ Connect \/ ConnectFails \/ Collected
  \/ DumpOk \/ DumpFails \/ DumpTimesOut \/ DumpSkipped
  \/ \E c \in Conns : Accept(c) \/ Request(c) \/ Render(c) \/ Ends(c)

Spec == Init /\ [][Next]_vars

(* A good client answers in time and the timeout catches the other one, the tasks
   are scheduled, and the monitoring system connects and asks again and again. *)
Fairness ==
  /\ WF_vars(Lock) /\ WF_vars(Connect) /\ WF_vars(Collected)
  /\ WF_vars(DumpOk) /\ WF_vars(DumpTimesOut) /\ WF_vars(DumpSkipped)
  /\ \A c \in Conns : WF_vars(Accept(c)) /\ WF_vars(Request(c)) /\ WF_vars(Render(c))

FairSpec == Spec /\ Fairness

-----------------------------------------------------------------------------
(* Properties *)

(* A response lacks an interface only by a fault of this very scrape, and its own or
   one that took the client away: "a failure on one interface is recorded as that
   interface's own" (metrics.rs:269), and no former scrape's fault is visible. *)
UnreadByFaultOnly ==
  \A c \in Conns :
    conn[c] = "rendering" => Interfaces \ dumps[c] \subseteq excused[c]

(* Every scrape is answered unless its own connection ends: neither a client that
   never answers nor other scrapes that keep coming, or are dropped with the mutex
   in their hands, can hold it up. *)
ScrapeAnswered ==
  \A c \in Conns : conn[c] = "waiting" ~> conn[c] \in {"open", "closed"}

(* Once nothing goes wrong any more, each connection's responses come to hold every
   interface again and again, whatever was left in the mutex: "the next scrape
   reconnects, rather than inheriting a session that may never answer again"
   (metrics.rs:267-269). *)
ReadsRecover ==
  \A c \in Conns : []<>(conn[c] = "rendering" /\ dumps[c] = Interfaces)

=============================================================================
