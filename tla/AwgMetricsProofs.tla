-------------------------- MODULE AwgMetricsProofs --------------------------
(***************************************************************************)
(* A theorem about AwgMetrics, for any connections, interfaces and number of *)
(* faults: what a response lacks was lost to a fault of its own scrape.      *)
(***************************************************************************)
EXTENDS AwgMetrics, TLAPS

State == {"closed", "open", "waiting", "scraping", "rendering"}

Typed ==
  /\ conn \in [Conns -> State]
  /\ client \in {None, "good", "wedged"}
  /\ next \in Nat /\ 1 <= next
  /\ dumps \in [Conns -> SUBSET Interfaces]
  /\ excused \in [Conns -> SUBSET Interfaces]

(* The interfaces that the scrape at work is through with are read or excused, *)
(* and so are all that are left when it has lost its client.                   *)
Passed(c) == \A i \in DOMAIN Interface : i < next => Interface[i] \in dumps[c] \cup excused[c]
Through == holder \in Conns => Passed(holder)
Lost == holder \in Conns /\ client = None /\ next > 1 => From(next) \subseteq excused[holder]
Idle == holder = None => next = 1
Held == holder \in Conns => conn[holder] = "scraping"

ScrapeInv == Typed /\ Through /\ Lost /\ Idle /\ Held /\ UnreadByFaultOnly

LEMMA InterfaceTyped ==
  /\ Len(Interface) \in Nat /\ DOMAIN Interface = 1..Len(Interface)
  /\ \A i \in DOMAIN Interface : Interface[i] \in Interfaces
BY InterfaceAssumption DEF Interfaces

LEMMA FromTyped == \A n \in Nat : From(n) \subseteq Interfaces
BY InterfaceTyped DEF From

LEMMA ScrapeInit == Init => ScrapeInv
BY NamesAssumption
   DEF Init, ScrapeInv, Typed, State, Through, Lost, Idle, Held, UnreadByFaultOnly

LEMMA ScrapeStep == ScrapeInv /\ [Next]_vars => ScrapeInv'
<1> SUFFICES ASSUME ScrapeInv, [Next]_vars
             PROVE  ScrapeInv'
  OBVIOUS
<1> USE NamesAssumption
    DEF ScrapeInv, Typed, State, Through, Lost, Idle, Held, UnreadByFaultOnly
<1>1. CASE Wedge
  BY <1>1 DEF Wedge, taskVars, Passed
<1>2. CASE Lock
  <2>1. UNCHANGED <<client, next, dumps, excused>> /\ next = 1
    BY <1>2 DEF Lock, scrapeVars
  <2>2. conn' \in [Conns -> State] /\ \A c \in Conns : conn'[c] = "rendering" => conn[c] = "rendering"
    BY <1>2 DEF Lock
  <2>3. holder' \in Conns => Passed(holder)'
    BY <2>1, InterfaceTyped DEF Passed
  <2>4. holder' = None => next' = 1
    BY <2>1
  <2>5. Typed' /\ Lost' /\ UnreadByFaultOnly'
    BY <2>1, <2>2
  <2>6. holder' \in Conns => conn'[holder'] = "scraping"
    BY <1>2 DEF Lock
  <2>7. QED
    BY <2>3, <2>4, <2>5, <2>6
<1>3. CASE Connect
  BY <1>3 DEF Connect, taskVars, Passed
<1>4. CASE ConnectFails
  <2>1. next' = Len(Interface) + 1 /\ UNCHANGED <<conn, queue, holder, client, dumps>>
        /\ excused' = [excused EXCEPT ![holder] = Interfaces]
    BY <1>4 DEF ConnectFails, taskVars
  <2>2. From(next') = {}
    BY <2>1, InterfaceTyped DEF From
  <2>3. Typed'
    <3>1. next' \in Nat /\ 1 <= next'
      BY <2>1, InterfaceTyped
    <3>2. excused' \in [Conns -> SUBSET Interfaces]
      BY <2>1
    <3>3. QED
      BY <2>1, <3>1, <3>2
  <2>4. Lost' /\ Idle' /\ Held'
    BY <1>4, <2>1, <2>2 DEF ConnectFails
  <2>5. UnreadByFaultOnly'
    BY <2>1
  <2>6. Through'
    BY <2>1, InterfaceTyped DEF Passed
  <2>7. QED
    BY <2>3, <2>4, <2>5, <2>6
<1>5. CASE DumpOk \/ DumpFails
  <2>1. /\ next' = next + 1 /\ UNCHANGED <<conn, queue, holder, client>>
        /\ holder # None /\ client = "good" /\ next \in DOMAIN Interface
    BY <1>5, InterfaceTyped DEF DumpOk, DumpFails, Dumping, taskVars
  <2>2. /\ Typed'
        /\ \A c \in Conns : dumps[c] \subseteq dumps'[c] /\ excused[c] \subseteq excused'[c]
        /\ holder \in Conns => Interface[next] \in dumps'[holder] \cup excused'[holder]
    BY <1>5, <2>1, InterfaceTyped DEF DumpOk, DumpFails
  <2>3. Through'
    BY <2>1, <2>2, InterfaceTyped DEF Passed
  <2>4. QED
    BY <2>1, <2>2, <2>3
<1>6. CASE DumpTimesOut \/ DumpSkipped
  <2>1. /\ next' = next + 1 /\ UNCHANGED <<conn, queue, holder, dumps>>
        /\ holder # None /\ next \in DOMAIN Interface /\ client' = None
    BY <1>6, InterfaceTyped DEF DumpTimesOut, DumpSkipped, Dumping, taskVars
  <2>2. Interface[next] \in From(next) /\ From(next') \subseteq From(next)
    BY <2>1, InterfaceTyped DEF From
  <2>3. /\ Typed'
        /\ \A c \in Conns : excused[c] \subseteq excused'[c]
        /\ holder \in Conns => From(next) \subseteq excused'[holder]
    BY <1>6, <2>1, FromTyped DEF DumpTimesOut, DumpSkipped
  <2>4. Through'
    BY <2>1, <2>2, <2>3, InterfaceTyped DEF Passed
  <2>5. QED
    BY <2>1, <2>2, <2>3, <2>4
<1>7. CASE Collected
  <2>1. /\ holder # None /\ holder' = None /\ next' = 1
        /\ conn' = [conn EXCEPT ![holder] = "rendering"]
        /\ UNCHANGED <<client, dumps, excused>>
    BY <1>7 DEF Collected
  <2>2. holder \in Conns => Interfaces \ dumps[holder] \subseteq excused[holder]
    BY <1>7, InterfaceTyped DEF Collected, Passed, Interfaces
  <2>3. conn' \in [Conns -> State]
    BY <2>1
  <2>4. holder' \notin Conns
    BY <2>1
  <2>5. UnreadByFaultOnly'
    BY <2>1, <2>2
  <2>6. QED
    BY <2>1, <2>3, <2>4, <2>5
<1>8. ASSUME NEW c \in Conns, Accept(c) \/ Request(c)
      PROVE  ScrapeInv'
  BY <1>8 DEF Accept, Request, scrapeVars, Passed
<1>9. ASSUME NEW c \in Conns, Render(c)
      PROVE  ScrapeInv'
  BY <1>9 DEF Render, Passed
<1>10. ASSUME NEW c \in Conns, Ends(c)
       PROVE  ScrapeInv'
  BY <1>10 DEF Ends, Passed
<1>11. CASE UNCHANGED vars
  BY <1>11 DEF vars, taskVars, scrapeVars, Passed
<1>12. QED
  BY <1>1, <1>2, <1>3, <1>4, <1>5, <1>6, <1>7, <1>8, <1>9, <1>10, <1>11 DEF Next

(* Whoever scrapes, hangs up or waits, and however the client is handed on, a response
   lacks nothing but what a fault of its own scrape kept from being read. *)
THEOREM FaultsAreItsOwn == Spec => []UnreadByFaultOnly
<1>1. ScrapeInv => UnreadByFaultOnly
  BY DEF ScrapeInv
<1>2. QED
  BY <1>1, ScrapeInit, ScrapeStep, PTL DEF Spec
=============================================================================
