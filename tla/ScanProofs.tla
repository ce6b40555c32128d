------------------------------ MODULE ScanProofs ------------------------------
(***************************************************************************)
(* What a scan answers, for any hosts, daemons, rules, failures and        *)
(* changes meanwhile: its types, that every candidate was probed, that a   *)
(* candidate is hidden for a service only when the service is shown, and   *)
(* that a candidate is linked to the rules that use it, with an origin     *)
(* written with its own host's name first.                                 *)
(***************************************************************************)
EXTENDS Scan, TLAPS, WellFoundedInduction

Listed == {"probing", "linking", "reading", "answered"}

AllRows == UNION {host[h].rows : h \in HostId}

(* A set of rows has one for a published port of a host's container.       *)
HasRow(rs, h, b) ==
  \E r \in rs : /\ r.kind = "container" /\ r.host = h
               /\ r.of = b.ctr /\ r.at.port = b.port

(* What a host's goroutine holds: nothing before the containers are        *)
(* listed; in the end a container row for each published port it listed.   *)
Holds(h, e, t) ==
  /\ t.pc \in {"none", "containers"} => t.bindings = {}
  /\ \A r \in t.rows : r.kind = "service" => r.of \in Svc
  /\ t.pc = "done" =>
       \A b \in t.bindings :
         e.addr # "" /\ b.port # 0 => HasRow(t.rows, h, b)

HostHolds(h) ==
  /\ host[h].pc # "none" => h \in DOMAIN hosts
  /\ Holds(h, hosts[h], host[h])

HostsInv ==
  /\ \A h \in HostId : HostHolds(h)
  /\ phase = "idle" => \A h \in HostId : host[h].pc = "none"

(* The candidates are fixed when the last host is done.                    *)
RowsInv ==
  phase \in Listed =>
    /\ \A h \in HostId : host[h].pc \in {"none", "done"}
    /\ rows = AllRows \ Hides(AllRows)

(* The addresses dialed are those of the candidates; the handler goes on   *)
(* only when all of them have been.                                        *)
DialInv ==
  /\ phase \in Listed => DOMAIN dial = Addresses(rows)
  /\ phase \in Listed \ {"probing"} =>
       \A a \in DOMAIN dial : dial[a] \in {"up", "down"}

ScanInv == TypeOK /\ HostsInv /\ RowsInv /\ DialInv

-----------------------------------------------------------------------------
(* The rows of Candidates.                                                 *)

LEMMA AddressTyped ==
  ASSUME NEW ip \in HostText, NEW port \in Port
  PROVE  AddressOf(ip, port) \in Address
<1>1. Bracketed \in [HostText -> HostText]
  BY CandidateAssumption
<1>2. Bracketed[ip] \in HostText
  BY <1>1
<1> QED
  BY <1>2 DEF AddressOf, Address

LEMMA ContainerRowsTyped ==
  ASSUME NEW h \in HostId, NEW e \in Entry, NEW bs \in SUBSET Binding
  PROVE  ContainerRows(h, e, bs) \subseteq Row
<1> SUFFICES ASSUME NEW b \in bs, e.addr # "", b.port # 0
             PROVE  [host |-> h, kind |-> "container", of |-> b.ctr,
                     at |-> AddressOf(IF e.addr \in Wildcard THEN b.ip
                                                            ELSE e.addr,
                                      b.port)] \in Row
  BY DEF ContainerRows
<1>1. b.ctr \in Ctr /\ b.ip \in HostText /\ b.port \in Port
  BY DEF Binding
<1>2. (IF e.addr \in Wildcard THEN b.ip ELSE e.addr) \in HostText
  BY <1>1 DEF Entry
<1>3. AddressOf(IF e.addr \in Wildcard THEN b.ip ELSE e.addr, b.port) \in Address
  BY <1>1, <1>2, AddressTyped
<1> QED
  BY <1>1, <1>3 DEF Row

LEMMA ServiceRowsTyped ==
  ASSUME NEW h \in HostId, NEW e \in Entry, NEW ts \in SUBSET Svc,
         NEW ps \in SUBSET Publish
  PROVE  /\ ServiceRows(h, e, ts, ps) \subseteq Row
         /\ \A r \in ServiceRows(h, e, ts, ps) : r.of \in Svc
<1> SUFFICES ASSUME NEW r \in ServiceRows(h, e, ts, ps)
             PROVE  r \in Row /\ r.of \in Svc
  OBVIOUS
<1>0. PICK p \in ps :
        /\ e.addr # "" /\ p.port # 0
        /\ r = [host |-> h, kind |-> "service", of |-> p.svc,
                at |-> AddressOf(e.addr, p.port)]
  BY DEF ServiceRows
<1>1. p.svc \in Svc /\ p.port \in Port
  BY <1>0 DEF Publish
<1>2. AddressOf(e.addr, p.port) \in Address
  BY <1>0, <1>1, AddressTyped DEF Entry
<1> QED
  BY <1>0, <1>1, <1>2 DEF Row

(* scanHost: each published port of a container gives a row.               *)
LEMMA PublishedGivesRow ==
  ASSUME NEW h \in HostId, NEW e \in Entry, NEW bs \in SUBSET Binding
  PROVE  \A b \in bs :
           e.addr # "" /\ b.port # 0 => HasRow(ContainerRows(h, e, bs), h, b)
<1> SUFFICES ASSUME NEW b \in bs, e.addr # "", b.port # 0
             PROVE  HasRow(ContainerRows(h, e, bs), h, b)
  OBVIOUS
<1> DEFINE r == [host |-> h, kind |-> "container", of |-> b.ctr,
                 at |-> AddressOf(IF e.addr \in Wildcard THEN b.ip ELSE e.addr,
                                  b.port)]
<1>1. r \in ContainerRows(h, e, bs)
  BY DEF ContainerRows
<1>2. /\ r.kind = "container" /\ r.host = h
      /\ r.of = b.ctr /\ r.at.port = b.port
  BY DEF AddressOf
<1> HIDE DEF r
<1> QED
  BY <1>1, <1>2 DEF HasRow

LEMMA ConfigTyped ==
  ASSUME NEW c \in Configs
  PROVE  DOMAIN c \subseteq HostId /\ \A h \in DOMAIN c : c[h] \in Entry
  BY ScanAssumption DEF MapsOver

LEMMA DaemonTyped ==
  ASSUME NEW ds \in Daemons, NEW h \in HostId
  PROVE  /\ ds[h].bindings \in SUBSET Binding /\ ds[h].tasks \in SUBSET Svc
         /\ ds[h].services \in SUBSET Publish
  BY ScanAssumption DEF Daemon

-----------------------------------------------------------------------------
(* The invariant.                                                          *)

LEMMA InitInv == Init => ScanInv
<1> SUFFICES ASSUME Init PROVE ScanInv
  OBVIOUS
<1>1. NoTask \in HostTask
  BY DEF NoTask, HostTask
<1>2. TypeOK
  BY <1>1, ScanAssumption DEF Init, TypeOK
<1>3. HostsInv
  BY DEF Init, HostsInv, HostHolds, Holds, NoTask
<1>4. RowsInv /\ DialInv
  BY DEF Init, RowsInv, DialInv, Listed
<1> QED
  BY <1>2, <1>3, <1>4 DEF ScanInv

LEMMA BeginKeeps == ScanInv /\ Begin => ScanInv'
<1> SUFFICES ASSUME ScanInv, Begin PROVE ScanInv'
  OBVIOUS
<1> DEFINE T == [NoTask EXCEPT !.pc = "containers"]
<1>1. /\ NoTask \in HostTask /\ T \in HostTask
      /\ T.pc = "containers" /\ T.bindings = {} /\ T.rows = {}
      /\ NoTask.pc = "none" /\ NoTask.bindings = {} /\ NoTask.rows = {}
  BY DEF NoTask, HostTask
<1>2. \A h \in HostId : host'[h] = IF h \in DOMAIN config THEN T ELSE NoTask
  BY DEF Begin
<1>3. host' \in [HostId -> HostTask]
  BY <1>1 DEF Begin
<1>4. TypeOK'
  BY <1>3 DEF ScanInv, TypeOK, Begin, world
<1>5. HostsInv'
  <2> SUFFICES ASSUME NEW h \in HostId PROVE HostHolds(h)'
    BY DEF HostsInv, Begin
  <2>1. Holds(h, hosts'[h], T) /\ Holds(h, hosts'[h], NoTask)
    BY <1>1 DEF Holds
  <2>2. hosts' = config
    BY DEF Begin
  <2> HIDE DEF T
  <2>3. CASE h \in DOMAIN config
    BY <1>2, <2>1, <2>2, <2>3 DEF HostHolds
  <2>4. CASE h \notin DOMAIN config
    BY <1>1, <1>2, <2>1, <2>4 DEF HostHolds
  <2> QED
    BY <2>3, <2>4
<1>6. RowsInv' /\ DialInv'
  BY DEF RowsInv, DialInv, Begin, Listed
<1> QED
  BY <1>4, <1>5, <1>6 DEF ScanInv

(* A goroutine of a host goes on, before the candidates are fixed.         *)
LEMMA TurnsKeeps ==
  ASSUME ScanInv, NEW h \in HostId, NEW task \in HostTask,
         host[h].pc \in {"containers", "services"}, Turns(h, task),
         Holds(h, hosts[h], task)
  PROVE  ScanInv'
<1>1. /\ phase \notin Listed /\ phase # "idle" /\ h \in DOMAIN hosts
  BY DEF ScanInv, HostsInv, HostHolds, RowsInv
<1>2. /\ host'[h] = task /\ \A g \in HostId \ {h} : host'[g] = host[g]
      /\ hosts' = hosts /\ phase' = phase
  BY DEF Turns, ScanInv, TypeOK
<1>3. TypeOK'
  BY DEF ScanInv, TypeOK, Turns, world
<1>4. HostsInv'
  <2> SUFFICES ASSUME NEW g \in HostId PROVE HostHolds(g)'
    BY <1>1, <1>2 DEF HostsInv
  <2>1. CASE g = h
    BY <1>1, <1>2, <2>1 DEF HostHolds
  <2>2. CASE g # h
    <3>1. HostHolds(g)
      BY DEF ScanInv, HostsInv
    <3> QED
      BY <1>2, <2>2, <3>1 DEF HostHolds
  <2> QED
    BY <2>1, <2>2
<1>5. RowsInv' /\ DialInv'
  BY <1>1 DEF RowsInv, DialInv, Turns, Listed
<1> QED
  BY <1>3, <1>4, <1>5 DEF ScanInv

LEMMA DerivesKeeps ==
  ASSUME ScanInv, NEW h \in HostId, NEW ps \in SUBSET Publish,
         host[h].pc = "services", Derives(h, ps)
  PROVE  ScanInv'
<1> DEFINE rs == ContainerRows(h, hosts[h], host[h].bindings)
                   \cup ServiceRows(h, hosts[h], host[h].tasks, ps)
           task == [host[h] EXCEPT !.pc = "done", !.rows = rs]
<1>1. host[h] \in HostTask /\ hosts[h] \in Entry
  BY ConfigTyped DEF ScanInv, TypeOK, HostsInv, HostHolds
<1>2. rs \subseteq Row
  BY <1>1, ContainerRowsTyped, ServiceRowsTyped DEF HostTask
<1>3. task \in HostTask
  BY <1>1, <1>2 DEF HostTask
<1>4. /\ task.pc = "done" /\ task.rows = rs
      /\ task.bindings = host[h].bindings
  BY <1>1 DEF HostTask
<1>5. \A r \in rs : r.kind = "service" => r.of \in Svc
  <2>1. \A r \in ContainerRows(h, hosts[h], host[h].bindings) :
          r.kind = "container"
    <3> SUFFICES ASSUME NEW r \in ContainerRows(h, hosts[h], host[h].bindings)
                 PROVE  r.kind = "container"
      OBVIOUS
    <3>1. \E k, c, a : r = [host |-> k, kind |-> "container", of |-> c, at |-> a]
      BY DEF ContainerRows
    <3> QED
      BY <3>1
  <2>2. \A r \in ServiceRows(h, hosts[h], host[h].tasks, ps) : r.of \in Svc
    BY <1>1, ServiceRowsTyped DEF HostTask
  <2> QED
    BY <2>1, <2>2
<1>6. \A b \in host[h].bindings :
        hosts[h].addr # "" /\ b.port # 0 =>
          HasRow(rs, h, b)
  <2>1. host[h].bindings \in SUBSET Binding
    BY <1>1 DEF HostTask
  <2>2. \A b \in host[h].bindings :
          hosts[h].addr # "" /\ b.port # 0 =>
            HasRow(ContainerRows(h, hosts[h], host[h].bindings), h, b)
    BY <1>1, <2>1, PublishedGivesRow
  <2> QED
    BY <2>2 DEF HasRow
<1>7. Turns(h, task)
  BY DEF Derives
<1> HIDE DEF rs, task
<1>8. Holds(h, hosts[h], task)
  BY <1>4, <1>5, <1>6 DEF Holds
<1> QED
  BY <1>3, <1>7, <1>8, TurnsKeeps

LEMMA HostStepKeeps ==
  ASSUME ScanInv, NEW h \in HostId, HostStep(h)
  PROVE  ScanInv'
<1>0. host[h] \in HostTask /\ daemons \in Daemons
  BY DEF ScanInv, TypeOK
<1>1. CASE ListContainers(h)
  <2> DEFINE task == [host[h] EXCEPT !.pc = "services", !.online = TRUE,
                                     !.bindings = daemons[h].bindings,
                                     !.tasks = daemons[h].tasks]
  <2>1. task \in HostTask /\ task.pc = "services" /\ task.rows = host[h].rows
    BY <1>0, DaemonTyped DEF HostTask
  <2>2. Holds(h, hosts[h], host[h])
    BY DEF ScanInv, HostsInv, HostHolds
  <2>3. Turns(h, task) /\ host[h].pc = "containers"
    BY <1>1 DEF ListContainers
  <2> HIDE DEF task
  <2>4. Holds(h, hosts[h], task)
    BY <2>1, <2>2 DEF Holds
  <2> QED
    BY <2>1, <2>3, <2>4, TurnsKeeps
<1>2. CASE ListContainersFails(h)
  <2> DEFINE task == [host[h] EXCEPT !.pc = "done"]
  <2>1. /\ task \in HostTask /\ task.pc = "done" /\ task.rows = host[h].rows
        /\ task.bindings = host[h].bindings
    BY <1>0 DEF HostTask
  <2>2. Turns(h, task) /\ host[h].pc = "containers"
    BY <1>2 DEF ListContainersFails
  <2>3. Holds(h, hosts[h], host[h])
    BY DEF ScanInv, HostsInv, HostHolds
  <2> HIDE DEF task
  <2>4. Holds(h, hosts[h], task)
    BY <2>1, <2>2, <2>3 DEF Holds
  <2> QED
    BY <2>1, <2>2, <2>4, TurnsKeeps
<1>3. CASE ListServices(h)
  BY <1>0, <1>3, DaemonTyped, DerivesKeeps DEF ListServices
<1>4. CASE ListServicesFails(h)
  BY <1>4, DerivesKeeps DEF ListServicesFails
<1> QED
  BY <1>1, <1>2, <1>3, <1>4 DEF HostStep

LEMMA HideKeeps == ScanInv /\ HideAndProbe => ScanInv'
<1> SUFFICES ASSUME ScanInv, HideAndProbe PROVE ScanInv'
  OBVIOUS
<1>1. /\ phase' = "probing" /\ rows' = AllRows \ Hides(AllRows)
      /\ dial' = [a \in Addresses(rows') |-> "queued"]
      /\ UNCHANGED <<world, hosts, again, host, reader, found, links>>
      /\ \A h \in HostId : host[h].pc \in {"none", "done"}
  BY DEF HideAndProbe, AllRows
<1>2. rows' \subseteq Row
  BY <1>1 DEF AllRows, ScanInv, TypeOK, HostTask
<1>3. Addresses(rows') \subseteq Address
  BY <1>2 DEF Addresses, Row
<1>4. TypeOK'
  BY <1>1, <1>2, <1>3 DEF ScanInv, TypeOK, world
<1>5. HostsInv'
  BY <1>1 DEF ScanInv, HostsInv, HostHolds
<1>6. RowsInv' /\ DialInv'
  BY <1>1 DEF RowsInv, DialInv, Listed, AllRows
<1> QED
  BY <1>4, <1>5, <1>6 DEF ScanInv

LEMMA DialKeeps ==
  ASSUME ScanInv, NEW a \in DOMAIN dial, DialStep(a)
  PROVE  ScanInv'
<1>1. PICK st \in {"dialing", "up", "down"} :
        /\ Dials(a, st)
        /\ dial[a] = "queued" \/ (dial[a] = "dialing" /\ st # "dialing")
  BY DEF DialStep
<1>2. /\ DOMAIN dial' = DOMAIN dial
      /\ \A b \in DOMAIN dial : dial'[b] = IF b = a THEN st ELSE dial[b]
  BY <1>1 DEF Dials
<1>3. TypeOK'
  BY <1>1, <1>2 DEF Dials, ScanInv, TypeOK, world
<1>4. HostsInv' /\ RowsInv'
  BY <1>1 DEF Dials, ScanInv, HostsInv, HostHolds, RowsInv, AllRows
<1>5. phase \notin Listed \ {"probing"}
  BY <1>1 DEF ScanInv, DialInv
<1>6. DialInv'
  BY <1>1, <1>2, <1>5 DEF Dials, ScanInv, DialInv, Listed
<1> QED
  BY <1>3, <1>4, <1>6 DEF ScanInv

(* Steps that leave hosts, candidates and dials alone.                     *)
LEMMA RestKeeps ==
  ASSUME ScanInv, TypeOK', UNCHANGED <<hosts, host, dial, rows>>,
         \/ phase' = phase
         \/ phase \in Listed /\ phase' \in Listed /\
              \A a \in DOMAIN dial : dial[a] \in {"up", "down"}
  PROVE  ScanInv'
<1>1. HostsInv'
  BY DEF ScanInv, HostsInv, HostHolds, Listed
<1>2. RowsInv'
  BY DEF ScanInv, RowsInv, AllRows
<1>3. DialInv'
  BY DEF ScanInv, DialInv
<1> QED
  BY <1>1, <1>2, <1>3 DEF ScanInv

LEMMA ReadKeeps ==
  ASSUME ScanInv, NEW d \in Domain, ReadStep(d)
  PROVE  ScanInv'
<1>1. CASE Acquire(d)
  <2>1. TypeOK'
    BY <1>1 DEF Acquire, ScanInv, TypeOK, world
  <2> QED
    BY <1>1, <2>1, RestKeeps DEF Acquire
<1>2. CASE ReadRule(d) \/ ReadRuleFails(d)
  <2>1. PICK origins \in Seq(Address) : Reads(d, origins)
    <3>1. <<>> \in Seq(Address)
      OBVIOUS
    <3>2. d \in DOMAIN rules => rules[d] \in Seq(Address)
      BY ScanAssumption DEF ScanInv, TypeOK
    <3> QED
      BY <1>2, <3>1, <3>2 DEF ReadRule, ReadRuleFails
  <2>2. TypeOK'
    BY <2>1 DEF Reads, ScanInv, TypeOK, world
  <2> QED
    BY <2>1, <2>2, RestKeeps DEF Reads
<1> QED
  BY <1>1, <1>2 DEF ReadStep

LEMMA HandlerKeeps == ScanInv /\ HandlerStep => ScanInv'
<1> SUFFICES ASSUME ScanInv, HandlerStep PROVE ScanInv'
  OBVIOUS
<1>1. CASE HideAndProbe
  BY <1>1, HideKeeps
<1>2. CASE ListEndpoints
  <2>1. TypeOK'
    BY <1>2 DEF ListEndpoints, ScanInv, TypeOK, world
  <2> QED
    BY <1>2, <2>1, RestKeeps DEF ListEndpoints, Probed, Listed
<1>3. CASE ListEndpointsFails
  <2>1. TypeOK'
    BY <1>3 DEF ListEndpointsFails, ScanInv, TypeOK, world
  <2> QED
    BY <1>3, <2>1, RestKeeps DEF ListEndpointsFails, Probed, Listed
<1>4. CASE LinkRows
  <2>1. links' \subseteq Row \X Domain \X Address
    BY <1>4 DEF LinkRows, ScanInv, TypeOK
  <2>2. TypeOK'
    BY <1>4, <2>1 DEF LinkRows, ScanInv, TypeOK, world
  <2>3. \A a \in DOMAIN dial : dial[a] \in {"up", "down"}
    BY <1>4 DEF LinkRows, ScanInv, DialInv, Listed
  <2> QED
    BY <1>4, <2>2, <2>3, RestKeeps DEF LinkRows, Listed
<1> QED
  BY <1>1, <1>2, <1>3, <1>4 DEF HandlerStep

LEMMA WorldKeeps ==
  ASSUME ScanInv, EditsHosts \/ DaemonChanges \/ RulesChange \/ UNCHANGED vars
  PROVE  ScanInv'
<1>1. UNCHANGED scanVars
  BY DEF EditsHosts, DaemonChanges, RulesChange, Changes, vars
<1>2. TypeOK'
  BY <1>1, ScanAssumption
     DEF EditsHosts, DaemonChanges, RulesChange, Changes, vars, scanVars,
         world, ScanInv, TypeOK
<1> QED
  BY <1>1, <1>2, RestKeeps DEF scanVars

LEMMA NextInv == ScanInv /\ [Next]_vars => ScanInv'
<1> SUFFICES ASSUME ScanInv, [Next]_vars PROVE ScanInv'
  OBVIOUS
<1>1. CASE Begin
  BY <1>1, BeginKeeps
<1>2. CASE ScanStep
  BY <1>2, HostStepKeeps, DialKeeps, ReadKeeps, HandlerKeeps DEF ScanStep
<1>3. CASE EditsHosts \/ DaemonChanges \/ RulesChange \/ Finished \/ UNCHANGED vars
  BY <1>3, WorldKeeps DEF Finished
<1> QED
  BY <1>1, <1>2, <1>3 DEF Next

(* The invariant holds in every state.                                     *)
THEOREM Invariance == Spec => []ScanInv
<1> QED
  BY InitInv, NextInv, PTL DEF Spec

-----------------------------------------------------------------------------
(* What it gives.                                                          *)

(* The scan, its goroutines and its answer keep their types, whatever      *)
(* fails and changes.                                                      *)
THEOREM TypesKept == Spec => []TypeOK
<1>1. ScanInv => TypeOK
  BY DEF ScanInv
<1> QED
  BY <1>1, Invariance, PTL

(* handleScan: no candidate is flagged as unreachable without having been  *)
(* tried, however many addresses queue at probeTCP's semaphore.            *)
THEOREM RowsProbed == Spec => []EveryRowProbed
<1>1. ScanInv => EveryRowProbed
  BY DEF ScanInv, DialInv, Listed, EveryRowProbed, Addresses
<1> QED
  BY <1>1, Invariance, PTL

(* A row that hides another is a service's, and is not hidden itself.      *)
LEMMA HiderIsShown ==
  ASSUME ScanInv, phase = "answered", NEW h \in HostId,
         NEW b \in host[h].bindings, h \in DOMAIN hosts,
         hosts[h].addr # "", b.port # 0
  PROVE  (b.port \notin ServedPorts) <=>
           \E r \in rows : r.host = h /\ r.of = b.ctr /\ r.at.port = b.port
<1>1. /\ rows = AllRows \ Hides(AllRows)
      /\ host[h].pc \in {"none", "done"}
  BY DEF ScanInv, RowsInv, Listed
<1>2. Holds(h, hosts[h], host[h]) /\ host[h].pc = "done"
  <2>1. Holds(h, hosts[h], host[h])
    BY DEF ScanInv, HostsInv, HostHolds
  <2> QED
    BY <1>1, <2>1 DEF Holds
<1>3. b.ctr \in Ctr
  <2>1. host[h] \in HostTask
    BY DEF ScanInv, TypeOK
  <2>2. b \in Binding
    BY <2>1 DEF HostTask
  <2> QED
    BY <2>2 DEF Binding
<1>4. ASSUME b.port \notin ServedPorts
      PROVE  \E r \in rows : r.host = h /\ r.of = b.ctr /\ r.at.port = b.port
  <2>1. PICK r \in host[h].rows : /\ r.kind = "container" /\ r.host = h
                                  /\ r.of = b.ctr /\ r.at.port = b.port
    BY <1>2 DEF Holds, HasRow
  <2>2. r \in AllRows
    BY DEF AllRows
  <2>3. ASSUME NEW s \in AllRows, s.kind = "service", s.at.port = b.port
        PROVE  FALSE
    <3>1. s \in rows
      BY <1>1, <2>3 DEF Hides
    <3> QED
      BY <1>4, <2>3, <3>1 DEF ServedPorts
  <2>4. r \notin Hides(AllRows)
    BY <2>1, <2>3 DEF Hides
  <2> QED
    BY <1>1, <2>1, <2>2, <2>4
<1>5. ASSUME NEW r \in rows, r.host = h, r.of = b.ctr, r.at.port = b.port,
             b.port \in ServedPorts
      PROVE  FALSE
  <2>1. r \in AllRows /\ r \notin Hides(AllRows)
    BY <1>1
  <2>2. PICK g \in HostId : r \in host[g].rows
    BY <2>1 DEF AllRows
  <2>3. r.kind = "service" => r.of \in Svc
    BY <2>2 DEF ScanInv, HostsInv, HostHolds, Holds
  <2>4. r.kind = "container"
    <3>1. r.kind \in {"container", "service"}
      BY <2>2 DEF ScanInv, TypeOK, HostTask, Row
    <3>2. Ctr \cap Svc = {}
      BY CandidateAssumption
    <3> QED
      BY <1>3, <1>5, <2>3, <3>1, <3>2
  <2>5. PICK s \in rows : s.kind = "service" /\ s.at.port = b.port
    BY <1>5 DEF ServedPorts
  <2>6. s \in AllRows
    BY <1>1
  <2> QED
    BY <1>5, <2>1, <2>4, <2>5, <2>6 DEF Hides
<1> QED
  BY <1>4, <1>5

(* handleScan drops a container's candidate exactly when the same answer   *)
(* has a service's candidate for the port, whatever listing failed and     *)
(* whatever hosts, daemons and rules did meanwhile.                        *)
THEOREM HiddenForShownOnly == Spec => []HiddenOnlyForShownService
<1>1. ScanInv => HiddenOnlyForShownService
  <2> SUFFICES ASSUME ScanInv, phase = "answered", NEW h \in DOMAIN hosts,
                      NEW b \in host[h].bindings, hosts[h].addr # "",
                      b.port # 0
               PROVE  (b.port \notin ServedPorts) <=>
                        \E r \in rows : /\ r.host = h /\ r.of = b.ctr
                                        /\ r.at.port = b.port
    BY DEF HiddenOnlyForShownService
  <2>1. h \in HostId
    BY ConfigTyped DEF ScanInv, TypeOK
  <2> QED
    BY <2>1, HiderIsShown
<1> QED
  BY <1>1, Invariance, PTL

-----------------------------------------------------------------------------
(* The links to the proxy rules.                                           *)

(* The links the handler makes with a list of hosts.                       *)
LinksFor(config2) ==
  {l \in rows \X Domain \X Address :
     l[3] \in Link(l[1], hosts[l[1].host].name, found[l[2]],
                   Allowed(config2))}

(* Nothing is read before the rules are listed, and nothing is read once   *)
(* the links are made: they are those of the rules as they were read, at   *)
(* hosts of the second list.                                               *)
LinksInv ==
  /\ phase # "reading" => \A d \in Domain : reader[d] \in {"none", "done"}
  /\ phase \notin {"reading", "answered"} =>
       links = {} /\ \A d \in Domain : found[d] = <<>>
  /\ phase = "answered" => links = LinksFor(again)

-----------------------------------------------------------------------------
(* The links of a row to one rule.                                         *)

(* A set of places has a first one, and the others come after it.          *)
LEMMA LeastPlace ==
  ASSUME NEW S \in SUBSET Nat, S # {}
  PROVE  \E i \in S : \A k \in S : i <= k
<1> DEFINE Less == {ss \in Nat \X Nat : ss[1] < ss[2]}
<1>1. IsWellFoundedOn(Less, Nat)
  BY NatLessThanWellFounded DEF OpToRel
<1> HIDE DEF Less
<1>2. PICK i \in S : \A k \in S : <<k, i>> \notin Less
  BY <1>1, WFMin
<1>3. \A k \in S : i <= k
  <2> SUFFICES ASSUME NEW k \in S, k < i PROVE FALSE
    OBVIOUS
  <2>1. <<k, i>> \in Less
    BY DEF Less
  <2> QED BY <1>2, <2>1
<1> QED
  BY <1>3

LEMMA FirstOfPlaces ==
  ASSUME NEW origins \in Seq(Address), NEW S \in SUBSET DOMAIN origins
  PROVE  /\ S = {} => FirstOf(origins, S) = {}
         /\ S # {} => \E i \in S : FirstOf(origins, S) = {origins[i]}
<1>1. S \in SUBSET Nat
  OBVIOUS
<1>2. CASE S = {}
  BY <1>2 DEF FirstOf
<1>3. CASE S # {}
  <2>1. PICK i \in S : \A k \in S : i <= k
    BY <1>1, <1>3, LeastPlace
  <2>2. {j \in S : \A k \in S : j <= k} = {i}
    BY <1>1, <2>1
  <2>3. FirstOf(origins, S) = {origins[i]}
    BY <2>2 DEF FirstOf
  <2> QED
    BY <1>3, <2>3
<1> QED
  BY <1>2, <1>3

LEMMA OriginsTyped ==
  ASSUME NEW origins \in Seq(Address)
  PROVE  {origins[i] : i \in DOMAIN origins} \subseteq Address
OBVIOUS

(* filterLinked links a row to a rule iff the rule uses it, by one of its  *)
(* origins that use the row.                                               *)
LEMMA LinkIffUsed ==
  ASSUME NEW row, NEW own, NEW origins \in Seq(Address), NEW allowed
  PROVE  /\ Link(row, own, origins, allowed) # {} <=>
              Uses(row, origins, allowed) # {}
         /\ Link(row, own, origins, allowed) \subseteq Address
<1> DEFINE used == Uses(row, origins, allowed)
           mine == {i \in used : origins[i].host = own}
           chosen == IF mine # {} THEN mine ELSE used
<1>1. used \in SUBSET DOMAIN origins /\ chosen \in SUBSET DOMAIN origins
  BY DEF Uses
<1>2. chosen = {} <=> used = {}
  OBVIOUS
<1>3. Link(row, own, origins, allowed) = FirstOf(origins, chosen)
  BY DEF Link
<1> HIDE DEF chosen, used
<1>4. CASE chosen = {}
  BY <1>1, <1>2, <1>3, <1>4, FirstOfPlaces DEF used
<1>5. CASE chosen # {}
  <2>1. PICK i \in chosen : FirstOf(origins, chosen) = {origins[i]}
    BY <1>1, <1>5, FirstOfPlaces
  <2>2. origins[i] \in Address
    BY <1>1
  <2> QED
    BY <1>2, <1>3, <1>5, <2>1, <2>2 DEF used
<1> QED
  BY <1>4, <1>5

(* An origin written with the name of the row's host is the one shown.     *)
LEMMA LinkPrefersOwn ==
  ASSUME NEW row, NEW name, NEW origins \in Seq(Address), NEW allowed,
         NEW own \in Address, own.host = name, own.port = row.at.port,
         own.host \in allowed, NEW k \in DOMAIN origins, origins[k] = own
  PROVE  Link(row, name, origins, allowed) = {own}
<1> DEFINE mine == {i \in Uses(row, origins, allowed) :
                      origins[i].host = own.host}
<1>1. mine \in SUBSET DOMAIN origins /\ mine # {}
  BY DEF Uses
<1>2. \A i \in mine : origins[i] = own
  <2> SUFFICES ASSUME NEW i \in mine PROVE origins[i] = own
    OBVIOUS
  <2>1. /\ origins[i] \in Address /\ origins[i].host = own.host
        /\ origins[i].port = own.port
    BY DEF Uses
  <2> QED
    BY <2>1 DEF Address
<1>3. Link(row, name, origins, allowed) = FirstOf(origins, mine)
  BY <1>1 DEF Link
<1> HIDE DEF mine
<1> QED
  BY <1>1, <1>2, <1>3, FirstOfPlaces

-----------------------------------------------------------------------------
(* The invariant.                                                          *)

LEMMA LinksInit == Init => LinksInv
BY DEF Init, LinksInv

(* Steps before the rules are listed, and steps of the world.              *)
LEMMA QuietKeepsLinks ==
  ASSUME LinksInv, UNCHANGED <<reader, found, links>>,
         \/ /\ phase' = phase
            /\ phase = "answered" => UNCHANGED <<rows, hosts, again>>
         \/ {phase, phase'} \cap {"reading", "answered"} = {}
  PROVE  LinksInv'
<1>1. CASE {phase, phase'} \cap {"reading", "answered"} = {}
  BY <1>1 DEF LinksInv
<1>2. CASE /\ phase' = phase
           /\ phase = "answered" => UNCHANGED <<rows, hosts, again>>
  BY <1>2 DEF LinksInv, LinksFor
<1> QED
  BY <1>1, <1>2

(* The rules cannot be listed: none is read, so none is linked.            *)
LEMMA NoRulesNoLinks ==
  ASSUME ScanInv, LinksInv, ListEndpointsFails
  PROVE  LinksInv'
<1>1. /\ phase = "probing" /\ phase' = "answered"
      /\ UNCHANGED <<hosts, again, reader, found, rows, links>>
  BY DEF ListEndpointsFails, Probed
<1>2. links = {} /\ \A d \in Domain : found[d] = <<>>
  BY <1>1 DEF LinksInv
<1>3. \A l \in rows \X Domain \X Address :
        Link(l[1], hosts[l[1].host].name, found[l[2]], Allowed(again)) = {}
  <2> SUFFICES ASSUME NEW l \in rows \X Domain \X Address
               PROVE  Link(l[1], hosts[l[1].host].name, found[l[2]],
                           Allowed(again)) = {}
    OBVIOUS
  <2>1. found[l[2]] = <<>> /\ found[l[2]] \in Seq(Address)
    <3>1. l[2] \in Domain
      OBVIOUS
    <3> QED
      BY <1>2, <3>1 DEF ScanInv, TypeOK
  <2>2. Uses(l[1], found[l[2]], Allowed(again)) = {}
    BY <2>1 DEF Uses
  <2> QED
    BY <2>1, <2>2, LinkIffUsed
<1>4. LinksFor(again) = {}
  BY <1>3 DEF LinksFor
<1>5. LinksFor(again)' = LinksFor(again)
  BY <1>1 DEF LinksFor
<1> QED
  BY <1>1, <1>2, <1>4, <1>5 DEF LinksInv

LEMMA LinksNext == ScanInv /\ LinksInv /\ [Next]_vars => LinksInv'
<1> SUFFICES ASSUME ScanInv, LinksInv, [Next]_vars PROVE LinksInv'
  OBVIOUS
<1>1. CASE Begin
  BY <1>1, QuietKeepsLinks DEF Begin
<1>2. ASSUME NEW h \in HostId, HostStep(h) PROVE LinksInv'
  BY <1>2, QuietKeepsLinks
     DEF HostStep, ListContainers, ListContainersFails, ListServices,
         ListServicesFails, Derives, Turns
<1>3. ASSUME NEW a \in DOMAIN dial, DialStep(a) PROVE LinksInv'
  BY <1>3, QuietKeepsLinks DEF DialStep, Dials
<1>4. ASSUME NEW d \in Domain, ReadStep(d) PROVE LinksInv'
  <2>1. /\ reader[d] \in {"queued", "reading"} /\ phase' = phase
        /\ UNCHANGED links
    BY <1>4 DEF ReadStep, Acquire, ReadRule, ReadRuleFails, Reads
  <2>2. phase = "reading"
    BY <2>1 DEF LinksInv
  <2> QED
    BY <2>1, <2>2 DEF LinksInv
<1>5. CASE HandlerStep
  <2>1. CASE HideAndProbe
    BY <2>1, QuietKeepsLinks DEF HideAndProbe
  <2>2. CASE ListEndpoints
    BY <2>2 DEF ListEndpoints, Probed, LinksInv
  <2>3. CASE ListEndpointsFails
    BY <2>3, NoRulesNoLinks
  <2>4. CASE LinkRows
    BY <2>4 DEF LinkRows, LinksInv, LinksFor
  <2> QED
    BY <1>5, <2>1, <2>2, <2>3, <2>4 DEF HandlerStep
<1>6. CASE EditsHosts \/ DaemonChanges \/ RulesChange \/ Finished \/ UNCHANGED vars
  <2>1. UNCHANGED scanVars
    BY <1>6 DEF EditsHosts, DaemonChanges, RulesChange, Changes, Finished, vars
  <2> QED
    BY <2>1, QuietKeepsLinks DEF scanVars
<1> QED
  BY <1>1, <1>2, <1>3, <1>4, <1>5, <1>6 DEF Next, ScanStep

(* The links are those of the rules as read and of the second list.        *)
THEOREM LinksInvariance == Spec => []LinksInv
<1> QED
  BY LinksInit, LinksNext, Invariance, PTL DEF Spec

-----------------------------------------------------------------------------
(* What it gives.                                                          *)

LEMMA LinkedIs ==
  ASSUME ScanInv, LinksInv, phase = "answered", NEW r \in rows, NEW d \in Domain
  PROVE  Linked(r, d) = Link(r, hosts[r.host].name, found[d], Allowed(again))
<1>1. found[d] \in Seq(Address)
  BY DEF ScanInv, TypeOK
<1>2. Link(r, hosts[r.host].name, found[d], Allowed(again)) \subseteq Address
  BY <1>1, LinkIffUsed
<1>3. \A o \in Address :
        <<r, d, o>> \in links <=>
          o \in Link(r, hosts[r.host].name, found[d], Allowed(again))
  <2> SUFFICES ASSUME NEW o \in Address
               PROVE  <<r, d, o>> \in links <=>
                        o \in Link(r, hosts[r.host].name, found[d],
                                   Allowed(again))
    OBVIOUS
  <2>1. links = LinksFor(again)
    BY DEF LinksInv
  <2>2. <<r, d, o>> \in rows \X Domain \X Address
    OBVIOUS
  <2> QED
    BY <2>1, <2>2 DEF LinksFor
<1> QED
  BY <1>2, <1>3 DEF Linked

(* handleScan: a candidate is shown with a rule exactly when the rule, as  *)
(* it was read, has an origin at the candidate's port and at a host of the *)
(* list read last; whatever failed and changed meanwhile.  Lists with an   *)
(* IPv6 address are left out, as LinkedIffUsed does.                       *)
THEOREM LinkedExactlyUsed == Spec => []LinkedIffUsed
<1>1. ScanInv /\ LinksInv => LinkedIffUsed
  <2> SUFFICES ASSUME ScanInv, LinksInv, phase = "answered",
                      \A h \in DOMAIN again :
                        again[h].addr # ""
                          => Bracketed[again[h].addr] = again[h].addr,
                      NEW r \in rows, NEW d \in Domain
               PROVE  Linked(r, d) # {} <=>
                        \E o \in Origins(d), h \in DOMAIN again :
                          o.port = r.at.port /\ PointsAtHost(o, again[h])
    BY DEF LinkedIffUsed
  <2>1. found[d] \in Seq(Address)
    BY DEF ScanInv, TypeOK
  <2>2. Linked(r, d) # {} <=> Uses(r, found[d], Allowed(again)) # {}
    BY <2>1, LinkedIs, LinkIffUsed
  <2>3. \A o \in Address :
          o.host \in Allowed(again) <=>
            \E h \in DOMAIN again : PointsAtHost(o, again[h])
    <3>1. "" \notin HostText
      BY CandidateAssumption
    <3> SUFFICES ASSUME NEW o \in Address
                 PROVE  o.host \in Allowed(again) <=>
                          \E h \in DOMAIN again : PointsAtHost(o, again[h])
      OBVIOUS
    <3>2. o.host # ""
      BY <3>1 DEF Address
    <3> QED
      BY <3>2 DEF Allowed, PointsAtHost
  <2>4. Uses(r, found[d], Allowed(again)) # {} <=>
          \E o \in Origins(d) : o.port = r.at.port /\ o.host \in Allowed(again)
    BY DEF Uses, Origins
  <2>5. Origins(d) \subseteq Address
    BY <2>1, OriginsTyped DEF Origins
  <2> QED
    BY <2>2, <2>3, <2>4, <2>5
<1> QED
  BY <1>1, Invariance, LinksInvariance, PTL

(* filterLinked: the origin written with the name of the candidate's host  *)
(* is the one shown, whatever the order of the rule's origins and the      *)
(* edits of the list, as long as a host of the list read last has the name.*)
THEOREM OwnNameFirst == Spec => []OwnNamePreferred
<1>1. ScanInv /\ LinksInv => OwnNamePreferred
  <2> SUFFICES ASSUME ScanInv, LinksInv, phase = "answered",
                      NEW r \in rows, NEW d \in Domain, NEW own,
                      own = [host |-> hosts[r.host].name, port |-> r.at.port],
                      own \in Origins(d), own.host \in Allowed(again)
               PROVE  Linked(r, d) = {own}
    BY DEF OwnNamePreferred
  <2>1. found[d] \in Seq(Address)
    BY DEF ScanInv, TypeOK
  <2>2. own \in {found[d][i] : i \in DOMAIN found[d]}
    BY DEF Origins
  <2>3. own \in Address
    BY <2>1, <2>2, OriginsTyped
  <2>4. own.port = r.at.port /\ own.host = hosts[r.host].name
    OBVIOUS
  <2>6. PICK k \in DOMAIN found[d] : found[d][k] = own
    BY <2>2
  <2>5. Link(r, hosts[r.host].name, found[d], Allowed(again)) = {own}
    BY <2>1, <2>3, <2>4, <2>6, LinkPrefersOwn
  <2> QED
    BY <2>4, <2>5, LinkedIs
<1> QED
  BY <1>1, Invariance, LinksInvariance, PTL
=============================================================================
