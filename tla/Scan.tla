--------------------------------- MODULE Scan ---------------------------------
(***************************************************************************)
(* A scan: handleScan and scanHost (handlers.go), probeTCP (probe.go) and  *)
(* ListLinkedOrigins (zoraxyapi.go).  Three batches of goroutines follow   *)
(* one another: one per configured host, one per distinct address, one per *)
(* proxy rule; the last two queue at a semaphore.  The hosts are read from *)
(* the configuration at the start and once more for the links.  Meanwhile  *)
(* the configuration, the daemons and the rules may change, and every call *)
(* may fail.                                                               *)
(*                                                                         *)
(* A scan changes none of these, so one scan at a time is enough.          *)
(***************************************************************************)
EXTENDS Candidates, FiniteSets

CONSTANTS
  Configs,      \* what the list of hosts may be
  Daemons,      \* what the Docker daemons may run
  RuleSets,     \* what the proxy rules and their origins may be
  Managers,     \* the hosts that are swarm managers
  MaxDials,     \* the capacity of probeTCP's semaphore, 24 in the code
  MaxReads,     \* the capacity of ListLinkedOrigins' semaphore, 8
  MaxChanges    \* bound: changes of the world during the scan

Daemon == [bindings : SUBSET Binding, tasks : SUBSET Svc,
           services : SUBSET Publish]

MapsOver(S, T) == UNION {[D -> T] : D \in SUBSET S}

ASSUME ScanAssumption ==
  /\ Configs \subseteq MapsOver(HostId, Entry)
  /\ Daemons \subseteq [HostId -> Daemon]
  /\ \A r \in RuleSets : /\ DOMAIN r \subseteq Domain
                         /\ \A d \in DOMAIN r : r[d] \in Seq(Address)
  /\ Managers \subseteq HostId
  /\ MaxDials \in Nat \ {0} /\ MaxReads \in Nat \ {0} /\ MaxChanges \in Nat

VARIABLES
  config, daemons, rules, changes,      \* the world
  phase,    \* where the handler is
  hosts,    \* its first copy of the list of hosts
  again,    \* its second copy
  host,     \* the goroutine of each host, and its HostResult
  dial,     \* the goroutine of each address that is probed
  reader,   \* the goroutine of each rule
  found,    \* the origins read of each rule
  rows,     \* the candidates
  links     \* the origins shown: candidate, rule and origin

world == <<config, daemons, rules, changes>>

scanVars == <<phase, hosts, again, host, dial, reader, found, rows, links>>

vars == <<world, scanVars>>

HostTask == [pc : {"none", "containers", "services", "done"},
             online : BOOLEAN, bindings : SUBSET Binding, tasks : SUBSET Svc,
             rows : SUBSET Row]

NoTask == [pc |-> "none", online |-> FALSE, bindings |-> {}, tasks |-> {},
           rows |-> {}]

TypeOK ==
  /\ config \in Configs /\ daemons \in Daemons /\ rules \in RuleSets
  /\ changes \in 0..MaxChanges
  /\ phase \in {"idle", "scanning", "probing", "linking", "reading",
                "answered"}
  /\ hosts \in Configs /\ again \in Configs
  /\ host \in [HostId -> HostTask]
  /\ DOMAIN dial \subseteq Address
  /\ \A a \in DOMAIN dial : dial[a] \in {"queued", "dialing", "up", "down"}
  /\ reader \in [Domain -> {"none", "queued", "reading", "done"}]
  /\ found \in [Domain -> Seq(Address)]
  /\ rows \subseteq Row
  /\ links \subseteq Row \X Domain \X Address

Init ==
  /\ config \in Configs /\ daemons \in Daemons /\ rules \in RuleSets
  /\ changes = 0
  /\ phase = "idle"
  /\ hosts = config /\ again = config
  /\ host = [h \in HostId |-> NoTask]
  /\ dial = [a \in {} |-> "queued"]
  /\ reader = [d \in Domain |-> "none"]
  /\ found = [d \in Domain |-> <<>>]
  /\ rows = {}
  /\ links = {}

-----------------------------------------------------------------------------
(* The goroutine of a host: scanHost.                                      *)

Begin ==
  /\ phase = "idle"
  /\ phase' = "scanning"
  /\ hosts' = config /\ again' = config
  /\ host' = [h \in HostId |-> IF h \in DOMAIN config
                               THEN [NoTask EXCEPT !.pc = "containers"]
                               ELSE NoTask]
  /\ UNCHANGED <<world, dial, reader, found, rows, links>>

Turns(h, task) ==
  /\ host' = [host EXCEPT ![h] = task]
  /\ UNCHANGED <<world, phase, hosts, again, dial, reader, found, rows, links>>

ListContainers(h) ==
  /\ host[h].pc = "containers"
  /\ Turns(h, [host[h] EXCEPT !.pc = "services", !.online = TRUE,
                              !.bindings = daemons[h].bindings,
                              !.tasks = daemons[h].tasks])

(* The host is reported with an error and without candidates.              *)
ListContainersFails(h) ==
  /\ host[h].pc = "containers"
  /\ Turns(h, [host[h] EXCEPT !.pc = "done"])

Derives(h, services) ==
  Turns(h, [host[h] EXCEPT
              !.pc = "done",
              !.rows = ContainerRows(h, hosts[h], host[h].bindings)
                \cup ServiceRows(h, hosts[h], host[h].tasks, services)])

(* A host that is no swarm manager lists no services.                      *)
ListServices(h) ==
  /\ host[h].pc = "services"
  /\ Derives(h, IF h \in Managers THEN daemons[h].services ELSE {})

(* The error is dropped: the host's services have no ports.                *)
ListServicesFails(h) ==
  /\ host[h].pc = "services"
  /\ Derives(h, {})

HostStep(h) ==
  \/ ListContainers(h) \/ ListContainersFails(h)
  \/ ListServices(h) \/ ListServicesFails(h)

-----------------------------------------------------------------------------
(* The goroutine of an address: probeTCP.                                  *)

(* Mutant: the candidates of services are not probed.                      *)
ContainerAddresses(rs) == {r.at : r \in {x \in rs : x.kind = "container"}}

Addresses(rs) == {r.at : r \in rs}

(* All hosts are done: hidden rows are dropped, the others are probed.     *)
HideAndProbe ==
  LET all == UNION {host[h].rows : h \in HostId}
  IN  /\ phase = "scanning"
      /\ \A h \in HostId : host[h].pc \in {"none", "done"}
      /\ phase' = "probing"
      /\ rows' = all \ Hides(all)
      /\ dial' = [a \in Addresses(rows') |-> "queued"]
      /\ UNCHANGED <<world, hosts, again, host, reader, found, links>>

(* Mutant: an address that is not reached keeps its place.                 *)
DialingForGood == {a \in DOMAIN dial : dial[a] \in {"dialing", "down"}}

Dialing == {a \in DOMAIN dial : dial[a] = "dialing"}

Dials(a, st) ==
  /\ dial' = [dial EXCEPT ![a] = st]
  /\ UNCHANGED <<world, phase, hosts, again, host, reader, found, rows, links>>

DialStep(a) ==
  \/ dial[a] = "queued" /\ Cardinality(Dialing) < MaxDials /\ Dials(a, "dialing")
  \/ dial[a] = "dialing" /\ (Dials(a, "up") \/ Dials(a, "down"))

-----------------------------------------------------------------------------
(* The goroutine of a rule: ListLinkedOrigins.                             *)

Probed ==
  phase = "probing" /\ \A a \in DOMAIN dial : dial[a] \in {"up", "down"}

ListEndpoints ==
  /\ Probed
  /\ phase' = "reading"
  /\ reader' = [d \in Domain |-> IF d \in DOMAIN rules THEN "queued"
                                                       ELSE "none"]
  /\ UNCHANGED <<world, hosts, again, host, dial, found, rows, links>>

(* The scan is answered without links.                                     *)
ListEndpointsFails ==
  /\ Probed
  /\ phase' = "answered"
  /\ UNCHANGED <<world, hosts, again, host, dial, reader, found, rows, links>>

Reading == {d \in Domain : reader[d] = "reading"}

Acquire(d) ==
  /\ reader[d] = "queued"
  /\ Cardinality(Reading) < MaxReads
  /\ reader' = [reader EXCEPT ![d] = "reading"]
  /\ UNCHANGED <<world, phase, hosts, again, host, dial, found, rows, links>>

Reads(d, origins) ==
  /\ reader[d] = "reading"
  /\ reader' = [reader EXCEPT ![d] = "done"]
  /\ found' = [found EXCEPT ![d] = origins]
  /\ UNCHANGED <<world, phase, hosts, again, host, dial, rows, links>>

(* A rule deleted meanwhile, or one whose listing fails, has no origins.   *)
ReadRule(d) == Reads(d, IF d \in DOMAIN rules THEN rules[d] ELSE <<>>)

ReadRuleFails(d) == Reads(d, <<>>)

ReadStep(d) == Acquire(d) \/ ReadRule(d) \/ ReadRuleFails(d)

(* The hosts are read again; a row keeps the name of the first reading.    *)
LinkRows ==
  /\ phase = "reading"
  /\ \A d \in Domain : reader[d] \in {"none", "done"}
  /\ phase' = "answered"
  /\ again' = config
  /\ links' = {l \in rows \X Domain \X Address :
                 l[3] \in Link(l[1], hosts[l[1].host].name, found[l[2]],
                               Allowed(config))}
  /\ UNCHANGED <<world, hosts, host, dial, reader, found, rows>>

HandlerStep ==
  HideAndProbe \/ ListEndpoints \/ ListEndpointsFails \/ LinkRows

-----------------------------------------------------------------------------
(* The world goes on.                                                      *)

Changes ==
  /\ changes < MaxChanges
  /\ changes' = changes + 1
  /\ UNCHANGED scanVars

EditsHosts == Changes /\ config' \in Configs /\ UNCHANGED <<daemons, rules>>

DaemonChanges == Changes /\ daemons' \in Daemons /\ UNCHANGED <<config, rules>>

RulesChange == Changes /\ rules' \in RuleSets /\ UNCHANGED <<config, daemons>>

(* The scan has been answered.                                             *)
Finished == phase = "answered" /\ UNCHANGED vars

ScanStep ==
  \/ \E h \in HostId : HostStep(h)
  \/ \E a \in DOMAIN dial : DialStep(a)
  \/ \E d \in Domain : ReadStep(d)
  \/ HandlerStep

Next ==
  \/ Begin \/ ScanStep
  \/ EditsHosts \/ DaemonChanges \/ RulesChange
  \/ Finished

(* Every call ends by its timeout, and a goroutine that can go on does.    *)
Spec == Init /\ [][Next]_vars /\ WF_vars(ScanStep)

-----------------------------------------------------------------------------
(* Properties.                                                             *)

ServedPorts == {r.at.port : r \in {x \in rows : x.kind = "service"}}

(* handlers.go: "the swarm service owns that port, so drop the             *)
(* plain-container candidate"; and only then.  A port that was listed of a *)
(* container is shown, or the same answer has a service's row for it, also *)
(* when listings fail and services come and go while hosts are listed.     *)
HiddenOnlyForShownService ==
  phase = "answered" =>
    \A h \in DOMAIN hosts : \A b \in host[h].bindings :
      hosts[h].addr # "" /\ b.port # 0 =>
        ((b.port \notin ServedPorts) <=>
           \E r \in rows : r.host = h /\ r.of = b.ctr /\ r.at.port = b.port)

(* A candidate is flagged as unreachable only when it was tried.           *)
EveryRowProbed ==
  phase = "answered" =>
    \A r \in rows : r.at \in DOMAIN dial /\ dial[r.at] \in {"up", "down"}

Linked(r, d) == {o \in Address : <<r, d, o>> \in links}

Origins(d) == {found[d][i] : i \in DOMAIN found[d]}

(* The origin is written for the host, as its candidates would be.         *)
PointsAtHost(o, e) ==
  o.host = e.name \/ (e.addr # "" /\ o.host = Bracketed[e.addr])

(* ListLinkedOrigins and filterLinked: "matching is port-based", the       *)
(* origin "may reference a different node", but only one of the docker     *)
(* hosts.  A row is linked to a rule iff the rule, as it was read, has an  *)
(* origin with the row's port at any host of the list, as it is when the   *)
(* links are made.  Lists with an IPv6 address are left out: origins       *)
(* written for them are never linked, whatever the rule.                   *)
LinkedIffUsed ==
  phase = "answered"
    /\ (\A h \in DOMAIN again : again[h].addr # ""
                               => Bracketed[again[h].addr] = again[h].addr)
  => \A r \in rows, d \in Domain :
       Linked(r, d) # {} <=>
         \E o \in Origins(d), h \in DOMAIN again :
           o.port = r.at.port /\ PointsAtHost(o, again[h])

(* An origin written with the name of the candidate's own host is shown    *)
(* whatever the order of the rule's origins and edits of the list, as long *)
(* as some host still has the name.                                        *)
OwnNamePreferred ==
  phase = "answered" =>
    \A r \in rows, d \in Domain :
      LET own == [host |-> hosts[r.host].name, port |-> r.at.port]
      IN  own \in Origins(d) /\ own.host \in Allowed(again)
            => Linked(r, d) = {own}

(* Every scan is answered, whatever fails.                                 *)
EveryScanAnswered == phase # "idle" ~> phase = "answered"
=============================================================================
