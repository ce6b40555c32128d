------------------------------ MODULE Candidates ------------------------------
(***************************************************************************)
(* The data of a scan: what a Docker daemon lists, the candidate rows that *)
(* scanHost and buildService make of it, which rows are hidden, and which  *)
(* proxy rules a row is linked to (handlers.go).                           *)
(*                                                                         *)
(* Host texts are taken up to letter case: origins, names and addresses    *)
(* are lower-cased before they are compared.  A row keeps what tells rows  *)
(* apart; images, states and private ports are left out.                   *)
(***************************************************************************)
EXTENDS Naturals, Sequences

CONSTANTS
  HostId,       \* ids of configured Docker hosts
  HostText,     \* names and addresses of hosts, with and without brackets
  Wildcard,     \* 0.0.0.0 and ::
  Bracketed,    \* an address with the brackets an IPv6 literal needs
  Ctr,          \* plain containers
  Svc,          \* swarm services
  Port,         \* published ports, 1..65535
  Domain        \* proxy rules

ASSUME CandidateAssumption ==
  /\ "" \notin HostText
  /\ Wildcard \subseteq HostText
  /\ Bracketed \in [HostText -> HostText]
  /\ Port \subseteq Nat \ {0}
  /\ Ctr \cap Svc = {}

(* A configured host; addr is suggestedAddress(), "" for a local socket.   *)
Entry == [name : HostText, addr : HostText \cup {""}]

(* A port of a container: where it is bound, 0 when it is not published.   *)
Binding == [ctr : Ctr, ip : HostText, port : Port \cup {0}]

(* A port of a service; 0 when it is not published.                        *)
Publish == [svc : Svc, port : Port \cup {0}]

Address == [host : HostText, port : Port]

Row == [host : HostId, kind : {"container", "service"}, of : Ctr \cup Svc,
        at : Address]

-----------------------------------------------------------------------------

(* formatAddr.                                                             *)
AddressOf(ip, port) == [host |-> Bracketed[ip], port |-> port]

(* Mutant: ports that are not published give rows.                         *)
ContainerRowsOfAll(h, e, bindings) ==
  {[host |-> h, kind |-> "container", of |-> b.ctr,
    at |-> AddressOf(IF e.addr \in Wildcard THEN b.ip ELSE e.addr, b.port)] :
     b \in {x \in bindings : e.addr # ""}}

(* The published ports of a host's plain containers.  The same port bound  *)
(* on several interfaces gives one row.                                    *)
ContainerRows(h, e, bindings) ==
  {[host |-> h, kind |-> "container", of |-> b.ctr,
    at |-> AddressOf(IF e.addr \in Wildcard THEN b.ip ELSE e.addr, b.port)] :
     b \in {x \in bindings : e.addr # "" /\ x.port # 0}}

(* The ports of the services that have a task on the host.                 *)
ServiceRows(h, e, tasks, services) ==
  {[host |-> h, kind |-> "service", of |-> p.svc,
    at |-> AddressOf(e.addr, p.port)] :
     p \in {x \in services : e.addr # "" /\ x.port # 0 /\ x.svc \in tasks}}

(* Mutant: only services of the container's own host hide it.              *)
HidesOnHost(rows) ==
  {r \in rows : r.kind = "container" /\
     \E s \in rows : s.kind = "service" /\ s.host = r.host
                       /\ s.at.port = r.at.port}

(* A service anywhere owns its port on every host.                         *)
Hides(rows) ==
  {r \in rows : r.kind = "container" /\
     \E s \in rows : s.kind = "service" /\ s.at.port = r.at.port}

-----------------------------------------------------------------------------

(* Mutant: only the names.                                                 *)
AllowedNames(config) == {config[h].name : h \in DOMAIN config}

(* The hosts an origin may point at: names and addresses as configured.    *)
Allowed(config) ==
  {config[h].name : h \in DOMAIN config}
    \cup ({config[h].addr : h \in DOMAIN config} \ {""})

(* The places of a rule's origins that have the row's port and point at an *)
(* allowed host.                                                           *)
Uses(row, origins, allowed) ==
  {i \in DOMAIN origins : /\ origins[i].port = row.at.port
                          /\ origins[i].host \in allowed}

FirstOf(origins, places) ==
  {origins[i] : i \in {j \in places : \A k \in places : j <= k}}

(* Mutant: the first origin is kept whatever its host.                     *)
LinkFirst(row, own, origins, allowed) ==
  FirstOf(origins, Uses(row, origins, allowed))

(* filterLinked for one rule: of the origins that use the row, the first   *)
(* one written with the name of the row's own host, else the first.        *)
Link(row, own, origins, allowed) ==
  LET used == Uses(row, origins, allowed)
      mine == {i \in used : origins[i].host = own}
  IN  FirstOf(origins, IF mine # {} THEN mine ELSE used)
=============================================================================
