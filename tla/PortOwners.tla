------------------------------ MODULE PortOwners ------------------------------
(***************************************************************************)
(* Which service or container of a Docker host publishes a port, as the    *)
(* preview labels the lines of its plan: hostPortOwners (switch.go).       *)
(***************************************************************************)
EXTENDS Naturals

CONSTANTS Svc, Ctr

(* A port of a service; 0 when it is not published.                        *)
ServicePort == [svc : Svc, port : 0..65535]

(* A port of a container; a task belongs to a swarm service.               *)
ContainerPort == [ctr : Ctr, port : 0..65535, task : BOOLEAN]

(* Mutant: the kind is not filled in.                                      *)
UnnamedKind(kind, name) == [kind |-> "", name |-> name]

OriginOwner(kind, name) == [kind |-> kind, name |-> name]

Owner == [kind : {"service", "container"}, name : Svc \cup Ctr]

(* Mutant: the tasks of services count as containers.                      *)
OwnersWithTasks(n, services, containers) ==
  LET svcs == {s \in services : s.port = n}
      ctrs == {c \in containers : c.port = n /\ n # 0}
  IN  IF svcs # {} THEN {OriginOwner("service", s.svc) : s \in svcs}
                   ELSE {OriginOwner("container", c.ctr) : c \in ctrs}

(* owners[n]: services win; tasks and, of containers only, ports that are  *)
(* not published do not count.  Of several the order of the lists decides. *)
Owners(n, services, containers) ==
  LET svcs == {s \in services : s.port = n}
      ctrs == {c \in containers : c.port = n /\ n # 0 /\ ~c.task}
  IN  IF svcs # {} THEN {OriginOwner("service", s.svc) : s \in svcs}
                   ELSE {OriginOwner("container", c.ctr) : c \in ctrs}
=============================================================================
