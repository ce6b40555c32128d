----------------------------- MODULE MCOriginLife -----------------------------
(***************************************************************************)
(* A small instance of OriginLife: a name, a name in capitals, an IPv6     *)
(* literal, a host without a name and a local socket.                      *)
(***************************************************************************)
EXTENDS OriginLife, TLC

MCWord == {"a", "A", "b", "B", "c", "f", "1", "80", "81", "2375", "http", "tcp",
           "unix", "sock", "ip", "n", "p", "other", "host"}

MCLower == [w \in MCWord |-> CASE w = "A" -> "a" [] w = "B" -> "b" [] OTHER -> w]

MCNumber == "1" :> 1 @@ "80" :> 80 @@ "81" :> 81 @@ "2375" :> 2375

Url(scheme, rest) == <<scheme, ":", "/", "/">> \o rest

V6 == <<"f", ":", ":", "1">>

Host(name, endpoint, suggest) ==
  [name |-> name, endpoint |-> endpoint, suggest |-> suggest]

MCHosts ==
  "h1" :> Host(<<"a">>, Url("tcp", <<"a", ":", "2375">>), <<>>)
  @@ "h2" :> Host(<<"B">>, <<"b", ":", "2375">>, <<>>)
  @@ "h3" :> Host(V6, Url("tcp", Literal(V6) \o <<":", "2375">>), <<>>)
  @@ "h4" :> Host(<<>>, Url("tcp", <<"c", ":", "2375">>), <<>>)
  @@ "h5" :> Host(<<"n">>, Url("unix", <<"/", "sock">>), <<"ip">>)

MCWrittenHosts == {<<"A">>, V6, Literal(V6), <<"other">>}

MCSchemes == {<<>>, Url("http", <<>>)}

MCPorts == {<<>>, <<"80">>, <<"81">>}

(* One of the paths holds a URL of its own.                                *)
MCPaths == {<<>>, <<"/", "p">>, <<"/", "p", ":", "/", "/", "a">>}

(* A service with a port that is not published, a container on a port the  *)
(* service has too, a task, and a port only a container has.               *)
MCServices ==
  [h \in HostId |-> IF h \in {"h1", "h3"}
                    THEN {[svc |-> "s", port |-> p] : p \in {0, 80}} ELSE {}]

MCContainers ==
  [h \in HostId |->
     {[ctr |-> "c", port |-> p, task |-> FALSE] : p \in {0, 1, 80}}
       \cup {[ctr |-> "t", port |-> 80, task |-> TRUE],
             [ctr |-> "d", port |-> 81, task |-> FALSE]}]

(* The instance is one that the theorems of OriginProofs are about.        *)
ASSUME InstanceAssumption == WellWritten
=============================================================================
