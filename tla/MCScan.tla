-------------------------------- MODULE MCScan --------------------------------
(***************************************************************************)
(* Small instances of Scan: two hosts, a plain container on each, a        *)
(* service, two ports, up to two rules.                                   *)
(***************************************************************************)
EXTENDS Scan, TLC

MCBracketed == [h \in HostText |-> CASE h = "::" -> "[::]"
                                      [] h = "v6" -> "[v6]"
                                      [] OTHER -> h]

(* Two hosts; the second removed, renamed, with another or no address.     *)
TwoHosts(name, addr) == "h1" :> [name |-> "n1", addr |-> "ip1"]
                          @@ "h2" :> [name |-> name, addr |-> addr]

EditedConfigs ==
  {TwoHosts("n2", "ip2"), TwoHosts("n3", "ip2"), TwoHosts("n2", ""),
   TwoHosts("n2", "0.0.0.0"), TwoHosts("n2", "v6"),
   "h1" :> [name |-> "n1", addr |-> "ip1"]}

(* A port bound on two interfaces, and one that is not published.          *)
Container(ports) ==
  {[ctr |-> "c", ip |-> "0.0.0.0", port |-> p] : p \in ports}
    \cup {[ctr |-> "c", ip |-> "::", port |-> p] : p \in ports \ {0}}

Swarm(tasks1, tasks2) ==
  "h1" :> [bindings |-> Container({80, 81}), tasks |-> tasks1,
           services |-> {[svc |-> "s", port |-> p] : p \in {0, 80}}]
  @@ "h2" :> [bindings |-> Container({0, 80}), tasks |-> tasks2, services |-> {}]

(* The manager runs the service's task, or the other host, or both.        *)
SomeTasks == {Swarm({"s"}, {}), Swarm({}, {"s"}), Swarm({"s"}, {"s"})}

At(h) == [host |-> h, port |-> 80]

(* No rule, or rules with up to two origins in either order.               *)
SomeRules ==
  {<<>>, "d" :> <<At("n2"), At("ip2")>>, "d" :> <<At("other"), At("n3")>>,
   "d" :> <<At("ip1"), At("n1")>> @@ "e" :> <<At("ip2")>>}
=============================================================================
