------------------------------ MODULE Failover -------------------------------
(***************************************************************************)
(* What a bulk host switch promises for a proxy rule, without requests,    *)
(* workers or calls: origins move, targets are made active, and an origin  *)
(* is retired only while another active one serves the same port and path. *)
(***************************************************************************)
EXTENDS Upstreams

CONSTANT Rule

VARIABLE rules

Init == rules \in [Rule -> Upstreams]

Changes(r, u) == rules' = [rules EXCEPT ![r] = u]

(* An origin gets a new text with the same rest and keeps its status.      *)
Move(r, o, p) ==
  /\ o \in Present(rules[r])
  /\ p \notin Present(rules[r])
  /\ p.rest = o.rest
  /\ Changes(r, [rules[r] EXCEPT ![o] = "absent", ![p] = rules[r][o]])

Activate(r, p) ==
  /\ rules[r][p] = "inactive"
  /\ Changes(r, [rules[r] EXCEPT ![p] = "active"])

Retire(r, o, p) ==
  /\ o # p
  /\ p \in ActiveIn(rules[r])
  /\ Fold[p.rest] = Fold[o.rest]
  /\ Changes(r, [rules[r] EXCEPT ![o] = "absent"])

Next ==
  \E r \in Rule, o, p \in Origin :
    Move(r, o, p) \/ Activate(r, p) \/ Retire(r, o, p)

Spec == Init /\ [][Next]_rules

(* A port and path that some active origin serves stays served: what a     *)
(* rule's visitors rely on when its origins are switched (switch.go).      *)
ServedNeverShrinks ==
  [][\A r \in Rule : Served(rules[r]) \subseteq Served(rules'[r])]_rules
=============================================================================
