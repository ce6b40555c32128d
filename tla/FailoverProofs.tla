---------------------------- MODULE FailoverProofs ----------------------------
(***************************************************************************)
(* Theorems about Failover: what every behaviour that implements it        *)
(* inherits, for any set of rules, hosts, ports and paths.                 *)
(***************************************************************************)
EXTENDS Failover, TLAPS

RulesTyped == rules \in [Rule -> Upstreams]

(* A port and path is still served when each origin that served it does,   *)
(* or another one does in its place.                                       *)
LEMMA StillServed ==
  ASSUME NEW u \in Upstreams, NEW v \in Upstreams,
         \A q \in ActiveIn(u) : \E p \in ActiveIn(v) : Fold[p.rest] = Fold[q.rest]
  PROVE  Served(u) \subseteq Served(v)
  BY DEF Served

LEMMA MoveKeepsServed ==
  ASSUME RulesTyped, NEW r \in Rule, NEW o \in Origin, NEW p \in Origin,
         Move(r, o, p)
  PROVE  /\ rules'[r] \in Upstreams
         /\ Served(rules[r]) \subseteq Served(rules'[r])
<1> DEFINE u == rules[r]
           v == [u EXCEPT ![o] = "absent", ![p] = u[o]]
<1>1. u \in Upstreams /\ rules'[r] = v
  BY DEF RulesTyped, Move, Changes
<1>2. v \in Upstreams
  BY <1>1 DEF Upstreams, Status
<1>3. o # p /\ u[p] = "absent" /\ p.rest = o.rest
  BY DEF Move, Present
<1>4. ASSUME NEW q \in ActiveIn(u)
      PROVE  \E s \in ActiveIn(v) : Fold[s.rest] = Fold[q.rest]
  <2>1. CASE q = o
    <3>1. p \in ActiveIn(v)
      BY <1>1, <1>3, <1>4, <2>1 DEF ActiveIn, Upstreams
    <3>2. QED BY <1>3, <2>1, <3>1
  <2>2. CASE q # o
    <3>1. q \in ActiveIn(v)
      BY <1>1, <1>3, <1>4, <2>2 DEF ActiveIn, Upstreams
    <3>2. QED BY <3>1
  <2>3. QED BY <2>1, <2>2
<1> HIDE DEF v
<1>5. Served(u) \subseteq Served(v)
  BY <1>1, <1>2, <1>4, StillServed
<1>6. QED BY <1>1, <1>2, <1>5

LEMMA ActivateKeepsServed ==
  ASSUME RulesTyped, NEW r \in Rule, NEW p \in Origin, Activate(r, p)
  PROVE  /\ rules'[r] \in Upstreams
         /\ Served(rules[r]) \subseteq Served(rules'[r])
<1>1. /\ rules[r] \in Upstreams
      /\ rules'[r] = [rules[r] EXCEPT ![p] = "active"]
  BY DEF RulesTyped, Activate, Changes
<1>2. rules'[r] \in Upstreams
  BY <1>1 DEF Upstreams, Status
<1>3. ActiveIn(rules[r]) \subseteq ActiveIn(rules'[r])
  BY <1>1 DEF ActiveIn, Upstreams
<1>4. QED BY <1>1, <1>2, <1>3, StillServed

LEMMA RetireKeepsServed ==
  ASSUME RulesTyped, NEW r \in Rule, NEW o \in Origin, NEW p \in Origin,
         Retire(r, o, p)
  PROVE  /\ rules'[r] \in Upstreams
         /\ Served(rules[r]) \subseteq Served(rules'[r])
<1>1. /\ rules[r] \in Upstreams
      /\ rules'[r] = [rules[r] EXCEPT ![o] = "absent"]
  BY DEF RulesTyped, Retire, Changes
<1>2. rules'[r] \in Upstreams
  BY <1>1 DEF Upstreams, Status
<1>3. p \in ActiveIn(rules'[r]) /\ Fold[p.rest] = Fold[o.rest]
  BY <1>1 DEF Retire, ActiveIn, Upstreams
<1>4. \A q \in ActiveIn(rules[r]) : q # o => q \in ActiveIn(rules'[r])
  BY <1>1 DEF ActiveIn, Upstreams
<1>5. QED BY <1>1, <1>2, <1>3, <1>4, StillServed

LEMMA StepKeepsServed ==
  ASSUME RulesTyped, [Next]_rules
  PROVE  /\ RulesTyped'
         /\ \A r \in Rule : Served(rules[r]) \subseteq Served(rules'[r])
<1>1. CASE UNCHANGED rules
  BY <1>1 DEF RulesTyped
<1>2. ASSUME NEW r \in Rule, NEW o \in Origin, NEW p \in Origin,
             Move(r, o, p) \/ Activate(r, p) \/ Retire(r, o, p)
      PROVE  /\ RulesTyped'
             /\ \A s \in Rule : Served(rules[s]) \subseteq Served(rules'[s])
  <2>1. /\ rules'[r] \in Upstreams
        /\ Served(rules[r]) \subseteq Served(rules'[r])
    BY <1>2, MoveKeepsServed, ActivateKeepsServed, RetireKeepsServed
  <2>2. PICK u : rules' = [rules EXCEPT ![r] = u]
    BY <1>2 DEF Move, Activate, Retire, Changes
  <2>3. \A s \in Rule : s # r => rules'[s] = rules[s]
    BY <2>2 DEF RulesTyped
  <2>4. RulesTyped'
    BY <2>1, <2>2 DEF RulesTyped
  <2>5. QED BY <2>1, <2>3, <2>4
<1>3. QED BY <1>1, <1>2 DEF Next

(* Whatever implements Failover never stops serving a port and path of a   *)
(* rule: this is what KeepsThePromise buys a bulk switch.                  *)
THEOREM FailoverKeepsServing == Spec => ServedNeverShrinks
<1>1. Init => RulesTyped
  BY DEF Init, RulesTyped
<1>2. RulesTyped /\ [Next]_rules => RulesTyped'
  BY StepKeepsServed
<1>3. RulesTyped /\ [Next]_rules =>
        [\A r \in Rule : Served(rules[r]) \subseteq Served(rules'[r])]_rules
  BY StepKeepsServed
<1>4. QED BY <1>1, <1>2, <1>3, PTL DEF Spec, ServedNeverShrinks
=============================================================================
