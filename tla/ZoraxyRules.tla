----------------------------- MODULE ZoraxyRules -----------------------------
(***************************************************************************)
(* Zoraxy's proxy rules, the store every bulk switch works on through the  *)
(* plugin API.  Zoraxy is not part of the repository: what it answers is   *)
(* modelled from how zoraxyapi.go calls it and reads the answer.           *)
(*                                                                         *)
(* One call is one atomic change of one rule.  Zoraxy finds an origin by   *)
(* its exact text; it refuses an update of an origin that is gone or onto  *)
(* a text the rule already has.  Calls of different workers, edits by an   *)
(* administrator and calls that were given up interleave freely.           *)
(***************************************************************************)
EXTENDS Upstreams, Naturals

CONSTANTS
  Job,          \* the bulk switch requests, who make the calls
  Rule,         \* the proxy rules (RootOrMatchingDomain)
  Faults,       \* what may go wrong with a call: "list", "refuse", "timeout"
  MaxEdits      \* bound: changes made by others than the bulk switches

ASSUME StoreAssumption ==
  /\ Faults \subseteq {"list", "refuse", "timeout"}
  /\ MaxEdits \in Nat

VARIABLES
  rules,        \* the upstreams of every rule
  endpoints,    \* the rules that exist
  late,         \* calls the plugin gave up on, Zoraxy may still apply them
  edits         \* how many changes others have made

storeVars == <<rules, endpoints, late, edits>>

(* POST proxy/upstream/update and proxy/upstream/remove.                   *)
Call == [by : Job, op : {"update", "remove"}, rule : Rule,
         old : Origin, new : Origin, active : BOOLEAN]

UpdateUpstream(j, r, old, new, active) ==
  [by |-> j, op |-> "update", rule |-> r, old |-> old, new |-> new,
   active |-> active]

RemoveUpstream(j, r, o) ==
  [by |-> j, op |-> "remove", rule |-> r, old |-> o, new |-> o,
   active |-> FALSE]

Accepts(c) ==
  /\ c.rule \in endpoints
  /\ rules[c.rule][c.old] # "absent"
  /\ (c.op = "update" /\ c.new # c.old) => rules[c.rule][c.new] = "absent"

Applied(u, c) ==
  IF c.op = "remove"
  THEN [u EXCEPT ![c.old] = "absent"]
  ELSE [u EXCEPT ![c.old] = "absent", ![c.new] = StatusOf(c.active)]

Apply(c) == rules' = [rules EXCEPT ![c.rule] = Applied(@, c)]

-----------------------------------------------------------------------------

(* postForm returned nil: the call was applied.                            *)
Succeeds(c) ==
  /\ Accepts(c)
  /\ Apply(c)
  /\ UNCHANGED <<endpoints, late, edits>>

(* An error answer: HTTP status or an "error" in the body.                 *)
IsRefused(c) ==
  /\ ~Accepts(c) \/ "refuse" \in Faults
  /\ UNCHANGED storeVars

(* The 15 s client timeout, or a lost answer: an error to the caller while *)
(* the call is still on its way.                                           *)
TimesOut(c) ==
  /\ "timeout" \in Faults
  /\ late' = late \cup {c}
  /\ UNCHANGED <<rules, endpoints, edits>>

Answers(c, ok) == IF ok THEN Succeeds(c) ELSE IsRefused(c) \/ TimesOut(c)

(* A call that was given up reaches Zoraxy after all.                      *)
ArriveLate ==
  \E c \in late :
    /\ late' = late \ {c}
    /\ IF Accepts(c) THEN Apply(c) ELSE UNCHANGED rules
    /\ UNCHANGED <<endpoints, edits>>

-----------------------------------------------------------------------------

Edit ==
  /\ edits < MaxEdits
  /\ edits' = edits + 1
  /\ UNCHANGED late

(* An administrator adds, removes, enables or disables one origin.         *)
AdminSetsOrigin ==
  /\ Edit
  /\ \E r \in endpoints, o \in Origin, s \in Status :
       rules' = [rules EXCEPT ![r][o] = s]
  /\ UNCHANGED endpoints

AdminDeletesRule ==
  /\ Edit
  /\ \E r \in endpoints :
       /\ endpoints' = endpoints \ {r}
       /\ rules' = [rules EXCEPT ![r] = NoUpstreams]

(* A new active origin; one the rule already has is refused.               *)
AddUpstream(r, o) ==
  /\ rules[r][o] = "absent"
  /\ rules' = [rules EXCEPT ![r][o] = "active"]

(* handleApplyUpstream: a scan candidate is added to the selected rule.    *)
ApplyUpstream ==
  /\ Edit
  /\ \E r \in endpoints, o \in Origin : AddUpstream(r, o)
  /\ UNCHANGED endpoints

(* The rules change without a bulk switch asking for it.                   *)
OthersAct == AdminSetsOrigin \/ AdminDeletesRule \/ ApplyUpstream
=============================================================================
