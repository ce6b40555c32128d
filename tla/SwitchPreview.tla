---------------------------- MODULE SwitchPreview -----------------------------
(***************************************************************************)
(* The dry run of a bulk host switch: handleSwitchPreview (handlers.go)    *)
(* and planUpstreamSwitch (switch.go).  It lists the rules, then every     *)
(* rule's origins, and plans from those listings without changing a rule.  *)
(*                                                                         *)
(* A part of SwitchSession, which composes it with BulkSwitch.  Listing a  *)
(* rule and planning for it is one step: only the listing reads shared     *)
(* state.  The semaphore of the listing goroutines is left out, it delays  *)
(* them and nothing else.                                                  *)
(***************************************************************************)
EXTENDS ZoraxyRules

CONSTANT Slot       \* the preview requests that may be under way

VARIABLE preview    \* of each slot: the request and what is planned so far

(* One line of the plan; "new" is empty when the origin is to be dropped.  *)
Action == [kind : {"update", "drop"}, origin : Origin, new : SUBSET Origin,
           active : BOOLEAN]

Plan == [Rule -> SUBSET Action]

NoPlan == [r \in Rule |-> {}]

(* "idle": no request; "asked": ListEndpoints is next; "planning": rules   *)
(* in "left" are still to be listed; "planned" and "error": answered.      *)
Preview == [st : {"idle", "asked", "planning", "planned", "error"},
            from : HostText \cup {""}, to : HostText \cup {""},
            left : SUBSET Rule, plan : Plan]

NoPreview == [st |-> "idle", from |-> "", to |-> "", left |-> {},
              plan |-> NoPlan]

-----------------------------------------------------------------------------
(* The plan for one listing.                                               *)

(* Mutant: an inactive origin whose target exists is planned as well.      *)
TouchesAny(u, o, from, to) ==
  o \in Present(u) /\ PointsAt(o, from) /\ ~AtTarget(o, to)

Touches(u, o, from, to) ==
  /\ o \in Present(u)
  /\ PointsAt(o, from)
  /\ ~AtTarget(o, to)
  /\ Occupied(u, o, to) => u[o] = "active"

(* Mutant: an occupied target is not noticed.                              *)
PlannedRename(u, o, from, to) ==
  [kind |-> "update", origin |-> o, active |-> u[o] = "active",
   new |-> {SwitchOriginHost(o, to)}]

PlannedAction(u, o, from, to) ==
  LET drop == Occupied(u, o, to)
  IN  [kind |-> IF drop THEN "drop" ELSE "update",
       origin |-> o,
       new |-> IF drop THEN {} ELSE {SwitchOriginHost(o, to)},
       active |-> u[o] = "active"]

ActionsOf(u, from, to) ==
  {PlannedAction(u, o, from, to) :
     o \in {p \in Origin : Touches(u, p, from, to)}}

-----------------------------------------------------------------------------

(* handleSwitchPreview refuses empty and equal hosts.                      *)
AskPreview(p, from, to) ==
  LET acceptable == from # "" /\ to # "" /\ Fold[from] # Fold[to]
  IN  /\ preview[p].st = "idle"
      /\ preview' = [preview EXCEPT ![p] =
           [NoPreview EXCEPT !.st = IF acceptable THEN "asked" ELSE "error",
                             !.from = from, !.to = to]]

PreviewListsRules(p) ==
  /\ preview[p].st = "asked"
  /\ \/ preview' = [preview EXCEPT ![p].st = "planning", ![p].left = endpoints]
     \/ "list" \in Faults /\ preview' = [preview EXCEPT ![p].st = "error"]

(* A rule whose listing fails is left out of the plan, without a word.     *)
PreviewPlansRule(p, r) ==
  LET v == preview[p]
  IN  /\ v.st = "planning"
      /\ r \in v.left
      /\ \/ preview' = [preview EXCEPT
                ![p].left = @ \ {r},
                ![p].plan[r] = ActionsOf(rules[r], v.from, v.to)]
         \/ "list" \in Faults /\ preview' = [preview EXCEPT ![p].left = @ \ {r}]

PreviewReplies(p) ==
  /\ preview[p].st = "planning"
  /\ preview[p].left = {}
  /\ preview' = [preview EXCEPT ![p].st = "planned"]

PreviewStep(p) ==
  \/ PreviewListsRules(p)
  \/ \E r \in Rule : PreviewPlansRule(p, r)
  \/ PreviewReplies(p)

(* The browser has read the answer.                                        *)
PreviewRead(p) == preview' = [preview EXCEPT ![p] = NoPreview]
=============================================================================
