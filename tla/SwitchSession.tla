---------------------------- MODULE SwitchSession -----------------------------
(***************************************************************************)
(* The bulk switch as its user meets it: the page (web/index.html) asks    *)
(* for a preview, the user ticks rules of the plan that is shown and has   *)
(* them executed.  The page, its preview requests and its switch requests  *)
(* run side by side: answers are rendered when they come, the host         *)
(* dropdowns and the tick boxes can be changed at any time.                *)
(*                                                                         *)
(* The page is one tab.  Its messages and labels are left out; so is the   *)
(* loss of an answer between the page and the plugin.                      *)
(***************************************************************************)
EXTENDS BulkSwitch, SwitchPreview

CONSTANT Offered    \* the hosts in the dropdowns

(* A request of the page is one of Requests.                               *)
ASSUME SessionAssumption ==
  /\ Offered \subseteq HostText
  /\ [from : Offered \cup {""}, to : Offered \cup {""},
      selected : SUBSET Rule] \subseteq Requests

VARIABLES
  sel,          \* the two dropdowns
  shown,        \* the plan on the page, and the hosts it was made for
  ticked,       \* the rules ticked in it
  previewOff,   \* "Show affected rules" is disabled
  switchOff,    \* "Switch selected rules" is disabled
  purpose,      \* of each preview slot: "button" or "refresh" after a switch
  sent,         \* the switch requests that were sent
  read,         \* those whose result is rendered
  agreed        \* the plan that was shown when a switch was confirmed

pageVars == <<sel, shown, ticked, previewOff, switchOff, purpose, sent, read,
              agreed>>

sessionVars == <<vars, preview, pageVars>>

Shown == [from : HostText \cup {""}, to : HostText \cup {""}, plan : Plan]

NothingShown == [from |-> "", to |-> "", plan |-> NoPlan]

SessionTypeOK ==
  /\ TypeOK
  /\ preview \in [Slot -> Preview]
  /\ sel \in [from : Offered, to : Offered]
  /\ shown \in Shown
  /\ ticked \subseteq Rule
  /\ previewOff \in BOOLEAN
  /\ switchOff \in BOOLEAN
  /\ purpose \in [Slot -> {"none", "button", "refresh"}]
  /\ read \subseteq sent /\ sent \subseteq Job
  /\ agreed \in [Job -> Shown]

SessionInit ==
  /\ req = [j \in Job |-> [from |-> "", to |-> "", selected |-> {}]]
  /\ Init
  /\ preview = [p \in Slot |-> NoPreview]
  /\ sel \in {s \in [from : Offered, to : Offered] : s.from # s.to}
  /\ shown = NothingShown
  /\ ticked = {}
  /\ previewOff = FALSE
  /\ switchOff = TRUE
  /\ purpose = [p \in Slot |-> "none"]
  /\ sent = {} /\ read = {}
  /\ agreed = [j \in Job |-> NothingShown]

-----------------------------------------------------------------------------
(* The user.                                                               *)

(* Choosing the host of the other dropdown moves that one to another host. *)
ChooseHosts ==
  /\ sel' \in {s \in [from : Offered, to : Offered] : s.from # s.to}
  /\ \/ sel'.from = sel.from
     \/ sel'.to = sel.to
     \/ sel'.from = sel.to
     \/ sel'.to = sel.from
  /\ sel' # sel
  /\ UNCHANGED <<vars, preview, shown, ticked, previewOff, switchOff, purpose,
                 sent, read, agreed>>

(* The switch button is enabled whenever a box is ticked, even while a     *)
(* switch is being executed.                                               *)
Renders(tick) == ticked' = tick /\ switchOff' = (tick = {})

RulesOf(plan) == {r \in Rule : plan[r] # {}}

TickRules ==
  /\ \E tick \in SUBSET RulesOf(shown.plan) : tick # ticked /\ Renders(tick)
  /\ UNCHANGED <<vars, preview, sel, shown, previewOff, purpose, sent, read,
                 agreed>>

PressPreview(p) ==
  /\ ~previewOff
  /\ Fold[sel.from] # Fold[sel.to]
  /\ AskPreview(p, sel.from, sel.to)
  /\ previewOff' = TRUE
  /\ purpose' = [purpose EXCEPT ![p] = "button"]
  /\ UNCHANGED <<vars, sel, shown, ticked, switchOff, sent, read, agreed>>

(* The request takes the hosts of the dropdowns, not those of the plan.    *)
PressSwitch(j) ==
  /\ ~switchOff
  /\ ticked # {}
  /\ j \notin sent
  /\ sent' = sent \cup {j}
  /\ req' = [req EXCEPT ![j] = [from |-> sel.from, to |-> sel.to,
                                selected |-> ticked]]
  /\ agreed' = [agreed EXCEPT ![j] = shown]
  /\ switchOff' = TRUE
  /\ UNCHANGED <<phase, worker, storeVars, preview, sel, shown, ticked,
                 previewOff, purpose, read>>

-----------------------------------------------------------------------------
(* The page, when an answer comes.                                         *)

(* All rules of a new plan are ticked; an error leaves no box to tick.     *)
ReadPlan(p) ==
  /\ preview[p].st \in {"planned", "error"}
  /\ LET v == preview[p]
     IN  /\ shown' = [from |-> v.from, to |-> v.to,
                      plan |-> IF v.st = "planned" THEN v.plan ELSE NoPlan]
         /\ ticked' = RulesOf(shown'.plan)
  /\ PreviewRead(p)
  /\ purpose' = [purpose EXCEPT ![p] = "none"]
  /\ \/ /\ purpose[p] = "button"
        /\ previewOff' = FALSE
        /\ switchOff' = (ticked' = {})
     \/ /\ purpose[p] = "refresh"
        /\ switchOff' = FALSE
        /\ UNCHANGED previewOff
  /\ UNCHANGED <<vars, sel, sent, read, agreed>>

Switched(j) ==
  {r \in Rule : \E e \in worker[j][r].log : e.kind = "switched"}

(* After a switch the plan is asked for again, for the hosts of the switch.*)
ReadResult(j) ==
  /\ j \in sent \ read
  /\ Answered(j)
  /\ read' = read \cup {j}
  /\ IF Switched(j) = {}
     THEN switchOff' = FALSE /\ UNCHANGED <<preview, purpose>>
     ELSE \E p \in Slot : /\ AskPreview(p, req[j].from, req[j].to)
                          /\ purpose' = [purpose EXCEPT ![p] = "refresh"]
                          /\ UNCHANGED switchOff
  /\ UNCHANGED <<vars, sel, shown, ticked, previewOff, sent, agreed>>

-----------------------------------------------------------------------------

PageStep ==
  \/ ChooseHosts
  \/ TickRules
  \/ \E p \in Slot : PressPreview(p) \/ ReadPlan(p)
  \/ \E j \in Job : PressSwitch(j) \/ ReadResult(j)

ServerStep ==
  /\ \/ /\ \E j \in sent : HandlerStep(j) \/ \E r \in Rule : WorkerStep(j, r)
        /\ UNCHANGED preview
     \/ StoreStep /\ UNCHANGED preview
     \/ (\E p \in Slot : PreviewStep(p)) /\ UNCHANGED vars
  /\ UNCHANGED pageVars

SessionNext == PageStep \/ ServerStep

SessionSpec == SessionInit /\ [][SessionNext]_sessionVars

-----------------------------------------------------------------------------
(* Properties.                                                             *)

AsPlanned(j) == agreed[j].from = req[j].from /\ agreed[j].to = req[j].to

Planned(j, r, kind, o) ==
  \E a \in agreed[j].plan[r] : a.kind = kind /\ a.origin = o

(* With the dropdowns as they were for the plan, and no switch of other    *)
(* hosts sent besides, a switch changes nothing that the plan did not      *)
(* show, and an origin planned to be moved is not dropped, nor the other   *)
(* way round: planUpstreamSwitch and executeUpstreamSwitch decide alike,   *)
(* each from its own listing, though the button can be pressed twice.      *)
NothingBeyondThePlan ==
  \A j \in sent :
    (\A i \in sent : /\ AsPlanned(i)
                     /\ req[i].from = req[j].from /\ req[i].to = req[j].to)
    => \A r \in Rule, o \in Origin : \A e \in worker[j][r].log : o \in e.at =>
         /\ e.what \in {"moved", "update"} => Planned(j, r, "update", o)
         /\ e.what \in {"dropped", "remove"} => Planned(j, r, "drop", o)

(* And the only switch that was sent leaves nothing out: every action      *)
(* planned for a ticked rule was taken, or is reported as an error.        *)
WholePlanExecuted ==
  \A j \in sent : phase[j] = "replied" /\ AsPlanned(j) /\ sent = {j} =>
    \A r \in req[j].selected : \A a \in agreed[j].plan[r] :
      Lines(j, r, {"switched", "error"}, a.origin) # {}
=============================================================================
