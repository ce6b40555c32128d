---------------------------- MODULE SessionProofs -----------------------------
(***************************************************************************)
(* The page and the execution, for any numbers of rules, hosts, previews   *)
(* and switches: what is executed is what was shown.  A plan stays right   *)
(* about the origins that are still to be switched, however often the same *)
(* switch is sent: executeUpstreamSwitch decides from its own listing as   *)
(* planUpstreamSwitch did from an earlier one.                             *)
(***************************************************************************)
EXTENDS OutcomeProofs, SwitchSession

-----------------------------------------------------------------------------
(* Types.                                                                  *)

(* Nothing runs for a request that was not sent.                           *)
UnsentWait ==
  \A j \in Job \ sent :
    phase[j] = "received" /\ \A r \in Rule : worker[j][r] = NewWorker

(* A preview that is being planned was not refused.                        *)
PreviewsAccepted ==
  \A p \in Slot : preview[p].st \in {"asked", "planning"} =>
    preview[p].from \in HostText /\ preview[p].to \in HostText

(* Only rules of the plan that is shown can be ticked and sent.            *)
SentAsShown ==
  /\ ticked \subseteq RulesOf(shown.plan)
  /\ \A j \in sent : /\ req[j].from \in Offered /\ req[j].to \in Offered
                     /\ req[j].selected \subseteq RulesOf(agreed[j].plan)

SessionInv ==
  IInv /\ SessionTypeOK /\ UnsentWait /\ PreviewsAccepted /\ SentAsShown

-----------------------------------------------------------------------------
(* What a worker's results say of its listing.                             *)

(* What is to be done with an origin of a listing.                         *)
ToRename(q, u, o) == Touches(u, o, q.from, q.to) /\ ~Occupied(u, o, q.to)

ToRetire(q, u, o) == Touches(u, o, q.from, q.to) /\ Occupied(u, o, q.to)

Decided(q, w) ==
  /\ \A e \in w.log : \A o \in e.at :
       /\ e.what \in {"moved", "update"} => ToRename(q, w.snap, o)
       /\ e.what \in {"dropped", "remove"} => ToRetire(q, w.snap, o)
       /\ e.kind = "skipped" => ~Touches(w.snap, o, q.from, q.to)
  /\ w.pc = "activated" => \A o \in w.cur : ToRetire(q, w.snap, o)
  /\ w.pc \notin Busy => w.log = {}

AllDecided == \A j \in Job, r \in Rule : Decided(req[j], worker[j][r])

(* A call of a worker removes an origin of the source host, moves it, or   *)
(* activates one of the target host.                                       *)
Switches(q, c) ==
  IF c.op = "remove"
  THEN PointsAt(c.old, q.from)
  ELSE \/ c.old = c.new /\ Bare[c.new.host] = Bare[q.to]
       \/ c.new = Target(q, c.old) /\ PointsAt(c.old, q.from)

LateSwitches ==
  \A c \in late : /\ worker[c.by][c.rule].pc \in Busy
                  /\ Switches(req[c.by], c)

(* Every selected rule has its worker, who is done when it is answered.    *)
AllAtWork ==
  /\ endpoints = Rule
  /\ \A j \in Job :
       /\ phase[j] \in {"waiting", "replied"} =>
            \A r \in req[j].selected : worker[j][r].pc # "none"
       /\ phase[j] = "replied" =>
            \A r \in Rule : worker[j][r].pc \in {"none", "done"}

SwitchInv == AllAccount /\ AllDecided /\ LateSwitches /\ AllAtWork

-----------------------------------------------------------------------------
(* What a plan says of a rule.                                             *)

(* At most one origin of each port and path points at the host.            *)
OneEach(h, u) ==
  \A o, p \in Present(u) :
    PointsAt(o, h) /\ PointsAt(p, h) /\ Fold[o.rest] = Fold[p.rest] => o = p

(* The names in the dropdowns have no brackets, no rule starts with two    *)
(* spellings of one place, and nobody else edits the rules.                *)
OneSpellingEach ==
  /\ MaxEdits = 0
  /\ \A h \in Offered : Bare[h] = h
  /\ \A u \in InitialUpstreams, h \in Offered : OneEach(h, u)

SentAre(from, to) ==
  \A j \in sent : req[j].from = from /\ req[j].to = to

(* The actions are right about each origin that would now be switched.     *)
Covers(actions, u, from, to) ==
  \A o \in Origin : Touches(u, o, from, to) =>
    \E a \in actions :
      /\ a.origin = o
      /\ a.kind = IF Occupied(u, o, to) THEN "drop" ELSE "update"

(* A rule that has no part in the plan need not be covered: its listing    *)
(* may have failed, and it cannot be ticked.                               *)
PlanCovers(v) ==
  SentAre(v.from, v.to) =>
    \A r \in Rule : v.plan[r] # {} =>
                      Covers(v.plan[r], rules[r], v.from, v.to)

ListingCovered(j) ==
  LET v == agreed[j]
  IN  SentAre(v.from, v.to) =>
        \A r \in Rule : v.plan[r] # {} /\ worker[j][r].pc \in Busy =>
          Covers(v.plan[r], worker[j][r].snap, v.from, v.to)

PlansInv ==
  /\ \A h \in Offered : (\A j \in sent : req[j].from = h) =>
       \A r \in Rule : OneEach(h, rules[r])
  /\ \A p \in Slot : PlanCovers(preview[p])
  /\ PlanCovers(shown)
  /\ \A j \in sent : PlanCovers(agreed[j]) /\ ListingCovered(j)

(* Every planned action is still to be taken.                              *)
Due(actions, u, from, to) ==
  \A a \in actions : Touches(u, a.origin, from, to)

PlanDue(v) == \A r \in Rule : Due(v.plan[r], rules[r], v.from, v.to)

DueInv ==
  /\ sent = {} => PlanDue(shown) /\ \A p \in Slot : PlanDue(preview[p])
  /\ \A j \in sent : sent = {j} =>
       LET v == agreed[j]
       IN  \A r \in Rule :
             Due(v.plan[r],
                 IF worker[j][r].pc \in Busy THEN worker[j][r].snap
                                             ELSE rules[r],
                 v.from, v.to)

-----------------------------------------------------------------------------
(* Every state is well-typed.                                              *)

LEMMA NothingTyped ==
  /\ NoPlan \in Plan /\ NoPreview \in Preview /\ NothingShown \in Shown
  /\ NewWorker \in Worker
  BY NoUpstreamsTyped
     DEF NoPlan, Plan, NoPreview, Preview, NothingShown, Shown, NewWorker,
         Worker, Control

LEMMA ActionsTyped ==
  ASSUME NEW u, NEW from, NEW to \in HostText
  PROVE  ActionsOf(u, from, to) \subseteq Action
<1> SUFFICES ASSUME NEW o \in Origin
             PROVE  PlannedAction(u, o, from, to) \in Action
  BY DEF ActionsOf
<1>1. SwitchOriginHost(o, to) \in Origin
  BY SwitchTyped
<1> QED
  BY <1>1 DEF PlannedAction, Action

LEMMA ServerIsSwitch ==
  ASSUME SessionTypeOK, ServerStep
  PROVE  [Next]_vars /\ UNCHANGED pageVars
  BY DEF SessionTypeOK, ServerStep, Next

(* A worker's step is about itself and the store.                          *)
LEMMA WorkerAlone ==
  ASSUME TypeOK, NEW j \in Job, NEW r \in Rule, WorkerStep(j, r)
  PROVE  /\ phase' = phase /\ req' = req
         /\ \A i \in Job, s \in Rule :
              i # j \/ s # r => worker'[i][s] = worker[i][s]
<1>1. \E v : Becomes(j, r, v)
  <2>1. CASE Acquire(j, r) \/ Publish(j, r)
    BY <2>1 DEF Acquire, Publish
  <2>2. CASE \/ ListUpstreams(j, r) \/ ListAnsweredWithErrorBody(j, r)
             \/ ListUpstreamsFails(j, r)
    <3>1. \E u, g : Lists(j, r, u, g)
      BY <2>2 DEF ListUpstreams, ListAnsweredWithErrorBody, ListUpstreamsFails
    <3> QED BY <3>1 DEF Lists
  <2>3. ASSUME NEW o, LoopStep(j, r, o)
        PROVE  \E v : Becomes(j, r, v)
    <3>1. CASE ActivateCounterpart(j, r, o)
      BY <3>1 DEF ActivateCounterpart
    <3>2. CASE ~ActivateCounterpart(j, r, o)
      <4>1. \E e : Continue(j, r, o, e)
        BY <2>3, <3>2 DEF LoopStep, SkipAtTarget, SkipExisting, RemoveOrigin,
                          MoveOrigin
      <4> QED BY <4>1 DEF Continue
    <3> QED BY <3>1, <3>2
  <2> QED BY <2>1, <2>2, <2>3 DEF WorkerStep
<1> QED
  BY <1>1 DEF Becomes, TypeOK

LEMMA InitSession == SessionInit => SessionInv
<1> SUFFICES ASSUME SessionInit PROVE SessionInv
  OBVIOUS
<1>1. IInv
  BY InitIInv DEF SessionInit
<1>2. SessionTypeOK
  BY <1>1, NothingTyped DEF SessionInit, SessionTypeOK, IInv
<1>3. UnsentWait /\ PreviewsAccepted
  BY DEF SessionInit, Init, UnsentWait, PreviewsAccepted, NoPreview
<1>4. SentAsShown
  BY DEF SessionInit, SentAsShown
<1> QED
  BY <1>1, <1>2, <1>3, <1>4 DEF SessionInv

(* Only what was sent is worked on.                                        *)
LEMMA ServerKeepsUnsent ==
  ASSUME SessionInv, ServerStep
  PROVE  UnsentWait' /\ req' = req
<1>1. sent' = sent
  BY DEF ServerStep, pageVars
<1>2. CASE \E j \in sent : HandlerStep(j) \/ \E r \in Rule : WorkerStep(j, r)
  <2>1. PICK j \in sent : HandlerStep(j) \/ \E r \in Rule : WorkerStep(j, r)
    BY <1>2
  <2>2. CASE HandlerStep(j)
    <3>1. /\ req' = req
          /\ \A i \in Job : i # j => /\ phase'[i] = phase[i]
                                     /\ worker'[i] = worker[i]
      BY <2>2 DEF HandlerStep, Receive, ListEndpointsFails, StartWorkers, Reply,
                  Moves, SessionInv, SessionTypeOK, TypeOK
    <3> QED BY <1>1, <3>1 DEF SessionInv, UnsentWait
  <2>3. CASE \E r \in Rule : WorkerStep(j, r)
    <3>1. TypeOK /\ j \in Job
      BY DEF SessionInv, SessionTypeOK
    <3>2. /\ req' = req /\ phase' = phase
          /\ \A i \in Job, s \in Rule : i # j => worker'[i][s] = worker[i][s]
      BY <2>3, <3>1, WorkerAlone
    <3> QED BY <1>1, <3>2 DEF SessionInv, UnsentWait
  <2> QED BY <2>1, <2>2, <2>3
<1>3. CASE StoreStep \/ UNCHANGED vars
  BY <1>1, <1>3 DEF StoreStep, vars, SessionInv, UnsentWait
<1> QED
  BY <1>2, <1>3 DEF ServerStep

(* The preview computes a plan of actions, and nothing else.               *)
LEMMA PreviewKeeps ==
  ASSUME SessionInv, NEW p \in Slot, PreviewStep(p)
  PROVE  preview' \in [Slot -> Preview] /\ PreviewsAccepted'
<1> DEFINE v == preview[p]
<1>1. preview \in [Slot -> Preview] /\ v \in Preview /\ endpoints \subseteq Rule
  BY DEF SessionInv, SessionTypeOK, TypeOK
<1>2. PICK x \in Preview :
        /\ preview' = [preview EXCEPT ![p] = x]
        /\ x.from = v.from /\ x.to = v.to
        /\ v.st \in {"asked", "planning"}
  <2>1. CASE PreviewListsRules(p)
    <3>1. /\ [v EXCEPT !.st = "planning", !.left = endpoints] \in Preview
          /\ [v EXCEPT !.st = "error"] \in Preview
      BY <1>1 DEF Preview
    <3> QED BY <1>1, <2>1, <3>1 DEF PreviewListsRules, Preview
  <2>2. ASSUME NEW r \in Rule, PreviewPlansRule(p, r)
        PROVE  \E x \in Preview :
                 /\ preview' = [preview EXCEPT ![p] = x]
                 /\ x.from = v.from /\ x.to = v.to
                 /\ v.st \in {"asked", "planning"}
    <3>1. v.st = "planning" /\ v.to \in HostText
      BY <2>2 DEF PreviewPlansRule, SessionInv, PreviewsAccepted
    <3> DEFINE more == [v.plan EXCEPT ![r] = ActionsOf(rules[r], v.from, v.to)]
    <3>2. more \in Plan
      <4>1. ActionsOf(rules[r], v.from, v.to) \in SUBSET Action
        BY <3>1, ActionsTyped
      <4>2. v.plan \in [Rule -> SUBSET Action]
        BY <1>1 DEF Preview, Plan
      <4> QED BY <4>1, <4>2 DEF Plan
    <3>3. /\ [v EXCEPT !.left = @ \ {r}, !.plan = more] \in Preview
          /\ [v EXCEPT !.left = @ \ {r}] \in Preview
      BY <1>1, <3>2 DEF Preview
    <3>4. \/ preview' = [preview EXCEPT
               ![p] = [v EXCEPT !.left = @ \ {r}, !.plan = more]]
          \/ preview' = [preview EXCEPT ![p] = [v EXCEPT !.left = @ \ {r}]]
      BY <1>1, <2>2 DEF PreviewPlansRule, Preview, Plan
    <3> HIDE DEF more
    <3> QED BY <1>1, <3>1, <3>3, <3>4 DEF Preview
  <2>3. CASE PreviewReplies(p)
    <3>1. [v EXCEPT !.st = "planned"] \in Preview
      BY <1>1 DEF Preview
    <3> QED BY <1>1, <2>3, <3>1 DEF PreviewReplies, Preview
  <2> QED BY <2>1, <2>2, <2>3 DEF PreviewStep
<1>3. preview' \in [Slot -> Preview]
  BY <1>1, <1>2
<1>4. v.from \in HostText /\ v.to \in HostText
  BY <1>2 DEF SessionInv, PreviewsAccepted
<1>5. PreviewsAccepted'
  BY <1>1, <1>2, <1>4 DEF SessionInv, PreviewsAccepted
<1> QED
  BY <1>3, <1>5

LEMMA AskKeeps ==
  ASSUME SessionInv, NEW p \in Slot, NEW from \in HostText \cup {""},
         NEW to \in HostText \cup {""}, AskPreview(p, from, to)
  PROVE  preview' \in [Slot -> Preview] /\ PreviewsAccepted'
<1> DEFINE acceptable == from # "" /\ to # "" /\ Fold[from] # Fold[to]
           x == [NoPreview EXCEPT !.st = IF acceptable THEN "asked" ELSE "error",
                                  !.from = from, !.to = to]
<1>1. preview' = [preview EXCEPT ![p] = x] /\ preview \in [Slot -> Preview]
  BY DEF AskPreview, SessionInv, SessionTypeOK
<1>2. /\ x \in Preview /\ x.from = from /\ x.to = to
      /\ x.st \in {"asked", "planning"} => from # "" /\ to # ""
  BY NothingTyped DEF Preview, NoPreview
<1> HIDE DEF x
<1>3. PreviewsAccepted'
  BY <1>1, <1>2 DEF SessionInv, PreviewsAccepted
<1> QED
  BY <1>1, <1>2, <1>3

LEMMA ReadKeeps ==
  ASSUME SessionInv, NEW p \in Slot, PreviewRead(p)
  PROVE  preview' \in [Slot -> Preview] /\ PreviewsAccepted'
<1>1. preview' = [preview EXCEPT ![p] = NoPreview]
      /\ preview \in [Slot -> Preview]
  BY DEF PreviewRead, SessionInv, SessionTypeOK
<1>2. NoPreview \in Preview /\ NoPreview.st = "idle"
  BY NothingTyped DEF NoPreview
<1> QED
  BY <1>1, <1>2 DEF SessionInv, PreviewsAccepted

(* A request that is sent is one the switch may be asked for; nothing was  *)
(* done for it before.                                                     *)
LEMMA PressSwitchKeeps ==
  ASSUME SessionInv, NEW j \in Job, PressSwitch(j)
  PROVE  SessionInv'
<1> USE DEF SessionInv
<1> DEFINE q == [from |-> sel.from, to |-> sel.to, selected |-> ticked]
<1>1. /\ req' = [req EXCEPT ![j] = q] /\ j \notin sent /\ sent' = sent \cup {j}
      /\ agreed' = [agreed EXCEPT ![j] = shown]
      /\ UNCHANGED <<phase, worker, rules, endpoints, late, edits, preview, sel,
                     shown, ticked, previewOff, purpose, read>>
      /\ switchOff' = TRUE
  BY DEF PressSwitch, storeVars
<1>2. /\ q.from \in Offered /\ q.to \in Offered /\ q.selected = ticked
      /\ ticked \subseteq Rule
  BY DEF SessionTypeOK
<1>3. q \in Requests
  <2>1. q \in [from : Offered \cup {""}, to : Offered \cup {""},
               selected : SUBSET Rule]
    BY <1>2
  <2> QED BY <2>1, SessionAssumption
<1> HIDE DEF q
<1>4. TypeOK'
  BY <1>1, <1>3 DEF SessionTypeOK, TypeOK
<1>5. phase[j] = "received" /\ \A r \in Rule : worker[j][r] = NewWorker
  BY <1>1 DEF UnsentWait
<1>6. \A i \in Job : i # j => req'[i] = req[i]
  BY <1>1 DEF SessionTypeOK, TypeOK
<1>7. HandlersAccepted'
  BY <1>1, <1>5, <1>6 DEF IInv, HandlersAccepted
<1>8. WorkersAsked'
  <2> SUFFICES ASSUME NEW i \in Job, NEW r \in Rule
               PROVE  /\ worker[i][r].pc # "none" => Asked(i, r)'
                      /\ \A o \in worker[i][r].todo : PointsAt(o, req'[i].from)
    BY <1>1 DEF WorkersAsked
  <2>1. CASE i = j
    BY <1>5, <2>1 DEF NewWorker
  <2>2. CASE i # j
    BY <1>1, <1>6, <2>2 DEF IInv, WorkersAsked, Asked
  <2> QED BY <2>1, <2>2
<1>9. LateOrdered'
  <2> SUFFICES ASSUME NEW c \in late
               PROVE  Ordered(c)'
    BY <1>1 DEF LateOrdered
  <2>1. c \in Call /\ c.by \in Job /\ Ordered(c)
    BY DEF SessionTypeOK, TypeOK, Call, IInv, LateOrdered
  <2>2. c.by # j
    BY <1>5, <2>1 DEF Ordered, Asked
  <2>3. req'[c.by] = req[c.by]
    BY <1>6, <2>1, <2>2
  <2> QED BY <1>1, <2>1, <2>3 DEF Ordered, Asked
<1>10. SessionTypeOK'
  BY <1>1, <1>4 DEF SessionTypeOK
<1>11. UnsentWait' /\ PreviewsAccepted'
  BY <1>1 DEF UnsentWait, PreviewsAccepted
<1>12. SentAsShown'
  <2> SUFFICES ASSUME NEW i \in sent'
               PROVE  /\ req'[i].from \in Offered /\ req'[i].to \in Offered
                      /\ req'[i].selected \subseteq RulesOf(agreed'[i].plan)
    BY <1>1 DEF SentAsShown, RulesOf
  <2>1. CASE i = j
    BY <1>1, <1>2, <2>1 DEF SentAsShown, SessionTypeOK, TypeOK
  <2>2. CASE i # j
    BY <1>1, <1>6, <2>2 DEF SentAsShown, SessionTypeOK
  <2> QED BY <2>1, <2>2
<1> QED
  BY <1>4, <1>7, <1>8, <1>9, <1>10, <1>11, <1>12 DEF IInv

(* Else the page leaves requests and rules alone.                          *)
LEMMA PageKeeps ==
  ASSUME SessionInv, PageStep
  PROVE  SessionInv'
<1> USE DEF SessionInv
<1>1. CASE \E j \in Job : PressSwitch(j)
  BY <1>1, PressSwitchKeeps
<1>2. CASE /\ ~\E j \in Job : PressSwitch(j)
           /\ UNCHANGED <<vars, sent, agreed>>
  <2>1. IInv' /\ TypeOK'
    BY <1>2, StepKeeps DEF IInv
  <2>2. UnsentWait'
    BY <1>2 DEF UnsentWait, vars
  <2>3. /\ preview \in [Slot -> Preview] /\ shown \in Shown /\ ticked \subseteq Rule
        /\ sel \in [from : Offered, to : Offered] /\ Offered \subseteq HostText
    BY SessionAssumption DEF SessionTypeOK
  <2>4. \A j \in sent : /\ req'[j].from \in Offered /\ req'[j].to \in Offered
                        /\ req'[j].selected \subseteq RulesOf(agreed'[j].plan)
    BY <1>2 DEF vars, SentAsShown
  <2>5. CASE ChooseHosts
    <3>1. SessionTypeOK'
      BY <2>1, <2>5 DEF ChooseHosts, SessionTypeOK
    <3>2. PreviewsAccepted' /\ SentAsShown'
      BY <1>2, <2>4, <2>5 DEF ChooseHosts, PreviewsAccepted, SentAsShown
    <3> QED BY <2>1, <2>2, <3>1, <3>2
  <2>6. CASE TickRules
    <3>1. PICK tick \in SUBSET RulesOf(shown.plan) : Renders(tick)
      BY <2>6 DEF TickRules
    <3>2. tick \subseteq Rule
      BY DEF RulesOf
    <3>3. SessionTypeOK'
      BY <2>1, <2>6, <3>1, <3>2 DEF TickRules, Renders, SessionTypeOK
    <3>4. PreviewsAccepted' /\ SentAsShown'
      BY <1>2, <2>4, <2>6, <3>1 DEF TickRules, Renders, PreviewsAccepted,
                                    SentAsShown
    <3> QED BY <2>1, <2>2, <3>3, <3>4
  <2>7. ASSUME NEW p \in Slot, PressPreview(p)
        PROVE  SessionInv'
    <3>1. preview' \in [Slot -> Preview] /\ PreviewsAccepted'
      BY <2>3, <2>7, AskKeeps DEF PressPreview
    <3>2. SessionTypeOK'
      BY <2>1, <2>7, <3>1 DEF PressPreview, SessionTypeOK
    <3>3. SentAsShown'
      BY <1>2, <2>4, <2>7 DEF PressPreview, SentAsShown
    <3> QED BY <2>1, <2>2, <3>1, <3>2, <3>3
  <2>8. ASSUME NEW p \in Slot, ReadPlan(p)
        PROVE  SessionInv'
    <3>1. preview' \in [Slot -> Preview] /\ PreviewsAccepted'
      BY <2>8, ReadKeeps DEF ReadPlan
    <3>2. preview[p] \in Preview
      BY <2>3
    <3>3. shown' \in Shown
      BY <2>8, <3>2, NothingTyped DEF ReadPlan, Shown, Preview
    <3>4. ticked' = RulesOf(shown'.plan) /\ ticked' \subseteq Rule
      BY <2>8 DEF ReadPlan, RulesOf
    <3>5. purpose' \in [Slot -> {"none", "button", "refresh"}]
      BY <2>8 DEF ReadPlan, SessionTypeOK
    <3>6. previewOff' \in BOOLEAN /\ switchOff' \in BOOLEAN
      BY <2>8 DEF ReadPlan, SessionTypeOK
    <3>7. SessionTypeOK'
      BY <2>1, <2>8, <3>1, <3>3, <3>4, <3>5, <3>6 DEF ReadPlan, SessionTypeOK
    <3>8. SentAsShown'
      BY <1>2, <2>4, <3>4 DEF SentAsShown
    <3> QED BY <2>1, <2>2, <3>1, <3>7, <3>8
  <2>9. ASSUME NEW j \in Job, ReadResult(j)
        PROVE  SessionInv'
    <3>1. j \in sent /\ req[j].from \in HostText /\ req[j].to \in HostText
      BY <2>3, <2>9 DEF ReadResult, SentAsShown
    <3>2. /\ preview' \in [Slot -> Preview] /\ PreviewsAccepted'
          /\ purpose' \in [Slot -> {"none", "button", "refresh"}]
          /\ switchOff' \in BOOLEAN
      <4>1. CASE Switched(j) = {}
        <5>1. /\ switchOff' = FALSE /\ preview' = preview /\ purpose' = purpose
          BY <2>9, <4>1 DEF ReadResult
        <5> QED BY <2>3, <5>1 DEF PreviewsAccepted, SessionTypeOK
      <4>2. CASE Switched(j) # {}
        <5>1. PICK p \in Slot :
                /\ AskPreview(p, req[j].from, req[j].to)
                /\ purpose' = [purpose EXCEPT ![p] = "refresh"]
                /\ UNCHANGED switchOff
          BY <2>9, <4>2 DEF ReadResult
        <5> QED BY <3>1, <5>1, AskKeeps DEF SessionTypeOK
      <4> QED BY <4>1, <4>2
    <3>3. /\ read' = read \cup {j}
          /\ UNCHANGED <<sel, shown, ticked, previewOff, sent, agreed>>
      BY <2>9 DEF ReadResult
    <3>4. SessionTypeOK'
      BY <2>1, <3>1, <3>2, <3>3 DEF SessionTypeOK
    <3>5. SentAsShown'
      BY <1>2, <2>4, <3>3 DEF SentAsShown
    <3> QED BY <2>1, <2>2, <3>2, <3>4, <3>5
  <2> QED BY <1>2, <2>5, <2>6, <2>7, <2>8, <2>9 DEF PageStep
<1>3. \/ \E j \in Job : PressSwitch(j)
      \/ UNCHANGED <<vars, sent, agreed>>
  BY DEF PageStep, ChooseHosts, TickRules, PressPreview, ReadPlan, ReadResult
<1> QED
  BY <1>1, <1>2, <1>3

LEMMA SessionKeeps ==
  ASSUME SessionInv, [SessionNext]_sessionVars
  PROVE  SessionInv'
<1>1. CASE ServerStep
  <2>1. IInv' /\ TypeOK' /\ UNCHANGED pageVars
    BY <1>1, ServerIsSwitch, StepKeeps DEF SessionInv, IInv
  <2>2. UnsentWait' /\ req' = req
    BY <1>1, ServerKeepsUnsent
  <2>3. preview' \in [Slot -> Preview] /\ PreviewsAccepted'
    BY <1>1, PreviewKeeps
       DEF ServerStep, SessionInv, SessionTypeOK, PreviewsAccepted
  <2>4. SessionTypeOK'
    BY <2>1, <2>3 DEF pageVars, SessionInv, SessionTypeOK
  <2>5. SentAsShown'
    BY <2>1, <2>2 DEF pageVars, SessionInv, SentAsShown
  <2> QED BY <2>1, <2>2, <2>3, <2>4, <2>5 DEF SessionInv
<1>2. CASE PageStep
  BY <1>2, PageKeeps
<1>3. CASE UNCHANGED sessionVars
  <2>1. UNCHANGED <<vars, preview, pageVars>>
    BY <1>3 DEF sessionVars
  <2>2. IInv' /\ TypeOK'
    BY <2>1, StepKeeps DEF SessionInv, IInv
  <2>3. UnsentWait' /\ PreviewsAccepted' /\ SentAsShown'
    BY <2>1 DEF vars, pageVars, SessionInv, UnsentWait, PreviewsAccepted,
                SentAsShown
  <2>4. SessionTypeOK'
    BY <2>1, <2>2 DEF pageVars, SessionInv, SessionTypeOK
  <2> QED BY <2>2, <2>3, <2>4 DEF SessionInv
<1> QED
  BY <1>1, <1>2, <1>3 DEF SessionNext

(* However answers come and the user goes on, the page holds plans of      *)
(* actions, ticks rules of the plan it shows, and sends what the server    *)
(* takes for a request.                                                    *)
THEOREM SessionTyped == SessionSpec => []SessionTypeOK
<1>1. SessionInv /\ [SessionNext]_sessionVars => SessionInv'
  BY SessionKeeps
<1>2. SessionInv => SessionTypeOK
  BY DEF SessionInv
<1> QED
  BY <1>1, <1>2, InitSession, PTL DEF SessionSpec

-----------------------------------------------------------------------------
(* What the results say of the listing, step by step.                      *)

(* One worker moves on, the others stay as they are.                       *)
LEMMA BecomesDecided ==
  ASSUME TypeOK, AllDecided, NEW j \in Job, NEW r \in Rule, NEW v,
         Becomes(j, r, v), Decided(req[j], v)
  PROVE  AllDecided'
<1> SUFFICES ASSUME NEW i \in Job, NEW s \in Rule
             PROVE  Decided(req[i], worker'[i][s])
  BY DEF AllDecided, Becomes
<1>1. CASE i = j /\ s = r
  <2>1. worker'[i][s] = v
    BY <1>1 DEF Becomes, TypeOK
  <2> QED BY <1>1, <2>1
<1>2. CASE ~(i = j /\ s = r)
  <2>1. worker'[i][s] = worker[i][s]
    BY <1>2 DEF Becomes, TypeOK
  <2> QED BY <2>1 DEF AllDecided
<1> QED
  BY <1>1, <1>2

(* A line about o that fits the listing.                                   *)
Fitting(q, u, o, e) ==
  /\ e.at = {o}
  /\ e.what \in {"moved", "update"} => ToRename(q, u, o)
  /\ e.what \in {"dropped", "remove"} => ToRetire(q, u, o)
  /\ e.kind = "skipped" => ~Touches(u, o, q.from, q.to)

LEMMA ContinueDecided ==
  ASSUME TypeOK, AllDecided, NEW j \in Job, NEW r \in Rule, NEW o, NEW e,
         Fitting(req[j], worker[j][r].snap, o, e), Continue(j, r, o, e)
  PROVE  AllDecided' /\ worker'[j][r].pc = "looping"
<1> DEFINE w == worker[j][r]
           v == Onward(w, o, e)
<1>1. w \in Worker /\ Decided(req[j], w)
  BY DEF TypeOK, AllDecided
<1>2. /\ v.pc = "looping" /\ v.snap = w.snap /\ v.log = w.log \cup {e}
  BY <1>1 DEF Worker, Onward
<1>3. Becomes(j, r, v)
  BY DEF Continue, Onward
<1> HIDE DEF v
<1>4. Decided(req[j], v)
  BY <1>1, <1>2 DEF Decided, Fitting, Busy
<1>5. worker'[j][r] = v
  BY <1>3 DEF Becomes, TypeOK
<1> QED
  BY <1>2, <1>3, <1>4, <1>5, BecomesDecided

(* The next origin of the loop is one of the listing, at the source host.  *)
LEMMA NextIsMatched ==
  ASSUME IInv, AllAccount, NEW j \in Job, NEW r \in Rule,
         NEW o \in worker[j][r].todo, worker[j][r].pc = "looping"
  PROVE  /\ o \in Present(worker[j][r].snap) /\ o \in Origin
         /\ PointsAt(o, req[j].from)
         /\ worker[j][r].snap[o] \in {"inactive", "active"}
<1>1. Accounts(req[j].from, worker[j][r]) /\ worker[j][r] \in Worker
  BY DEF AllAccount, IInv, TypeOK
<1>2. o \in Matched(req[j].from, worker[j][r].snap)
  BY <1>1 DEF Accounts
<1> QED
  BY <1>1, <1>2 DEF Matched, Present, Worker, Upstreams, Status

(* The results of a step of the loop fit the listing, and so does the call *)
(* it makes.                                                               *)
LEMMA LoopSwitches ==
  ASSUME IInv, AllAccount, AllDecided, NEW j \in Job, NEW r \in Rule,
         NEW o \in worker[j][r].todo, LoopStep(j, r, o)
  PROVE  /\ AllDecided' /\ worker[j][r].pc \in Busy /\ worker'[j][r].pc \in Busy
         /\ \/ UNCHANGED storeVars
            \/ \E c \in Call, ok \in BOOLEAN :
                 /\ c.by = j /\ c.rule = r
                 /\ Switches(req[j], c) /\ Answers(c, ok)
<1> DEFINE w == worker[j][r]
           q == req[j]
           u == w.snap
           new == SwitchOriginHost(o, q.to)
<1>1. /\ TypeOK /\ w \in Worker /\ Decided(q, w)
      /\ w.pc \in {"looping", "activated"}
  BY DEF IInv, TypeOK, AllDecided, LoopStep, SkipAtTarget, SkipExisting,
         ActivateCounterpart, RemoveOrigin, MoveOrigin, MayRemove, ToDrop, IsNext
<1>2. Asked(j, r) /\ q.to \in HostText /\ o \in Origin /\ PointsAt(o, q.from)
  <2>1. Asked(j, r) /\ o \in Origin /\ PointsAt(o, q.from)
    BY <1>1 DEF IInv, WorkersAsked, Worker
  <2> QED BY <2>1, AskedTyped
<1>3. new \in Origin /\ Bare[new.host] = Bare[q.to]
  BY <1>2, SwitchTyped
<1>4. w.pc = "looping" => /\ o \in Present(u)
                          /\ u[o] \in {"inactive", "active"}
  BY NextIsMatched
<1>5. w.pc \in Busy
  BY <1>1 DEF Busy
<1>6. CASE SkipAtTarget(j, r, o) \/ SkipExisting(j, r, o)
  <2>1. PICK what :
          /\ Continue(j, r, o, Reports("skipped", what, o))
          /\ what \in {"at target", "exists"}
          /\ UNCHANGED storeVars
    BY <1>6 DEF SkipAtTarget, SkipExisting
  <2>2. ~Touches(u, o, q.from, q.to)
    BY <1>6 DEF SkipAtTarget, SkipExisting, Touches
  <2>3. Fitting(q, u, o, Reports("skipped", what, o))
    BY <2>1, <2>2 DEF Fitting, Reports
  <2> QED BY <1>1, <1>5, <2>1, <2>3, ContinueDecided DEF Busy
<1>7. CASE ActivateCounterpart(j, r, o)
  <2> DEFINE c == UpdateUpstream(j, r, new, new, TRUE)
  <2>1. PICK ok \in BOOLEAN :
          /\ Answers(c, ok)
          /\ Becomes(j, r, Between(w, o, ok))
    BY <1>7 DEF ActivateCounterpart, Between
  <2>2. ToRetire(q, u, o)
    BY <1>2, <1>4, <1>7
       DEF ActivateCounterpart, ToDrop, IsNext, ToRetire, Touches
  <2>3. /\ c \in Call /\ c.by = j /\ c.rule = r /\ Switches(q, c)
    BY <1>2, <1>3 DEF UpdateUpstream, Call, Switches
  <2> DEFINE v == Between(w, o, ok)
             e == Reports("error", "activate", o)
  <2>4. /\ v.pc = "activated" /\ v.snap = u /\ v.cur = {o}
        /\ v.log = IF ok THEN w.log ELSE w.log \cup {e}
    BY <1>1 DEF Between, Worker
  <2>5. e.what = "activate" /\ e.kind = "error" /\ e.at = {o}
    BY DEF Reports
  <2> HIDE DEF v, e, c
  <2>6. v.log \subseteq w.log \cup {e}
    BY <2>4
  <2>7. Decided(q, v)
    <3> HIDE DEF q, u
    <3>1. ASSUME NEW f \in v.log, NEW p \in f.at
          PROVE  /\ f.what \in {"moved", "update"} => ToRename(q, u, p)
                 /\ f.what \in {"dropped", "remove"} => ToRetire(q, u, p)
                 /\ f.kind = "skipped" => ~Touches(u, p, q.from, q.to)
      <4>1. CASE f = e
        BY <2>5, <4>1
      <4>2. CASE f \in w.log
        BY <1>1, <3>1, <4>2 DEF Decided, u
      <4> QED BY <2>6, <3>1, <4>1, <4>2
    <3> QED BY <2>2, <2>4, <3>1 DEF Decided, Busy
  <2>8. worker'[j][r] = v
    BY <1>1, <2>1 DEF Becomes, TypeOK, v
  <2>9. AllDecided'
    BY <1>1, <2>1, <2>7, BecomesDecided DEF v
  <2> QED BY <1>5, <2>1, <2>3, <2>4, <2>8, <2>9 DEF Busy, c
<1>8. CASE RemoveOrigin(j, r, o)
  <2> DEFINE c == RemoveUpstream(j, r, o)
  <2>1. PICK ok \in BOOLEAN :
          /\ Answers(c, ok)
          /\ Continue(j, r, o, IF ok THEN Reports("switched", "dropped", o)
                                     ELSE Reports("error", "remove", o))
    BY <1>8 DEF RemoveOrigin
  <2>2. ToRetire(q, u, o)
    <3>1. CASE w.pc = "activated" /\ o \in w.cur
      BY <1>1, <3>1 DEF Decided
    <3>2. CASE ToDrop(w, o, q.to)
      BY <1>2, <1>4, <3>2 DEF ToDrop, IsNext, ToRetire, Touches
    <3> QED BY <1>8, <3>1, <3>2 DEF RemoveOrigin, MayRemove
  <2>3. c \in Call /\ c.by = j /\ c.rule = r /\ Switches(q, c)
    BY <1>2 DEF RemoveUpstream, Call, Switches
  <2>4. /\ Fitting(q, u, o, Reports("switched", "dropped", o))
        /\ Fitting(q, u, o, Reports("error", "remove", o))
    BY <2>2 DEF Fitting, Reports
  <2>5. AllDecided' /\ worker'[j][r].pc = "looping"
    BY <1>1, <2>1, <2>4, ContinueDecided
  <2> HIDE DEF c
  <2> QED BY <1>5, <2>1, <2>3, <2>5 DEF Busy
<1>9. CASE MoveOrigin(j, r, o)
  <2> DEFINE c == UpdateUpstream(j, r, o, new, w.snap[o] = "active")
  <2>1. PICK ok \in BOOLEAN :
          /\ Answers(c, ok)
          /\ Continue(j, r, o, IF ok THEN Reports("switched", "moved", o)
                                     ELSE Reports("error", "update", o))
    BY <1>9 DEF MoveOrigin
  <2>2. ToRename(q, u, o)
    BY <1>2, <1>4, <1>9 DEF MoveOrigin, IsNext, ToRename, Touches
  <2>3. c \in Call /\ c.by = j /\ c.rule = r /\ Switches(q, c)
    BY <1>2, <1>3 DEF UpdateUpstream, Call, Switches, Target
  <2>4. /\ Fitting(q, u, o, Reports("switched", "moved", o))
        /\ Fitting(q, u, o, Reports("error", "update", o))
    BY <2>2 DEF Fitting, Reports
  <2>5. AllDecided' /\ worker'[j][r].pc = "looping"
    BY <1>1, <2>1, <2>4, ContinueDecided
  <2> HIDE DEF c
  <2> QED BY <1>5, <2>1, <2>3, <2>5 DEF Busy
<1> QED
  BY <1>6, <1>7, <1>8, <1>9 DEF LoopStep

(* A worker takes its listing once, and keeps it.                          *)
ListsOnce(j, r) ==
  IF worker[j][r].pc \in Busy
  THEN /\ worker'[j][r].pc \in Busy
       /\ worker'[j][r].snap = worker[j][r].snap
  ELSE worker'[j][r].pc \in Busy =>
         /\ worker'[j][r].snap \in {rules[r], NoUpstreams}
         /\ "list" \notin Faults /\ r \in endpoints =>
              worker'[j][r].snap = rules[r]
         /\ UNCHANGED storeVars

LEMMA LoopKeepsListing ==
  ASSUME TypeOK, NEW j \in Job, NEW r \in Rule, NEW o, LoopStep(j, r, o)
  PROVE  worker'[j][r].snap = worker[j][r].snap
<1> DEFINE w == worker[j][r]
<1>1. w \in Worker
  BY DEF TypeOK
<1>2. CASE ActivateCounterpart(j, r, o)
  <2>1. PICK ok : Becomes(j, r, Between(w, o, ok))
    BY <1>2 DEF ActivateCounterpart, Between
  <2>2. Between(w, o, ok).snap = w.snap
    BY <1>1 DEF Between, Worker
  <2> QED BY <2>1, <2>2 DEF Becomes, TypeOK
<1>3. CASE ~ActivateCounterpart(j, r, o)
  <2>1. PICK e : Becomes(j, r, Onward(w, o, e))
    <3>1. \E e : Continue(j, r, o, e)
      BY <1>3 DEF LoopStep, SkipAtTarget, SkipExisting, RemoveOrigin, MoveOrigin
    <3> QED BY <3>1 DEF Continue, Onward
  <2>2. Onward(w, o, e).snap = w.snap
    BY <1>1 DEF Onward, Worker
  <2> QED BY <2>1, <2>2 DEF Becomes, TypeOK
<1> QED
  BY <1>2, <1>3

LEMMA WorkerSwitches ==
  ASSUME IInv, AllAccount, AllDecided, NEW j \in Job, NEW r \in Rule,
         WorkerStep(j, r)
  PROVE  /\ AllDecided' /\ ListsOnce(j, r)
         /\ worker[j][r].pc # "none" /\ worker'[j][r].pc # "none"
         /\ worker[j][r].pc # "done"
         /\ \/ UNCHANGED storeVars
            \/ \E c \in Call, ok \in BOOLEAN :
                 /\ c.by = j /\ c.rule = r /\ worker[j][r].pc \in Busy
                 /\ Switches(req[j], c) /\ Answers(c, ok)
<1> DEFINE w == worker[j][r]
           q == req[j]
<1>1. TypeOK /\ w \in Worker /\ Decided(q, w)
  BY DEF IInv, TypeOK, AllDecided
<1>2. CASE Acquire(j, r) \/ Publish(j, r)
  <2>1. PICK p : /\ Becomes(j, r, [w EXCEPT !.pc = p])
                 /\ UNCHANGED storeVars
                 /\ \/ w.pc = "queued" /\ p = "running"
                    \/ w.pc = "looping" /\ p = "done"
    BY <1>2 DEF Acquire, Publish
  <2> DEFINE v == [w EXCEPT !.pc = p]
  <2>2. v.pc = p /\ v.snap = w.snap /\ v.log = w.log
    BY <1>1 DEF Worker
  <2>3. worker'[j][r] = v /\ Becomes(j, r, v)
    BY <1>1, <2>1 DEF Becomes, TypeOK
  <2> HIDE DEF v
  <2>4. Decided(q, v)
    BY <1>1, <2>1, <2>2 DEF Decided, Busy
  <2>5. AllDecided'
    BY <1>1, <2>3, <2>4, BecomesDecided
  <2>6. ListsOnce(j, r)
    BY <2>1, <2>2, <2>3 DEF ListsOnce, Busy
  <2> QED BY <2>1, <2>2, <2>3, <2>5, <2>6
<1>3. CASE \/ ListUpstreams(j, r) \/ ListAnsweredWithErrorBody(j, r)
           \/ ListUpstreamsFails(j, r)
  <2>1. PICK u, g :
          /\ Lists(j, r, u, g) /\ UNCHANGED storeVars /\ w.pc = "running"
          /\ u \in {rules[r], NoUpstreams}
          /\ "list" \notin Faults /\ r \in endpoints => u = rules[r]
          /\ \A e \in g : e.at = {}
    BY <1>3 DEF ListUpstreams, ListAnsweredWithErrorBody, ListUpstreamsFails
  <2> DEFINE v == [w EXCEPT !.pc = "looping", !.snap = u,
                            !.todo = {o \in Present(u) : PointsAt(o, q.from)},
                            !.log = g]
  <2>2. v.pc = "looping" /\ v.snap = u /\ v.log = g
    BY <1>1 DEF Worker
  <2>3. worker'[j][r] = v /\ Becomes(j, r, v)
    BY <1>1, <2>1 DEF Lists, Becomes, TypeOK
  <2> HIDE DEF v
  <2>4. Decided(q, v)
    BY <2>1, <2>2 DEF Decided, Busy
  <2>5. AllDecided'
    BY <1>1, <2>3, <2>4, BecomesDecided
  <2>6. ListsOnce(j, r)
    BY <2>1, <2>2, <2>3 DEF ListsOnce, Busy
  <2> QED BY <2>1, <2>2, <2>3, <2>5, <2>6
<1>4. ASSUME NEW o \in w.todo, LoopStep(j, r, o)
      PROVE  /\ AllDecided' /\ ListsOnce(j, r)
             /\ w.pc \in {"looping", "activated"} /\ worker'[j][r].pc # "none"
             /\ \/ UNCHANGED storeVars
                \/ \E c \in Call, ok \in BOOLEAN :
                     /\ c.by = j /\ c.rule = r /\ w.pc \in Busy
                     /\ Switches(req[j], c) /\ Answers(c, ok)
  <2>1. /\ AllDecided' /\ w.pc \in Busy /\ worker'[j][r].pc \in Busy
        /\ \/ UNCHANGED storeVars
           \/ \E c \in Call, ok \in BOOLEAN :
                /\ c.by = j /\ c.rule = r
                /\ Switches(req[j], c) /\ Answers(c, ok)
    BY <1>4, LoopSwitches
  <2>2. worker'[j][r].snap = w.snap
    BY <1>1, <1>4, LoopKeepsListing
  <2>3. w.pc \in {"looping", "activated"}
    BY <1>4 DEF LoopStep, SkipAtTarget, SkipExisting, ActivateCounterpart,
                RemoveOrigin, MoveOrigin, MayRemove, ToDrop, IsNext
  <2> QED BY <2>1, <2>2, <2>3 DEF ListsOnce, Busy
<1> QED
  BY <1>2, <1>3, <1>4 DEF WorkerStep

(* What changes in a step is what a call of a worker does that has its     *)
(* listing.                                                                *)
OnlySwitches ==
  \/ rules' = rules
  \/ \E c \in Call :
       /\ Asked(c.by, c.rule) /\ worker[c.by][c.rule].pc \in Busy
       /\ Switches(req[c.by], c) /\ Accepts(c) /\ Apply(c)

LEMMA InitSwitches == Init => SwitchInv
<1> SUFFICES ASSUME Init PROVE SwitchInv
  OBVIOUS
<1>1. AllDecided
  BY DEF Init, AllDecided, Decided, NewWorker
<1>2. LateSwitches /\ AllAtWork
  BY DEF Init, LateSwitches, AllAtWork
<1> QED
  BY <1>1, <1>2, InitAccounts DEF SwitchInv

LEMMA HandlerSwitches ==
  ASSUME IInv, SwitchInv, NEW j \in Job, HandlerStep(j)
  PROVE  /\ SwitchInv' /\ rules' = rules
         /\ \A i \in Job, r \in Rule :
              /\ worker'[i][r].snap = worker[i][r].snap
              /\ worker'[i][r].pc \in Busy <=> worker[i][r].pc \in Busy
<1> USE DEF SwitchInv
<1>1. /\ req' = req /\ rules' = rules /\ late' = late /\ endpoints' = endpoints
  BY DEF HandlerStep, Receive, ListEndpointsFails, StartWorkers, Reply, storeVars
<1>2. /\ phase \in [Job -> Phase] /\ worker \in [Job -> [Rule -> Worker]]
      /\ late \subseteq Call
  BY DEF IInv, TypeOK
<1>3. ASSUME NEW i \in Job, NEW r \in Rule
      PROVE  \/ worker'[i][r] = worker[i][r]
             \/ /\ worker[i][r].pc = "none" /\ worker'[i][r].pc = "queued"
                /\ worker'[i][r].snap = worker[i][r].snap
                /\ worker'[i][r].log = worker[i][r].log
                /\ i = j /\ r \in req[j].selected
  <2>1. CASE StartWorkers(j)
    <3>1. phase[j] = "listing"
      BY <2>1 DEF StartWorkers
    <3>2. worker[j][r].pc = "none"
      BY <3>1 DEF IInv, WorkersAsked, Asked
    <3>3. \/ worker'[i][r] = worker[i][r]
          \/ /\ worker'[i][r] = Queued(worker[j][r])
             /\ i = j /\ r \in req[j].selected
      BY <1>2, <2>1 DEF StartWorkers
    <3>4. LET x == Queued(worker[j][r])
          IN  /\ x.pc = "queued" /\ x.snap = worker[j][r].snap
              /\ x.log = worker[j][r].log
      BY <1>2 DEF Queued, Worker
    <3> QED BY <3>2, <3>3, <3>4
  <2>2. CASE ~StartWorkers(j)
    BY <2>2 DEF HandlerStep, Receive, ListEndpointsFails, Reply
  <2> QED BY <2>1, <2>2
<1>4. AllDecided'
  BY <1>1, <1>3 DEF AllDecided, Decided, Busy
<1>5. AllAccount'
  BY HandlerAccounts DEF IInv
<1>6. LateSwitches'
  <2> SUFFICES ASSUME NEW c \in late
               PROVE  worker'[c.by][c.rule].pc \in Busy /\ Switches(req[c.by], c)
    BY <1>1 DEF LateSwitches
  <2>1. c.by \in Job /\ c.rule \in Rule
    BY <1>2 DEF Call
  <2>2. worker[c.by][c.rule].pc \in Busy /\ Switches(req[c.by], c)
    BY DEF LateSwitches
  <2> QED BY <1>3, <2>1, <2>2 DEF Busy
<1>7. AllAtWork'
  <2> SUFFICES ASSUME NEW i \in Job
               PROVE  /\ phase'[i] \in {"waiting", "replied"} =>
                           \A r \in req[i].selected : worker'[i][r].pc # "none"
                      /\ phase'[i] = "replied" =>
                           \A r \in Rule : worker'[i][r].pc \in {"none", "done"}
    BY <1>1 DEF AllAtWork
  <2>0. req[i].selected \subseteq Rule
    <3>1. req[i] \in [from : HostText \cup {""}, to : HostText \cup {""},
                      selected : SUBSET Rule]
      BY SwitchAssumption DEF IInv, TypeOK
    <3> QED BY <3>1
  <2>1. CASE i # j
    <3>1. phase'[i] = phase[i]
      BY <1>2, <2>1 DEF HandlerStep, Receive, ListEndpointsFails, StartWorkers,
                        Reply, Moves
    <3>2. \A r \in Rule : worker'[i][r] = worker[i][r]
      BY <1>3, <2>1
    <3> QED BY <2>0, <3>1, <3>2 DEF AllAtWork
  <2>2. CASE i = j
    <3>1. CASE Receive(j) \/ ListEndpointsFails(j)
      BY <1>2, <2>2, <3>1 DEF Receive, ListEndpointsFails, Moves
    <3>2. CASE StartWorkers(j)
      <4>1. phase'[j] = "waiting"
        BY <1>2, <3>2 DEF StartWorkers, Moves
      <4>2. ASSUME NEW r \in req[j].selected
            PROVE  worker'[j][r] = Queued(worker[j][r]) /\ worker[j][r] \in Worker
        BY <1>2, <2>0, <2>2, <3>2, <4>2 DEF StartWorkers, AllAtWork
      <4> QED BY <2>2, <4>1, <4>2 DEF Queued, Worker
    <3>3. CASE Reply(j)
      BY <1>2, <2>2, <3>3 DEF Reply, Moves, AllAtWork
    <3> QED BY <3>1, <3>2, <3>3 DEF HandlerStep
  <2> QED BY <2>1, <2>2
<1> QED
  BY <1>1, <1>3, <1>4, <1>5, <1>6, <1>7 DEF Busy

LEMMA WorkerKeepsSwitches ==
  ASSUME IInv, SwitchInv, NEW j \in Job, NEW r \in Rule, WorkerStep(j, r)
  PROVE  /\ SwitchInv' /\ OnlySwitches
         /\ \A i \in Job, s \in Rule : ListsOnce(i, s)
<1> USE DEF SwitchInv
<1>1. /\ AllDecided' /\ ListsOnce(j, r)
      /\ worker[j][r].pc # "none" /\ worker'[j][r].pc # "none"
      /\ worker[j][r].pc # "done"
      /\ \/ UNCHANGED storeVars
         \/ \E c \in Call, ok \in BOOLEAN :
              /\ c.by = j /\ c.rule = r /\ worker[j][r].pc \in Busy
              /\ Switches(req[j], c) /\ Answers(c, ok)
  BY WorkerSwitches
<1>2. /\ phase' = phase /\ req' = req
      /\ \A i \in Job, s \in Rule :
           i # j \/ s # r => worker'[i][s] = worker[i][s]
  BY WorkerAlone DEF IInv
<1>3. ASSUME NEW i \in Job, NEW s \in Rule
      PROVE  ListsOnce(i, s)
  <2>1. CASE i = j /\ s = r
    BY <1>1, <2>1
  <2>2. CASE ~(i = j /\ s = r)
    BY <1>2, <2>2 DEF ListsOnce
  <2> QED BY <2>1, <2>2
<1>4. AllAccount'
  BY WorkerAccounts DEF IInv
<1>5. /\ endpoints' = endpoints /\ OnlySwitches
      /\ \A c \in late' : c \in Call /\ \/ c \in late
                                        \/ /\ c.by = j /\ c.rule = r
                                           /\ worker[j][r].pc \in Busy
                                           /\ Switches(req[j], c)
  <2>1. late \subseteq Call /\ TypeOK
    BY DEF IInv, TypeOK
  <2>2. CASE UNCHANGED storeVars
    BY <2>1, <2>2 DEF storeVars, OnlySwitches
  <2>3. CASE ~UNCHANGED storeVars
    <3>1. PICK c \in Call, ok \in BOOLEAN :
            /\ c.by = j /\ c.rule = r /\ worker[j][r].pc \in Busy
            /\ Switches(req[j], c) /\ Answers(c, ok)
      BY <1>1, <2>3
    <3>2. /\ late' \subseteq late \cup {c} /\ endpoints' = endpoints
      BY <2>1, <3>1, AnswersTyped
    <3>3. Asked(j, r)
      BY <1>1 DEF IInv, WorkersAsked
    <3>4. OnlySwitches
      BY <3>1, <3>3
         DEF Answers, Succeeds, IsRefused, TimesOut, storeVars, OnlySwitches
    <3> QED BY <2>1, <3>1, <3>2, <3>4
  <2> QED BY <2>2, <2>3
<1>6. LateSwitches'
  <2> SUFFICES ASSUME NEW c \in late'
               PROVE  worker'[c.by][c.rule].pc \in Busy /\ Switches(req[c.by], c)
    BY <1>2 DEF LateSwitches
  <2>1. c.by \in Job /\ c.rule \in Rule
    BY <1>5 DEF Call
  <2>2. worker[c.by][c.rule].pc \in Busy /\ Switches(req[c.by], c)
    BY <1>5 DEF LateSwitches
  <2> QED BY <1>3, <2>1, <2>2 DEF ListsOnce
<1>7. AllAtWork'
  <2> SUFFICES ASSUME NEW i \in Job
               PROVE  /\ phase[i] \in {"waiting", "replied"} =>
                           \A s \in req[i].selected : worker'[i][s].pc # "none"
                      /\ phase[i] = "replied" =>
                           \A s \in Rule : worker'[i][s].pc \in {"none", "done"}
    BY <1>2, <1>5 DEF AllAtWork
  <2>1. req[i].selected \subseteq Rule
    <3>1. req[i] \in [from : HostText \cup {""}, to : HostText \cup {""},
                      selected : SUBSET Rule]
      BY SwitchAssumption DEF IInv, TypeOK
    <3> QED BY <3>1
  <2>2. phase[j] # "replied"
    BY <1>1 DEF AllAtWork
  <2>3. ASSUME NEW s \in Rule
        PROVE  worker[i][s].pc # "none" => worker'[i][s].pc # "none"
    BY <1>1, <1>2
  <2>4. phase[i] = "replied" => \A s \in Rule : worker'[i][s] = worker[i][s]
    BY <1>2, <2>2
  <2> QED BY <2>1, <2>3, <2>4 DEF AllAtWork
<1> QED
  BY <1>1, <1>3, <1>4, <1>5, <1>6, <1>7

LEMMA StepSwitches ==
  ASSUME MaxEdits = 0, IInv, SwitchInv, [Next]_vars
  PROVE  /\ SwitchInv' /\ OnlySwitches
         /\ \A i \in Job, s \in Rule : ListsOnce(i, s)
<1>1. ASSUME NEW j \in Job, HandlerStep(j)
      PROVE  /\ SwitchInv' /\ OnlySwitches
             /\ \A i \in Job, s \in Rule : ListsOnce(i, s)
  BY <1>1, HandlerSwitches DEF OnlySwitches, ListsOnce
<1>2. CASE StoreStep \/ UNCHANGED vars
  <2>1. /\ UNCHANGED <<phase, req, worker>>
        /\ \/ UNCHANGED storeVars
           \/ \E c \in late : /\ late' = late \ {c}
                              /\ rules' = rules \/ (Accepts(c) /\ Apply(c))
                              /\ UNCHANGED <<endpoints, edits>>
    <3>1. CASE UNCHANGED vars
      BY <3>1 DEF vars, storeVars
    <3>2. CASE StoreStep
      <4>1. ~OthersAct
        <5>1. edits \in 0..0
          BY DEF IInv, TypeOK
        <5> QED BY <5>1 DEF OthersAct, AdminSetsOrigin, AdminDeletesRule,
                            ApplyUpstream, Edit
      <4> QED BY <3>2, <4>1 DEF StoreStep, ArriveLate
    <3> QED BY <1>2, <3>1, <3>2
  <2>2. AllAccount' /\ AllDecided' /\ \A i \in Job, s \in Rule : ListsOnce(i, s)
    BY <2>1 DEF SwitchInv, AllAccount, AllDecided, ListsOnce
  <2>3. endpoints' = endpoints /\ late' \subseteq late
    BY <2>1 DEF storeVars
  <2>4. LateSwitches' /\ AllAtWork'
    BY <2>1, <2>3 DEF SwitchInv, LateSwitches, AllAtWork
  <2>5. OnlySwitches
    <3>1. CASE UNCHANGED storeVars
      BY <3>1 DEF storeVars, OnlySwitches
    <3>2. CASE \E c \in late : rules' = rules \/ (Accepts(c) /\ Apply(c))
      <4>1. PICK c \in late : rules' = rules \/ (Accepts(c) /\ Apply(c))
        BY <3>2
      <4>2. /\ c \in Call /\ Asked(c.by, c.rule)
            /\ worker[c.by][c.rule].pc \in Busy /\ Switches(req[c.by], c)
        BY DEF IInv, TypeOK, LateOrdered, Ordered, SwitchInv, LateSwitches
      <4> QED BY <4>1, <4>2 DEF OnlySwitches
    <3> QED BY <2>1, <3>1, <3>2
  <2> QED BY <2>2, <2>4, <2>5 DEF SwitchInv
<1> QED
  BY <1>1, <1>2, WorkerKeepsSwitches DEF Next, Finished

-----------------------------------------------------------------------------
(* What switches between two hosts do to a rule, and to a plan for it.     *)

Apart(q) == Fold[Bare[q.to]] # Fold[q.from]

(* Origins of the source host may only disappear, all others stay, and     *)
(* what is new has taken the place of one that is gone.                    *)
Drains(q, u, v) ==
  /\ \A o \in Origin : PointsAt(o, q.from) => v[o] \in {u[o], "absent"}
  /\ \A o \in Present(u) : PointsAt(o, q.from) \/ o \in Present(v)
  /\ \A o \in Present(v) \ Present(u) :
       \E p \in Present(u) \ Present(v) :
         PointsAt(p, q.from) /\ o = Target(q, p)

LEMMA TargetApart ==
  ASSUME NEW q, q.to \in HostText, Apart(q), NEW o \in Origin, NEW p \in Origin,
         Key(p) = Key(Target(q, o))
  PROVE  ~PointsAt(p, q.from)
<1> DEFINE new == Target(q, o)
<1>1. new \in Origin /\ Bare[new.host] = Bare[q.to]
  BY SwitchTyped DEF Target
<1> HIDE DEF new
<1>2. new.host \in HostText /\ p.host \in HostText
  BY <1>1 DEF Origin
<1>3. Fold[p.host] = Fold[new.host]
  BY DEF Key, new
<1>4. Fold[Bare[p.host]] = Fold[Bare[new.host]]
  BY <1>2, <1>3, TextAssumption
<1> QED
  BY <1>1, <1>4 DEF PointsAt, Apart

LEMMA SwitchDrains ==
  ASSUME NEW q, q.to \in HostText, Apart(q), NEW u \in Upstreams, NEW c \in Call,
         Switches(q, c), Fits(u, c)
  PROVE  Drains(q, u, Applied(u, c))
<1> DEFINE v == Applied(u, c)
<1>1. /\ c.old \in Origin /\ c.new \in Origin /\ u[c.old] # "absent"
      /\ u \in [Origin -> Status]
  BY DEF Call, Fits, Upstreams
<1>2. CASE c.op = "remove"
  <2>1. \A o \in Origin : v[o] = IF o = c.old THEN "absent" ELSE u[o]
    BY <1>1, <1>2 DEF Applied
  <2>2. PointsAt(c.old, q.from)
    BY <1>2 DEF Switches
  <2> HIDE DEF v
  <2> QED BY <1>1, <2>1, <2>2 DEF Drains, Present, v
<1>3. CASE c.op # "remove"
  <2>1. \A o \in Origin : v[o] = IF o = c.new THEN StatusOf(c.active)
                                 ELSE IF o = c.old THEN "absent" ELSE u[o]
    BY <1>1, <1>3 DEF Applied
  <2>2. StatusOf(c.active) # "absent"
    BY DEF StatusOf
  <2>3. CASE c.old = c.new /\ Bare[c.new.host] = Bare[q.to]
    <3>1. ~PointsAt(c.old, q.from)
      BY <2>3 DEF PointsAt, Apart
    <3> HIDE DEF v
    <3> QED BY <1>1, <2>1, <2>2, <2>3, <3>1 DEF Drains, Present, v
  <2>4. CASE c.new = Target(q, c.old) /\ PointsAt(c.old, q.from)
    <3>1. ~PointsAt(c.new, q.from)
      BY <1>1, <2>4, TargetApart
    <3>2. c.new # c.old /\ c.op = "update"
      BY <1>3, <2>4, <3>1 DEF Call
    <3>3. u[c.new] = "absent"
      BY <3>2 DEF Fits
    <3>4. c.old \in Present(u) \ Present(v)
      BY <1>1, <2>1, <3>2 DEF Present
    <3> HIDE DEF v
    <3>5. ASSUME NEW o \in Origin, PointsAt(o, q.from)
          PROVE  v[o] \in {u[o], "absent"}
      BY <2>1, <3>1, <3>5
    <3>6. ASSUME NEW o \in Present(u)
          PROVE  PointsAt(o, q.from) \/ o \in Present(v)
      BY <2>1, <2>4, <3>3, <3>6 DEF Present
    <3>7. ASSUME NEW o \in Present(v) \ Present(u)
          PROVE  o = c.new
      BY <2>1, <3>7 DEF Present
    <3> QED BY <2>4, <3>4, <3>5, <3>6, <3>7 DEF Drains, v
  <2> QED BY <1>3, <2>3, <2>4 DEF Switches
<1> QED
  BY <1>2, <1>3

(* An origin that is still to be switched looks as it looked before.       *)
LEMMA LooksAlike ==
  ASSUME NEW q, q.to \in HostText, Apart(q), NEW u, NEW v,
         Drains(q, u, v), OneEach(q.from, u),
         NEW o \in Present(v), PointsAt(o, q.from)
  PROVE  /\ u[o] = v[o] /\ o \in Present(u)
         /\ Occupied(v, o, q.to) <=> Occupied(u, o, q.to)
<1> DEFINE new == Target(q, o)
<1>1. o \in Origin /\ u[o] = v[o] /\ o \in Present(u)
  BY DEF Present, Drains
<1>2. /\ Occupied(u, o, q.to) <=> \E x \in Present(u) : Key(x) = Key(new)
      /\ Occupied(v, o, q.to) <=> \E x \in Present(v) : Key(x) = Key(new)
  BY DEF Occupied, Existing, Target
<1>3. ASSUME NEW x \in Present(u), Key(x) = Key(new)
      PROVE  x \in Present(v)
  <2>1. x \in Origin
    BY DEF Present
  <2>2. ~PointsAt(x, q.from)
    BY <1>1, <1>3, <2>1, TargetApart
  <2> QED BY <2>2 DEF Drains
<1>4. ASSUME NEW x \in Present(v), Key(x) = Key(new)
      PROVE  x \in Present(u)
  <2> SUFFICES ASSUME x \notin Present(u)
               PROVE  FALSE
    OBVIOUS
  <2>1. PICK p \in Present(u) \ Present(v) :
          PointsAt(p, q.from) /\ x = Target(q, p)
    BY DEF Drains
  <2>2. p \in Origin
    BY DEF Present
  <2>3. Target(q, p).rest = p.rest /\ new.rest = o.rest
    BY <1>1, <2>2, TargetIs DEF Target
  <2>4. Fold[p.rest] = Fold[o.rest]
    BY <1>4, <2>1, <2>3 DEF Key
  <2>5. p = o
    BY <1>1, <2>1, <2>4 DEF OneEach
  <2> QED BY <2>1, <2>5
<1> QED
  BY <1>1, <1>2, <1>3, <1>4

LEMMA CoversStays ==
  ASSUME NEW q, q.to \in HostText, Apart(q), NEW u, NEW v,
         Drains(q, u, v), OneEach(q.from, u), NEW actions,
         Covers(actions, u, q.from, q.to)
  PROVE  Covers(actions, v, q.from, q.to)
<1> SUFFICES ASSUME NEW o \in Origin, Touches(v, o, q.from, q.to)
             PROVE  \E a \in actions :
                      /\ a.origin = o
                      /\ a.kind = IF Occupied(v, o, q.to) THEN "drop"
                                                          ELSE "update"
  BY DEF Covers
<1>1. o \in Present(v) /\ PointsAt(o, q.from)
  BY DEF Touches
<1>2. /\ u[o] = v[o] /\ o \in Present(u)
      /\ Occupied(v, o, q.to) <=> Occupied(u, o, q.to)
  BY <1>1, LooksAlike
<1>3. Touches(u, o, q.from, q.to)
  BY <1>2 DEF Touches
<1> QED
  BY <1>2, <1>3 DEF Covers

LEMMA OneEachStays ==
  ASSUME NEW q, NEW u, NEW v, Drains(q, u, v), OneEach(q.from, u)
  PROVE  OneEach(q.from, v)
<1>1. ASSUME NEW o \in Present(v), PointsAt(o, q.from)
      PROVE  o \in Present(u)
  BY <1>1 DEF Drains, Present
<1> QED
  BY <1>1 DEF OneEach

(* A fresh plan covers the listing it was made from.                       *)
LEMMA ActionsCover ==
  ASSUME NEW u, NEW from, NEW to
  PROVE  Covers(ActionsOf(u, from, to), u, from, to)
<1> SUFFICES ASSUME NEW o \in Origin, Touches(u, o, from, to)
             PROVE  \E a \in ActionsOf(u, from, to) :
                      /\ a.origin = o
                      /\ a.kind = IF Occupied(u, o, to) THEN "drop" ELSE "update"
  BY DEF Covers
<1>1. PlannedAction(u, o, from, to) \in ActionsOf(u, from, to)
  BY DEF ActionsOf
<1>2. /\ PlannedAction(u, o, from, to).origin = o
      /\ PlannedAction(u, o, from, to).kind =
           IF Occupied(u, o, to) THEN "drop" ELSE "update"
  BY DEF PlannedAction
<1> QED
  BY <1>1, <1>2

-----------------------------------------------------------------------------
(* The plans, step by step.                                                *)

(* Who works on a rule was sent, between two hosts of the dropdowns.       *)
LEMMA SentApart ==
  ASSUME OneSpellingEach, SessionInv, NEW j \in Job, NEW r \in Rule, Asked(j, r)
  PROVE  /\ j \in sent /\ Apart(req[j])
         /\ req[j].from \in Offered /\ req[j].to \in HostText
<1>1. j \in sent
  BY DEF SessionInv, UnsentWait, Asked
<1>2. req[j].from \in Offered /\ req[j].to \in Offered
  BY <1>1 DEF SessionInv, SentAsShown
<1>3. Bare[req[j].to] = req[j].to /\ req[j].to \in HostText
  BY <1>2, SessionAssumption DEF OneSpellingEach
<1>4. Acceptable(req[j])
  BY DEF SessionInv, IInv, HandlersAccepted, Asked
<1> QED
  BY <1>1, <1>2, <1>3, <1>4 DEF Apart, Acceptable

LEMMA RulesDrain ==
  ASSUME OneSpellingEach, SessionInv, OnlySwitches, NEW r \in Rule,
         rules'[r] # rules[r]
  PROVE  \E j \in sent :
           /\ Apart(req[j])
           /\ req[j].from \in Offered /\ req[j].to \in HostText
           /\ Drains(req[j], rules[r], rules'[r])
<1>1. PICK c \in Call :
        /\ Asked(c.by, c.rule) /\ worker[c.by][c.rule].pc \in Busy
        /\ Switches(req[c.by], c) /\ Accepts(c) /\ Apply(c)
  BY DEF OnlySwitches
<1>2. c.by \in Job /\ c.rule \in Rule /\ rules \in [Rule -> Upstreams]
  BY DEF Call, SessionInv, IInv, TypeOK
<1>3. c.rule = r /\ rules'[r] = Applied(rules[r], c) /\ rules[r] \in Upstreams
  BY <1>1, <1>2 DEF Apply
<1> DEFINE q == req[c.by]
<1>4. /\ c.by \in sent /\ Apart(q)
      /\ q.from \in Offered /\ q.to \in HostText
  BY <1>1, <1>2, SentApart
<1>5. Fits(rules[r], c)
  BY <1>1, <1>3 DEF Accepts, Fits
<1>6. Drains(q, rules[r], Applied(rules[r], c))
  <2> HIDE DEF q
  <2>1. Switches(q, c)
    BY <1>1 DEF q
  <2> QED BY <1>3, <1>4, <1>5, <2>1, SwitchDrains
<1> QED
  BY <1>3, <1>4, <1>6

(* Steps of the server keep a rule's origins apart and a plan right.       *)
LEMMA RulesCovered ==
  ASSUME OneSpellingEach, SessionInv, PlansInv, OnlySwitches,
         sent' = sent, req' = req
  PROVE  /\ \A h \in Offered : (\A j \in sent : req[j].from = h) =>
              \A r \in Rule : OneEach(h, rules'[r])
         /\ \A from, to, actions : \A r \in Rule :
              /\ SentAre(from, to)
              /\ Covers(actions, rules[r], from, to)
              => Covers(actions, rules'[r], from, to)
<1>1. ASSUME NEW h \in Offered, \A j \in sent : req[j].from = h, NEW r \in Rule
      PROVE  OneEach(h, rules'[r])
  <2>1. OneEach(h, rules[r])
    BY <1>1 DEF PlansInv
  <2>2. CASE rules'[r] # rules[r]
    <3>1. PICK j \in sent : Drains(req[j], rules[r], rules'[r])
      BY <2>2, RulesDrain
    <3>2. req[j].from = h
      BY <1>1
    <3> QED BY <2>1, <3>1, <3>2, OneEachStays
  <2> QED BY <2>1, <2>2
<1>2. ASSUME NEW from, NEW to, NEW actions, NEW r \in Rule, SentAre(from, to),
             Covers(actions, rules[r], from, to)
      PROVE  Covers(actions, rules'[r], from, to)
  <2>1. CASE rules'[r] # rules[r]
    <3>1. PICK j \in sent :
            /\ Apart(req[j])
            /\ req[j].from \in Offered /\ req[j].to \in HostText
            /\ Drains(req[j], rules[r], rules'[r])
      BY <2>1, RulesDrain
    <3>2. req[j].from = from /\ req[j].to = to
      BY <1>2 DEF SentAre
    <3>3. \A i \in sent : req[i].from = from
      BY <1>2 DEF SentAre
    <3>4. OneEach(from, rules[r])
      BY <3>1, <3>2, <3>3 DEF PlansInv
    <3> QED BY <1>2, <3>1, <3>2, <3>4, CoversStays
  <2> QED BY <1>2, <2>1
<1> QED
  BY <1>1, <1>2

LEMMA ServerPlans ==
  ASSUME OneSpellingEach, SessionInv, PlansInv, OnlySwitches,
         UNCHANGED <<sent, req, shown, agreed>>,
         \A i \in Job, s \in Rule : ListsOnce(i, s),
         \A p \in Slot : preview'[p] = preview[p] \/ PlanCovers(preview[p])'
  PROVE  PlansInv'
<1>1. \A h \in Offered : (\A j \in sent : req[j].from = h) =>
        \A r \in Rule : OneEach(h, rules'[r])
  BY RulesCovered
<1>2. ASSUME NEW v, PlanCovers(v), SentAre(v.from, v.to), NEW r \in Rule,
             v.plan[r] # {}
      PROVE  Covers(v.plan[r], rules'[r], v.from, v.to)
  <2>1. Covers(v.plan[r], rules[r], v.from, v.to)
    BY <1>2 DEF PlanCovers
  <2> QED BY <1>2, <2>1, RulesCovered
<1>3. ASSUME NEW p \in Slot
      PROVE  PlanCovers(preview[p])'
  <2>1. CASE preview'[p] = preview[p]
    <3>1. PlanCovers(preview[p])
      BY DEF PlansInv
    <3> QED BY <1>2, <2>1, <3>1 DEF PlanCovers, SentAre
  <2> QED BY <2>1
<1>4. PlanCovers(shown)'
  <2>1. PlanCovers(shown)
    BY DEF PlansInv
  <2> QED BY <1>2, <2>1 DEF PlanCovers, SentAre
<1>5. ASSUME NEW j \in sent
      PROVE  PlanCovers(agreed[j])' /\ ListingCovered(j)'
  <2> DEFINE v == agreed[j]
  <2>1. PlanCovers(v) /\ ListingCovered(j) /\ j \in Job
    BY DEF PlansInv, SessionInv, SessionTypeOK
  <2>2. PlanCovers(agreed[j])'
    BY <1>2, <2>1 DEF PlanCovers, SentAre
  <2>3. ASSUME SentAre(v.from, v.to), NEW r \in Rule, v.plan[r] # {},
               worker'[j][r].pc \in Busy
        PROVE  Covers(v.plan[r], worker'[j][r].snap, v.from, v.to)
    <3>1. ListsOnce(j, r)
      BY <2>1
    <3>2. CASE worker[j][r].pc \in Busy
      BY <2>1, <2>3, <3>1, <3>2 DEF ListsOnce, ListingCovered
    <3>3. CASE worker[j][r].pc \notin Busy
      <4>1. worker'[j][r].snap \in {rules[r], NoUpstreams}
        BY <2>3, <3>1, <3>3 DEF ListsOnce
      <4>2. Covers(v.plan[r], rules[r], v.from, v.to)
        BY <2>1, <2>3 DEF PlanCovers
      <4>3. Covers(v.plan[r], NoUpstreams, v.from, v.to)
        BY DEF Covers, Touches, Present, NoUpstreams
      <4> QED BY <4>1, <4>2, <4>3
    <3> QED BY <3>2, <3>3
  <2>4. ListingCovered(j)'
    BY <2>3 DEF ListingCovered, SentAre
  <2> QED BY <2>2, <2>4
<1> QED
  BY <1>1, <1>3, <1>4, <1>5 DEF PlansInv

(* The preview plans for one rule at a time, from what the rule is now.    *)
LEMMA PlansOne ==
  ASSUME SessionInv, NEW p \in Slot, PreviewStep(p)
  PROVE  /\ \A i \in Slot : i # p => preview'[i] = preview[i]
         /\ preview'[p].from = preview[p].from /\ preview'[p].to = preview[p].to
         /\ \A r \in Rule :
              \/ preview'[p].plan[r] = preview[p].plan[r]
              \/ preview'[p].plan[r] =
                   ActionsOf(rules[r], preview[p].from, preview[p].to)
<1> DEFINE v == preview[p]
           Planning(s) == ActionsOf(rules[s], v.from, v.to)
<1>1. /\ preview \in [Slot -> Preview] /\ v.plan \in [Rule -> SUBSET Action]
      /\ v \in Preview
  BY DEF SessionInv, SessionTypeOK, Preview, Plan
<1>2. CASE PreviewListsRules(p)
  <2>1. \/ preview' = [preview EXCEPT
             ![p] = [v EXCEPT !.st = "planning", !.left = endpoints]]
        \/ preview' = [preview EXCEPT ![p] = [v EXCEPT !.st = "error"]]
    BY <1>1, <1>2 DEF PreviewListsRules
  <2> QED BY <1>1, <2>1 DEF Preview
<1>3. ASSUME NEW s \in Rule, PreviewPlansRule(p, s)
      PROVE  /\ \A i \in Slot : i # p => preview'[i] = preview[i]
             /\ preview'[p].from = v.from /\ preview'[p].to = v.to
             /\ \A r \in Rule : \/ preview'[p].plan[r] = v.plan[r]
                                \/ preview'[p].plan[r] = Planning(r)
  <2> DEFINE more == [v.plan EXCEPT ![s] = Planning(s)]
             x == [v EXCEPT !.left = @ \ {s}, !.plan = more]
             y == [v EXCEPT !.left = @ \ {s}]
  <2>1. \/ preview' = [preview EXCEPT ![p] = x]
        \/ preview' = [preview EXCEPT ![p] = y]
    BY <1>1, <1>3 DEF PreviewPlansRule, Preview
  <2>2. /\ x.from = v.from /\ x.to = v.to /\ x.plan = more
        /\ y.from = v.from /\ y.to = v.to /\ y.plan = v.plan
    BY <1>1 DEF Preview
  <2>3. \A r \in Rule : more[r] = v.plan[r] \/ more[r] = Planning(r)
    BY <1>1
  <2> HIDE DEF x, y, more, Planning
  <2>4. /\ preview'[p] = x \/ preview'[p] = y
        /\ \A i \in Slot : i # p => preview'[i] = preview[i]
    BY <1>1, <2>1
  <2> QED BY <2>2, <2>3, <2>4
<1>4. CASE PreviewReplies(p)
  BY <1>1, <1>4 DEF PreviewReplies, Preview
<1> QED
  BY <1>2, <1>3, <1>4 DEF PreviewStep

LEMMA PreviewCovers ==
  ASSUME SessionInv, PlansInv, NEW p \in Slot, PreviewStep(p),
         UNCHANGED <<vars, pageVars>>, NEW i \in Slot
  PROVE  preview'[i] = preview[i] \/ PlanCovers(preview[i])'
<1> DEFINE v == preview[p]
<1>1. UNCHANGED <<sent, req, rules>>
  BY DEF vars, pageVars
<1>2. CASE i # p
  BY <1>2, PlansOne
<1>3. CASE i = p
  <2> SUFFICES ASSUME SentAre(preview'[p].from, preview'[p].to), NEW r \in Rule,
                      preview'[p].plan[r] # {}
               PROVE  Covers(preview'[p].plan[r], rules[r],
                             preview'[p].from, preview'[p].to)
    BY <1>1, <1>3 DEF PlanCovers, SentAre
  <2>1. /\ preview'[p].from = v.from /\ preview'[p].to = v.to
        /\ \/ preview'[p].plan[r] = v.plan[r]
           \/ preview'[p].plan[r] = ActionsOf(rules[r], v.from, v.to)
    BY PlansOne
  <2>2. CASE preview'[p].plan[r] = v.plan[r]
    BY <2>1, <2>2 DEF PlansInv, PlanCovers
  <2>3. CASE preview'[p].plan[r] = ActionsOf(rules[r], v.from, v.to)
    BY <2>1, <2>3, ActionsCover
  <2> QED BY <2>1, <2>2, <2>3
<1> QED
  BY <1>2, <1>3

LEMMA InitPlans == OneSpellingEach /\ SessionInit => PlansInv
<1> SUFFICES ASSUME OneSpellingEach, SessionInit PROVE PlansInv
  OBVIOUS
<1>1. \A r \in Rule : rules[r] \in InitialUpstreams
  BY DEF SessionInit, Init
<1>2. \A h \in Offered, r \in Rule : OneEach(h, rules[r])
  BY <1>1 DEF OneSpellingEach
<1>3. \A p \in Slot : PlanCovers(preview[p])
  BY DEF SessionInit, NoPreview, NoPlan, PlanCovers
<1>4. PlanCovers(shown)
  BY DEF SessionInit, NothingShown, NoPlan, PlanCovers
<1> QED
  BY <1>2, <1>3, <1>4 DEF PlansInv, SessionInit

LEMMA PressSwitches ==
  ASSUME SessionInv, SwitchInv, NEW j \in Job, PressSwitch(j)
  PROVE  SwitchInv'
<1>1. /\ j \notin sent /\ sent' = sent \cup {j}
      /\ agreed' = [agreed EXCEPT ![j] = shown]
      /\ UNCHANGED <<phase, worker, rules, endpoints, late, preview, shown>>
      /\ \A i \in Job : i # j => req'[i] = req[i]
  BY DEF PressSwitch, storeVars, SessionInv, SessionTypeOK, TypeOK
<1>2. /\ phase[j] = "received" /\ \A r \in Rule : worker[j][r] = NewWorker
      /\ sent \subseteq Job /\ agreed \in [Job -> Shown] /\ late \subseteq Call
  BY <1>1 DEF SessionInv, UnsentWait, SessionTypeOK, TypeOK
<1>3. \A r \in Rule : worker[j][r].pc \notin Busy /\ worker[j][r].log = {}
                      /\ worker[j][r].pc = "none"
  BY <1>2 DEF NewWorker, Busy
<1>4. AllAccount' /\ AllDecided'
  <2> SUFFICES ASSUME NEW i \in Job, NEW r \in Rule
               PROVE  /\ Accounts(req'[i].from, worker[i][r])
                      /\ Decided(req'[i], worker[i][r])
    BY <1>1 DEF AllAccount, AllDecided
  <2>1. CASE i = j
    BY <1>3, <2>1 DEF Accounts, Decided
  <2>2. CASE i # j
    BY <1>1, <2>2 DEF SwitchInv, AllAccount, AllDecided
  <2> QED BY <2>1, <2>2
<1>5. LateSwitches'
  <2> SUFFICES ASSUME NEW c \in late
               PROVE  worker[c.by][c.rule].pc \in Busy /\ Switches(req'[c.by], c)
    BY <1>1 DEF LateSwitches
  <2>1. /\ c.by \in Job /\ c.rule \in Rule
        /\ worker[c.by][c.rule].pc \in Busy /\ Switches(req[c.by], c)
    BY <1>2 DEF Call, SwitchInv, LateSwitches
  <2> QED BY <1>1, <1>3, <2>1
<1>6. AllAtWork'
  BY <1>1, <1>2 DEF SwitchInv, AllAtWork
<1> QED
  BY <1>4, <1>5, <1>6 DEF SwitchInv

(* A request that is sent agrees with the plan that is shown.              *)
LEMMA PressPlans ==
  ASSUME SessionInv, PlansInv, NEW j \in Job, PressSwitch(j)
  PROVE  PlansInv'
<1>1. /\ j \notin sent /\ sent' = sent \cup {j}
      /\ agreed' = [agreed EXCEPT ![j] = shown]
      /\ UNCHANGED <<phase, worker, rules, endpoints, late, preview, shown>>
      /\ \A i \in Job : i # j => req'[i] = req[i]
  BY DEF PressSwitch, storeVars, SessionInv, SessionTypeOK, TypeOK
<1>2. /\ phase[j] = "received" /\ \A r \in Rule : worker[j][r] = NewWorker
      /\ sent \subseteq Job /\ agreed \in [Job -> Shown] /\ late \subseteq Call
  BY <1>1 DEF SessionInv, UnsentWait, SessionTypeOK, TypeOK
<1>3. \A r \in Rule : worker[j][r].pc \notin Busy /\ worker[j][r].log = {}
                      /\ worker[j][r].pc = "none"
  BY <1>2 DEF NewWorker, Busy
<1>7. \A from, to : SentAre(from, to)' => SentAre(from, to)
  BY <1>1, <1>2 DEF SentAre
<1>8. ASSUME NEW h \in Offered, \A i \in sent' : req'[i].from = h
      PROVE  \A r \in Rule : OneEach(h, rules'[r])
  BY <1>1, <1>2, <1>8 DEF PlansInv
<1>9. PlanCovers(shown) /\ \A p \in Slot : PlanCovers(preview[p])
  BY DEF PlansInv
<1>10. PlanCovers(shown)' /\ \A p \in Slot : PlanCovers(preview[p])'
  BY <1>1, <1>7, <1>9 DEF PlanCovers
<1>11. ASSUME NEW i \in sent'
       PROVE  PlanCovers(agreed[i])' /\ ListingCovered(i)'
  <2>1. CASE i = j
    <3>1. agreed'[j] = shown
      BY <1>1, <1>2
    <3>2. PlanCovers(agreed[j])'
      BY <1>1, <1>10, <3>1 DEF PlanCovers, SentAre
    <3>3. ListingCovered(j)'
      BY <1>1, <1>3 DEF ListingCovered
    <3> QED BY <2>1, <3>2, <3>3
  <2>2. CASE i # j
    <3>1. agreed'[i] = agreed[i] /\ i \in sent
      BY <1>1, <1>2, <1>11, <2>2
    <3>2. PlanCovers(agreed[i]) /\ ListingCovered(i)
      BY <3>1 DEF PlansInv
    <3> QED BY <1>1, <1>7, <3>1, <3>2 DEF PlanCovers, ListingCovered
  <2> QED BY <2>1, <2>2
<1> QED
  BY <1>8, <1>10, <1>11 DEF PlansInv

(* What else the page does, with the requests and the rules as they are.   *)
LEMMA OtherPageStep ==
  ASSUME SessionInv, PageStep, ~\E j \in Job : PressSwitch(j)
  PROVE  /\ UNCHANGED <<vars, sent, agreed>>
         /\ \A p \in Slot : preview'[p] = preview[p] \/ preview'[p].plan = NoPlan
         /\ \/ shown' = shown
            \/ shown'.plan = NoPlan
            \/ \E p \in Slot : /\ shown'.from = preview[p].from
                               /\ shown'.to = preview[p].to
                               /\ shown'.plan = preview[p].plan
<1>1. preview \in [Slot -> Preview]
  BY DEF SessionInv, SessionTypeOK
<1>2. ASSUME NEW p \in Slot, NEW from, NEW to, AskPreview(p, from, to),
             NEW i \in Slot
      PROVE  preview'[i] = preview[i] \/ preview'[i].plan = NoPlan
  BY <1>1, <1>2 DEF AskPreview, NoPreview
<1>3. CASE ChooseHosts \/ TickRules
  BY <1>3 DEF ChooseHosts, TickRules
<1>4. ASSUME NEW p \in Slot, PressPreview(p)
      PROVE  /\ UNCHANGED <<vars, sent, agreed, shown>>
             /\ \A i \in Slot : preview'[i] = preview[i] \/ preview'[i].plan = NoPlan
  BY <1>2, <1>4 DEF PressPreview
<1>5. ASSUME NEW p \in Slot, ReadPlan(p)
      PROVE  /\ UNCHANGED <<vars, sent, agreed>>
             /\ \A i \in Slot : preview'[i] = preview[i] \/ preview'[i].plan = NoPlan
             /\ \/ shown'.plan = NoPlan
                \/ /\ shown'.from = preview[p].from
                   /\ shown'.to = preview[p].to
                   /\ shown'.plan = preview[p].plan
  BY <1>1, <1>5 DEF ReadPlan, PreviewRead, NoPreview
<1>6. ASSUME NEW j \in Job, ReadResult(j)
      PROVE  /\ UNCHANGED <<vars, sent, agreed, shown>>
             /\ \A i \in Slot : preview'[i] = preview[i] \/ preview'[i].plan = NoPlan
  <2>1. \/ preview' = preview
        \/ \E p \in Slot : AskPreview(p, req[j].from, req[j].to)
    BY <1>6 DEF ReadResult
  <2>2. UNCHANGED <<vars, sent, agreed, shown>>
    BY <1>6 DEF ReadResult
  <2> QED BY <1>2, <2>1, <2>2
<1> QED
  BY <1>3, <1>4, <1>5, <1>6 DEF PageStep

LEMMA OtherPagePlans ==
  ASSUME MaxEdits = 0, SessionInv, SwitchInv, PlansInv, PageStep,
         ~\E j \in Job : PressSwitch(j)
  PROVE  SwitchInv' /\ PlansInv'
<1>1. /\ UNCHANGED <<vars, sent, agreed>>
      /\ \A p \in Slot : preview'[p] = preview[p] \/ preview'[p].plan = NoPlan
      /\ \/ shown' = shown
         \/ shown'.plan = NoPlan
         \/ \E p \in Slot : /\ shown'.from = preview[p].from
                            /\ shown'.to = preview[p].to
                            /\ shown'.plan = preview[p].plan
  BY OtherPageStep
<1>2. SwitchInv'
  BY <1>1, StepSwitches DEF SessionInv
<1>3. UNCHANGED <<req, rules, worker>>
  BY <1>1 DEF vars
<1>4. \A v : v.plan = NoPlan => PlanCovers(v)
  BY DEF PlanCovers, NoPlan
<1>5. \A p \in Slot : PlanCovers(preview[p])'
  BY <1>1, <1>3 DEF PlansInv, PlanCovers, SentAre, NoPlan
<1>6. PlanCovers(shown)'
  BY <1>1, <1>3 DEF PlansInv, PlanCovers, SentAre, NoPlan
<1>7. \A j \in sent : PlanCovers(agreed[j])' /\ ListingCovered(j)'
  BY <1>1, <1>3 DEF PlansInv, PlanCovers, ListingCovered, SentAre
<1>8. \A h \in Offered : (\A j \in sent : req[j].from = h) =>
        \A r \in Rule : OneEach(h, rules'[r])
  BY <1>3 DEF PlansInv
<1> QED
  BY <1>1, <1>2, <1>3, <1>5, <1>6, <1>7, <1>8 DEF PlansInv

LEMMA StepPlans ==
  ASSUME OneSpellingEach, SessionInv, SwitchInv, PlansInv,
         [SessionNext]_sessionVars
  PROVE  SwitchInv' /\ PlansInv'
<1>0. MaxEdits = 0
  BY DEF OneSpellingEach
<1>1. CASE ServerStep
  <2>1. [Next]_vars /\ UNCHANGED pageVars
    BY <1>1, ServerIsSwitch DEF SessionInv
  <2>2. /\ SwitchInv' /\ OnlySwitches
        /\ \A i \in Job, s \in Rule : ListsOnce(i, s)
    BY <1>0, <2>1, StepSwitches DEF SessionInv
  <2>3. req' = req
    BY <1>1, ServerKeepsUnsent
  <2>4. UNCHANGED <<sent, shown, agreed>>
    BY <2>1 DEF pageVars
  <2>5. \A p \in Slot : preview'[p] = preview[p] \/ PlanCovers(preview[p])'
    <3>1. CASE preview' = preview
      BY <3>1
    <3>2. CASE preview' # preview
      <4>1. PICK p \in Slot : PreviewStep(p) /\ UNCHANGED <<vars, pageVars>>
        BY <1>1, <3>2 DEF ServerStep
      <4> QED BY <4>1, PreviewCovers
    <3> QED BY <3>1, <3>2
  <2> QED BY <2>2, <2>3, <2>4, <2>5, ServerPlans
<1>2. CASE PageStep
  BY <1>0, <1>2, PressSwitches, PressPlans, OtherPagePlans
<1>3. CASE UNCHANGED sessionVars
  <2>1. UNCHANGED <<vars, preview, pageVars>>
    BY <1>3 DEF sessionVars
  <2>2. SwitchInv'
    BY <1>0, <2>1, StepSwitches DEF SessionInv
  <2>3. UNCHANGED <<req, rules, worker, preview, sent, shown, agreed>>
    BY <2>1 DEF vars, pageVars
  <2>4. PlansInv'
    BY <2>3 DEF PlansInv, PlanCovers, ListingCovered, SentAre
  <2> QED BY <2>2, <2>4
<1> QED
  BY <1>1, <1>2, <1>3 DEF SessionNext

(* What the results say was done was planned, and as it was planned.       *)
LEMMA CoveredIsPlanned ==
  ASSUME SessionInv, SwitchInv, PlansInv
  PROVE  NothingBeyondThePlan
<1> SUFFICES ASSUME NEW j \in sent,
                    \A i \in sent : /\ AsPlanned(i)
                                    /\ req[i].from = req[j].from
                                    /\ req[i].to = req[j].to,
                    NEW r \in Rule, NEW o \in Origin,
                    NEW e \in worker[j][r].log, o \in e.at
             PROVE  /\ e.what \in {"moved", "update"} => Planned(j, r, "update", o)
                    /\ e.what \in {"dropped", "remove"} => Planned(j, r, "drop", o)
  BY DEF NothingBeyondThePlan
<1> DEFINE q == req[j]
           v == agreed[j]
           w == worker[j][r]
<1>1. /\ j \in Job /\ v.from = q.from /\ v.to = q.to
      /\ SentAre(v.from, v.to) /\ ListingCovered(j)
  BY DEF SessionInv, SessionTypeOK, AsPlanned, SentAre, PlansInv
<1>2. Decided(q, w)
  BY <1>1 DEF SwitchInv, AllDecided
<1>3. w.pc \in Busy
  BY <1>2 DEF Decided
<1>4. r \in q.selected
  BY <1>1, <1>3 DEF SessionInv, IInv, WorkersAsked, Asked, Busy
<1>5. v.plan[r] # {}
  BY <1>4 DEF SessionInv, SentAsShown, RulesOf
<1>6. Covers(v.plan[r], w.snap, q.from, q.to)
  BY <1>1, <1>3, <1>5 DEF ListingCovered
<1>7. ASSUME Touches(w.snap, o, q.from, q.to)
      PROVE  Planned(j, r, IF Occupied(w.snap, o, q.to) THEN "drop" ELSE "update",
                     o)
  BY <1>6, <1>7 DEF Covers, Planned
<1>8. /\ e.what \in {"moved", "update"} => ToRename(q, w.snap, o)
      /\ e.what \in {"dropped", "remove"} => ToRetire(q, w.snap, o)
  BY <1>2 DEF Decided
<1> QED
  BY <1>7, <1>8 DEF ToRename, ToRetire

(* However previews, switches and their answers interleave, whatever fails *)
(* and however often the button is pressed: while the dropdowns are as     *)
(* they were for the plan, the execution does nothing to an origin that    *)
(* the plan did not show for it.                                           *)
THEOREM PlanIsKept ==
  ASSUME OneSpellingEach
  PROVE  SessionSpec => []NothingBeyondThePlan
<1> DEFINE Inv == SessionInv /\ SwitchInv /\ PlansInv
<1>1. SessionInit => Inv
  BY InitSession, InitSwitches, InitPlans DEF SessionInit
<1>2. Inv /\ [SessionNext]_sessionVars => Inv'
  BY SessionKeeps, StepPlans
<1>3. Inv => NothingBeyondThePlan
  BY CoveredIsPlanned
<1> QED
  BY <1>1, <1>2, <1>3, PTL DEF SessionSpec

-----------------------------------------------------------------------------
(* The only switch that was sent leaves nothing of its plan out.           *)

(* Listings do not fail, and nobody else edits the rules.                  *)
ListingsSucceed == MaxEdits = 0 /\ "list" \notin Faults

LEMMA ActionsDue ==
  ASSUME NEW u, NEW from, NEW to
  PROVE  Due(ActionsOf(u, from, to), u, from, to)
  BY DEF Due, ActionsOf, PlannedAction

LEMMA InitDue == SessionInit => DueInv
<1> SUFFICES ASSUME SessionInit PROVE DueInv
  OBVIOUS
<1>1. PlanDue(shown) /\ \A p \in Slot : PlanDue(preview[p])
  BY DEF SessionInit, NothingShown, NoPreview, NoPlan, PlanDue, Due
<1> QED
  BY <1>1 DEF SessionInit, DueInv

(* A rule changes only for a request that was sent and has its listing.    *)
LEMMA UnlistedStays ==
  ASSUME SessionInv, OnlySwitches, NEW r \in Rule, rules'[r] # rules[r]
  PROVE  \E j \in sent : worker[j][r].pc \in Busy
<1>1. PICK c \in Call :
        /\ Asked(c.by, c.rule) /\ worker[c.by][c.rule].pc \in Busy /\ Apply(c)
  BY DEF OnlySwitches
<1>2. c.by \in Job /\ c.rule = r
  BY <1>1 DEF Call, Apply, SessionInv, IInv, TypeOK
<1>3. c.by \in sent
  BY <1>1, <1>2 DEF SessionInv, UnsentWait, Asked
<1> QED
  BY <1>1, <1>2, <1>3

LEMMA ServerDue ==
  ASSUME ListingsSucceed, SessionInv, SwitchInv, DueInv, ServerStep
  PROVE  DueInv'
<1>1. [Next]_vars /\ UNCHANGED <<sent, shown, agreed>>
  BY ServerIsSwitch DEF SessionInv, pageVars
<1>2. OnlySwitches /\ \A i \in Job, s \in Rule : ListsOnce(i, s)
  BY <1>1, StepSwitches DEF SessionInv, ListingsSucceed
<1>3. ASSUME sent = {}
      PROVE  PlanDue(shown)' /\ \A i \in Slot : PlanDue(preview[i])'
  <2>1. \A r \in Rule : rules'[r] = rules[r]
    BY <1>2, <1>3, UnlistedStays
  <2>2. PlanDue(shown) /\ \A i \in Slot : PlanDue(preview[i])
    BY <1>3 DEF DueInv
  <2>3. PlanDue(shown)'
    BY <1>1, <2>1, <2>2 DEF PlanDue
  <2>4. ASSUME NEW i \in Slot
        PROVE  PlanDue(preview[i])'
    <3>1. CASE preview'[i] = preview[i]
      BY <2>1, <2>2, <3>1 DEF PlanDue
    <3>2. CASE preview'[i] # preview[i]
      <4>1. PreviewStep(i)
        BY <3>2, PlansOne DEF ServerStep
      <4>2. /\ preview'[i].from = preview[i].from
            /\ preview'[i].to = preview[i].to
            /\ \A r \in Rule :
                 \/ preview'[i].plan[r] = preview[i].plan[r]
                 \/ preview'[i].plan[r] =
                      ActionsOf(rules[r], preview[i].from, preview[i].to)
        BY <4>1, PlansOne
      <4>3. ASSUME NEW r \in Rule
            PROVE  Due(preview'[i].plan[r], rules'[r],
                       preview'[i].from, preview'[i].to)
        <5>1. CASE preview'[i].plan[r] = preview[i].plan[r]
          BY <2>1, <2>2, <4>2, <5>1 DEF PlanDue
        <5>2. CASE preview'[i].plan[r] =
                     ActionsOf(rules[r], preview[i].from, preview[i].to)
          BY <2>1, <4>2, <5>2, ActionsDue
        <5> QED BY <4>2, <5>1, <5>2
      <4> QED BY <4>3 DEF PlanDue
    <3> QED BY <3>1, <3>2
  <2> QED BY <2>3, <2>4
<1>4. ASSUME NEW j \in sent, sent = {j}, NEW r \in Rule
      PROVE  LET v == agreed[j]
             IN  Due(v.plan[r],
                     IF worker'[j][r].pc \in Busy THEN worker'[j][r].snap
                                                  ELSE rules'[r],
                     v.from, v.to)
  <2>1. j \in Job /\ ListsOnce(j, r)
    BY <1>2 DEF SessionInv, SessionTypeOK
  <2>2. Due(agreed[j].plan[r],
            IF worker[j][r].pc \in Busy THEN worker[j][r].snap ELSE rules[r],
            agreed[j].from, agreed[j].to)
    BY <1>4 DEF DueInv
  <2>3. CASE worker[j][r].pc \in Busy
    BY <2>1, <2>2, <2>3 DEF ListsOnce
  <2>4. CASE worker[j][r].pc \notin Busy
    <3>1. rules'[r] = rules[r]
      BY <1>2, <1>4, <2>4, UnlistedStays
    <3>2. worker'[j][r].pc \in Busy => worker'[j][r].snap = rules[r]
      BY <2>1, <2>4 DEF ListsOnce, ListingsSucceed, SwitchInv, AllAtWork
    <3> QED BY <2>2, <2>4, <3>1, <3>2
  <2> QED BY <2>3, <2>4
<1> QED
  BY <1>1, <1>3, <1>4 DEF DueInv

LEMMA PressDue ==
  ASSUME SessionInv, DueInv, NEW j \in Job, PressSwitch(j)
  PROVE  DueInv'
<1>1. /\ sent' = sent \cup {j} /\ j \notin sent
      /\ agreed' = [agreed EXCEPT ![j] = shown]
      /\ UNCHANGED <<worker, rules, shown>>
  BY DEF PressSwitch, storeVars
<1>2. \A r \in Rule : worker[j][r].pc \notin Busy
  BY <1>1 DEF SessionInv, UnsentWait, NewWorker, Busy
<1>3. agreed'[j] = shown
  BY <1>1 DEF SessionInv, SessionTypeOK
<1>4. ASSUME NEW i \in sent', sent' = {i}
      PROVE  i = j /\ PlanDue(shown)
  BY <1>1, <1>4 DEF DueInv
<1> QED
  BY <1>1, <1>2, <1>3, <1>4 DEF DueInv, PlanDue

LEMMA StepDue ==
  ASSUME ListingsSucceed, SessionInv, SwitchInv, DueInv,
         [SessionNext]_sessionVars
  PROVE  SwitchInv' /\ DueInv'
<1>1. CASE ServerStep
  <2>1. SwitchInv'
    BY <1>1, ServerIsSwitch, StepSwitches DEF SessionInv, ListingsSucceed
  <2> QED BY <1>1, <2>1, ServerDue
<1>2. CASE \E j \in Job : PressSwitch(j)
  <2>1. PICK j \in Job : PressSwitch(j)
    BY <1>2
  <2> QED BY <2>1, PressDue, PressSwitches
<1>3. ASSUME /\ UNCHANGED <<vars, sent, agreed>>
             /\ \A p \in Slot : preview'[p] = preview[p] \/ preview'[p].plan = NoPlan
             /\ \/ shown' = shown
                \/ shown'.plan = NoPlan
                \/ \E p \in Slot : /\ shown'.from = preview[p].from
                                   /\ shown'.to = preview[p].to
                                   /\ shown'.plan = preview[p].plan
      PROVE  SwitchInv' /\ DueInv'
  <2>1. SwitchInv'
    BY <1>3, StepSwitches DEF SessionInv, ListingsSucceed
  <2>2. UNCHANGED <<rules, worker, sent, agreed>>
    BY <1>3 DEF vars
  <2>3. ASSUME sent = {}
        PROVE  PlanDue(shown)' /\ \A p \in Slot : PlanDue(preview[p])'
    BY <1>3, <2>2, <2>3 DEF DueInv, PlanDue, Due, NoPlan
  <2>4. DueInv'
    BY <2>2, <2>3 DEF DueInv
  <2> QED BY <2>1, <2>4
<1>4. CASE PageStep /\ ~\E j \in Job : PressSwitch(j)
  BY <1>3, <1>4, OtherPageStep
<1>5. CASE UNCHANGED sessionVars
  BY <1>3, <1>5 DEF sessionVars, pageVars
<1> QED
  BY <1>1, <1>2, <1>4, <1>5 DEF SessionNext

(* The request finds each rule as its plan had it, and a worker that is    *)
(* done has a line for each origin it was to switch.                       *)
LEMMA DueIsDone ==
  ASSUME SessionInv, SwitchInv, DueInv
  PROVE  WholePlanExecuted
<1> SUFFICES ASSUME NEW j \in sent, phase[j] = "replied", AsPlanned(j),
                    sent = {j}, NEW r \in req[j].selected,
                    NEW a \in agreed[j].plan[r]
             PROVE  Lines(j, r, {"switched", "error"}, a.origin) # {}
  BY DEF WholePlanExecuted
<1> DEFINE q == req[j]
           w == worker[j][r]
           o == a.origin
<1>1. j \in Job /\ r \in Rule
  BY DEF SessionInv, SessionTypeOK, SentAsShown, RulesOf
<1>2. w.pc = "done" /\ w \in Worker
  BY <1>1 DEF SwitchInv, AllAtWork, SessionInv, IInv, TypeOK
<1>3. Touches(w.snap, o, q.from, q.to)
  BY <1>1, <1>2 DEF DueInv, Due, Busy, AsPlanned
<1>4. Covered(w) = Matched(q.from, w.snap)
  BY <1>1, <1>2 DEF SwitchInv, AllAccount, Accounts
<1>5. PICK e \in w.log : o \in e.at
  BY <1>3, <1>4 DEF Touches, Matched, Covered
<1>6. e.kind # "skipped"
  BY <1>1, <1>3, <1>5 DEF SwitchInv, AllDecided, Decided
<1>7. e.kind \in {"switched", "error"}
  BY <1>2, <1>6 DEF Worker, Entry
<1> QED
  BY <1>5, <1>7 DEF Lines

(* While no listing fails, whatever else does: once the only switch that   *)
(* was sent is answered, every action planned for a ticked rule has a      *)
(* line that says it was taken, or that it failed.                         *)
THEOREM PlanIsCarriedOut ==
  ASSUME ListingsSucceed
  PROVE  SessionSpec => []WholePlanExecuted
<1> DEFINE Inv == SessionInv /\ SwitchInv /\ DueInv
<1>1. SessionInit => Inv
  BY InitSession, InitSwitches, InitDue DEF SessionInit
<1>2. Inv /\ [SessionNext]_sessionVars => Inv'
  BY SessionKeeps, StepDue
<1>3. Inv => WholePlanExecuted
  BY DueIsDone
<1> QED
  BY <1>1, <1>2, <1>3, PTL DEF SessionSpec
=============================================================================
