---------------------------- MODULE OutcomeProofs -----------------------------
(***************************************************************************)
(* What bulk switches between the same two hosts do to a proxy rule, for   *)
(* any numbers of requests and rules and every fault: what a worker saw in *)
(* its one listing stays true in the way its decisions need, although      *)
(* other workers and calls that were given up change the rule meanwhile.   *)
(***************************************************************************)
EXTENDS BulkSwitchProofs

(* q is a request, u a rule's upstreams, w a worker for it, c a call.      *)

(* From its listing on.                                                    *)
Busy == {"looping", "activated", "done"}

Target(q, o) == SwitchOriginHost(o, q.to)

(* An origin of the target host has the text o is to get; an active one.   *)
StandsIn(q, u, o) ==
  \E p \in Present(u) : AtTarget(p, q.to) /\ Key(p) = Key(Target(q, o))

Stands(q, u, o) ==
  \E p \in ActiveIn(u) : AtTarget(p, q.to) /\ Key(p) = Key(Target(q, o))

Noted(log, o) == \E e \in log : e.what = "activate" /\ o \in e.at

Wrong(log, o) == \E e \in log : e.kind = "error" /\ o \in e.at

(* A call only activates targets, moves origins of other hosts with the    *)
(* status they have, and removes them only if an active one stands in      *)
(* their place or its activation was reported as failed.                   *)
Sound(q, u, log, c) ==
  IF c.op = "remove"
  THEN /\ ~AtTarget(c.old, q.to)
       /\ Stands(q, u, c.old) \/ Noted(log, c.old)
  ELSE \/ c.old = c.new /\ c.active /\ AtTarget(c.new, q.to)
       \/ /\ c.new = Target(q, c.old) /\ ~AtTarget(c.old, q.to)
          /\ u[c.old] # "absent" => (c.active <=> u[c.old] = "active")

(* Zoraxy accepts the call.                                                *)
Fits(u, c) ==
  /\ u[c.old] # "absent"
  /\ (c.op = "update" /\ c.new # c.old) => u[c.new] = "absent"

(* Targets are there to stay; other origins may only disappear.            *)
Improves(to, u, v) ==
  \A o \in Origin :
    IF AtTarget(o, to)
    THEN /\ u[o] # "absent" => v[o] # "absent"
         /\ u[o] = "active" => v[o] = "active"
    ELSE v[o] \in {u[o], "absent"}

(* What the worker's listing says of the rule is still so.                 *)
SeenAsItIs(q, u, w) ==
  \A o \in Present(w.snap) :
    IF AtTarget(o, q.to)
    THEN u[o] # "absent" /\ (w.snap[o] = "active" => u[o] = "active")
    ELSE u[o] \in {w.snap[o], "absent"}

(* The active origins the worker is through with have failed over, or an   *)
(* error says they have not.                                               *)
FailedOver(q, u, w) ==
  \A o \in ActiveIn(w.snap) \ w.todo :
    PointsAt(o, q.from) /\ ~AtTarget(o, q.to) =>
      Wrong(w.log, o) \/ (u[o] = "absent" /\ Stands(q, u, o))

(* Between the two calls of a drop.                                        *)
AboutToDrop(q, u, w) ==
  w.pc = "activated" =>
    \A o \in w.cur :
      /\ ~AtTarget(o, q.to)
      /\ Occupied(w.snap, o, q.to)
      /\ Stands(q, u, o) \/ Noted(w.log, o)

(* What is reported as switched is gone and its target is there.           *)
SwitchedIsGone(q, u, w) ==
  \A o \in Present(w.snap) :
    (\E e \in w.log : e.kind = "switched" /\ o \in e.at) =>
      u[o] = "absent" /\ ~AtTarget(o, q.to) /\ StandsIn(q, u, o)

(* Only errors are about activations; there is only to do what was listed, *)
(* and nothing for who is done.                                            *)
Tidy(w) ==
  /\ \A e \in w.log : e.what = "activate" => e.kind = "error"
  /\ w.todo \subseteq Present(w.snap)
  /\ w.pc = "done" => w.todo = {}

WorkerSound(q, u, w) ==
  w.pc \in Busy =>
    /\ SeenAsItIs(q, u, w) /\ FailedOver(q, u, w)
    /\ AboutToDrop(q, u, w) /\ SwitchedIsGone(q, u, w)
    /\ Tidy(w)

LateSound(c) ==
  /\ worker[c.by][c.rule].pc \in Busy
  /\ Sound(req[c.by], rules[c.rule], worker[c.by][c.rule].log, c)

OutcomeInv ==
  Undisturbed =>
    /\ endpoints = Rule
    /\ \A j \in Job, r \in Rule : WorkerSound(req[j], rules[r], worker[j][r])
    /\ \A c \in late : LateSound(c)

(* What changes in a step is what a sound call does.                       *)
OnlySoundCalls ==
  \/ rules' = rules
  \/ \E c \in Call :
       /\ Asked(c.by, c.rule) /\ Accepts(c) /\ Apply(c)
       /\ Sound(req[c.by], rules[c.rule], worker[c.by][c.rule].log, c)

-----------------------------------------------------------------------------
(* Origins and their targets.                                              *)

(* A rewritten origin points at the target host and keeps its rest.        *)
LEMMA TargetIs ==
  ASSUME NEW o \in Origin, NEW to \in HostText
  PROVE  /\ SwitchOriginHost(o, to) \in Origin
         /\ AtTarget(SwitchOriginHost(o, to), to)
         /\ SwitchOriginHost(o, to).rest = o.rest
<1> DEFINE new == SwitchOriginHost(o, to)
<1>1. new \in Origin
  BY SwitchTyped
<1>2. /\ new.rest = o.rest
      /\ new.host = IF o.rest \in Ported THEN Bracketed[to] ELSE to
  BY DEF SwitchOriginHost, Origin
<1>3. SwitchOriginHost(new, to) = new
  BY <1>1, <1>2 DEF SwitchOriginHost, Origin
<1> QED
  BY <1>1, <1>2, <1>3 DEF AtTarget

(* An origin with the folded text of a target is one itself.               *)
LEMMA TargetByKey ==
  ASSUME NEW o \in Origin, NEW p \in Origin, NEW to \in HostText,
         Key(p) = Key(SwitchOriginHost(o, to))
  PROVE  AtTarget(p, to) /\ Fold[p.rest] = Fold[o.rest]
<1> DEFINE new == SwitchOriginHost(o, to)
           same == SwitchOriginHost(p, to)
<1>1. /\ new.rest = o.rest
      /\ new.host = IF o.rest \in Ported THEN Bracketed[to] ELSE to
      /\ same.rest = p.rest
      /\ same.host = IF p.rest \in Ported THEN Bracketed[to] ELSE to
  BY DEF SwitchOriginHost, Origin
<1> HIDE DEF new, same
<1>2. Fold[p.rest] = Fold[new.rest] /\ Fold[p.host] = Fold[new.host]
  BY DEF Key, new
<1>3. p.rest \in Rest /\ o.rest \in Rest
  BY DEF Origin
<1>4. p.rest \in Ported <=> o.rest \in Ported
  BY <1>1, <1>2, <1>3, TextAssumption
<1>5. same.host = new.host
  BY <1>1, <1>4
<1>6. Key(p) = Key(same)
  BY <1>1, <1>2, <1>5 DEF Key
<1> QED
  BY <1>1, <1>2, <1>6 DEF AtTarget, same

-----------------------------------------------------------------------------
(* What a sound call does.                                                 *)

LEMMA AppliedImproves ==
  ASSUME NEW q, q.to \in HostText, NEW u \in Upstreams, NEW log, NEW c \in Call,
         Sound(q, u, log, c), Fits(u, c)
  PROVE  Improves(q.to, u, Applied(u, c))
<1> DEFINE v == Applied(u, c)
<1>1. c.old \in Origin /\ c.new \in Origin
  BY DEF Call
<1> SUFFICES ASSUME NEW o \in Origin
             PROVE  IF AtTarget(o, q.to)
                    THEN /\ u[o] # "absent" => v[o] # "absent"
                         /\ u[o] = "active" => v[o] = "active"
                    ELSE v[o] \in {u[o], "absent"}
  BY DEF Improves
<1>2. CASE c.op = "remove"
  <2>1. v[o] = IF o = c.old THEN "absent" ELSE u[o]
    BY <1>1, <1>2 DEF Applied, Upstreams
  <2>2. ~AtTarget(c.old, q.to)
    BY <1>2 DEF Sound
  <2> QED
    BY <2>1, <2>2
<1>3. CASE c.op # "remove"
  <2>1. v[o] = IF o = c.new THEN StatusOf(c.active)
               ELSE IF o = c.old THEN "absent" ELSE u[o]
    BY <1>1, <1>3 DEF Applied, Upstreams
  <2>2. CASE c.old = c.new /\ c.active /\ AtTarget(c.new, q.to)
    BY <2>1, <2>2 DEF StatusOf
  <2>3. CASE c.new = Target(q, c.old) /\ ~AtTarget(c.old, q.to)
    <3>1. AtTarget(c.new, q.to)
      BY <1>1, <2>3, TargetIs DEF Target
    <3>2. u[c.new] = "absent"
      BY <1>3, <2>3, <3>1 DEF Fits, Call
    <3> QED
      BY <2>1, <2>3, <3>1, <3>2 DEF StatusOf
  <2> QED
    BY <1>3, <2>2, <2>3 DEF Sound
<1> QED
  BY <1>2, <1>3

-----------------------------------------------------------------------------
(* What a rule's improvement keeps.                                        *)

LEMMA StandsStays ==
  ASSUME NEW q, NEW u \in Upstreams, NEW v \in Upstreams,
         Improves(q.to, u, v), NEW o
  PROVE  /\ Stands(q, u, o) => Stands(q, v, o)
         /\ StandsIn(q, u, o) => StandsIn(q, v, o)
  BY DEF Improves, Stands, StandsIn, ActiveIn, Present

LEMMA SoundStays ==
  ASSUME NEW q, NEW u \in Upstreams, NEW v \in Upstreams,
         Improves(q.to, u, v), NEW log, NEW more, log \subseteq more,
         NEW c \in Call, Sound(q, u, log, c)
  PROVE  Sound(q, v, more, c)
<1>1. c.old \in Origin
  BY DEF Call
<1>2. CASE c.op = "remove"
  <2>1. Noted(log, c.old) => Noted(more, c.old)
    BY DEF Noted
  <2> QED
    BY <1>2, <2>1, StandsStays DEF Sound
<1>3. CASE c.op # "remove"
  <2>1. ~AtTarget(c.old, q.to) => v[c.old] \in {u[c.old], "absent"}
    BY <1>1 DEF Improves
  <2> QED
    BY <1>3, <2>1 DEF Sound
<1> QED
  BY <1>2, <1>3

LEMMA SeenStays ==
  ASSUME NEW q, NEW u \in Upstreams, NEW v \in Upstreams,
         Improves(q.to, u, v), NEW w \in Worker, SeenAsItIs(q, u, w)
  PROVE  SeenAsItIs(q, v, w)
<1> SUFFICES ASSUME NEW o \in Present(w.snap)
             PROVE  IF AtTarget(o, q.to)
                    THEN v[o] # "absent" /\ (w.snap[o] = "active" => v[o] = "active")
                    ELSE v[o] \in {w.snap[o], "absent"}
  BY DEF SeenAsItIs
<1>1. o \in Origin
  BY DEF Present
<1> QED
  BY <1>1 DEF SeenAsItIs, Improves

LEMMA WorkerStays ==
  ASSUME NEW q, NEW u \in Upstreams, NEW v \in Upstreams,
         Improves(q.to, u, v), NEW w \in Worker, WorkerSound(q, u, w)
  PROVE  WorkerSound(q, v, w)
<1> SUFFICES ASSUME w.pc \in Busy
             PROVE  /\ SeenAsItIs(q, v, w) /\ FailedOver(q, v, w)
                    /\ AboutToDrop(q, v, w) /\ SwitchedIsGone(q, v, w)
                    /\ Tidy(w)
  BY DEF WorkerSound
<1>1. /\ SeenAsItIs(q, u, w) /\ FailedOver(q, u, w)
      /\ AboutToDrop(q, u, w) /\ SwitchedIsGone(q, u, w)
      /\ Tidy(w)
  BY DEF WorkerSound
<1>2. ASSUME NEW o \in Origin, ~AtTarget(o, q.to), u[o] = "absent"
      PROVE  v[o] = "absent"
  BY <1>2 DEF Improves
<1>3. SeenAsItIs(q, v, w)
  BY <1>1, SeenStays
<1>4. FailedOver(q, v, w)
  BY <1>1, <1>2, StandsStays DEF FailedOver, ActiveIn
<1>5. AboutToDrop(q, v, w)
  BY <1>1, StandsStays DEF AboutToDrop
<1>6. SwitchedIsGone(q, v, w)
  BY <1>1, <1>2, StandsStays DEF SwitchedIsGone, Present
<1> QED
  BY <1>1, <1>3, <1>4, <1>5, <1>6

-----------------------------------------------------------------------------
(* What each kind of step leaves a worker with.                            *)

(* As Continue and ActivateCounterpart have it.                            *)
Onward(w, o, e) ==
  [w EXCEPT !.pc = "looping", !.todo = @ \ {o}, !.cur = {}, !.log = @ \cup {e}]

Between(w, o, ok) ==
  [w EXCEPT !.pc = "activated", !.cur = {o},
            !.log = IF ok THEN @ ELSE @ \cup {Reports("error", "activate", o)}]

(* The rest of the loop is as sound as what is reported of o.              *)
LEMMA ContinueSound ==
  ASSUME NEW q, NEW u \in Upstreams, NEW w \in Worker, WorkerSound(q, u, w),
         w.pc \in Busy, NEW o \in w.todo, NEW kind, NEW what,
         what # "activate",
         w.snap[o] = "active" /\ ~AtTarget(o, q.to) =>
           \/ kind = "error" \/ Wrong(w.log, o)
           \/ u[o] = "absent" /\ Stands(q, u, o),
         kind = "switched" =>
           u[o] = "absent" /\ ~AtTarget(o, q.to) /\ StandsIn(q, u, o),
         NEW v, v = Onward(w, o, Reports(kind, what, o))
  PROVE  WorkerSound(q, u, v) /\ v.pc \in Busy /\ w.log \subseteq v.log
<1> DEFINE e == Reports(kind, what, o)
<1>1. /\ v.pc = "looping" /\ v.todo = w.todo \ {o} /\ v.snap = w.snap
      /\ v.log = w.log \cup {e}
  BY DEF Worker, Onward
<1>2. e.kind = kind /\ e.what = what /\ e.at = {o} /\ o \in Origin
  BY DEF Reports, Worker
<1> HIDE DEF e
<1>3. /\ SeenAsItIs(q, u, w) /\ FailedOver(q, u, w)
      /\ SwitchedIsGone(q, u, w) /\ Tidy(w)
  BY DEF WorkerSound
<1>4. SeenAsItIs(q, u, v)
  BY <1>1, <1>3 DEF SeenAsItIs
<1>5. FailedOver(q, u, v)
  <2> SUFFICES ASSUME NEW x \in ActiveIn(w.snap) \ v.todo,
                      PointsAt(x, q.from), ~AtTarget(x, q.to)
               PROVE  Wrong(v.log, x) \/ (u[x] = "absent" /\ Stands(q, u, x))
    BY <1>1 DEF FailedOver
  <2>1. Wrong(w.log, x) => Wrong(v.log, x)
    BY <1>1 DEF Wrong
  <2>2. CASE x = o
    <3>1. kind = "error" => Wrong(v.log, o)
      BY <1>1, <1>2 DEF Wrong
    <3> QED
      BY <2>1, <2>2, <3>1 DEF ActiveIn
  <2>3. CASE x # o
    BY <1>1, <1>3, <2>1, <2>3 DEF FailedOver
  <2> QED
    BY <2>2, <2>3
<1>6. AboutToDrop(q, u, v)
  BY <1>1 DEF AboutToDrop
<1>7. SwitchedIsGone(q, u, v)
  BY <1>1, <1>2, <1>3 DEF SwitchedIsGone
<1>8. Tidy(v)
  BY <1>1, <1>2, <1>3 DEF Tidy
<1> QED
  BY <1>1, <1>4, <1>5, <1>6, <1>7, <1>8 DEF WorkerSound, Busy

(* A fresh listing is all there is to know.                                *)
LEMMA ListsSound ==
  ASSUME NEW q, NEW u \in Upstreams, NEW snap \in Upstreams,
         snap \in {u, NoUpstreams},
         NEW w \in Worker, NEW log \in SUBSET Entry,
         \A e \in log : e.kind = "error" /\ e.at = {},
         NEW v, v = [w EXCEPT !.pc = "looping", !.snap = snap,
                       !.todo = {o \in Present(snap) : PointsAt(o, q.from)},
                       !.log = log]
  PROVE  WorkerSound(q, u, v) /\ v.pc \in Busy
<1>1. /\ v.pc = "looping" /\ v.snap = snap /\ v.log = log
      /\ v.todo = {o \in Present(snap) : PointsAt(o, q.from)}
  BY DEF Worker
<1>2. \A o \in Present(snap) : snap[o] = u[o]
  BY DEF Present, NoUpstreams
<1>3. SeenAsItIs(q, u, v)
  BY <1>1, <1>2 DEF SeenAsItIs, Present
<1>4. FailedOver(q, u, v)
  BY <1>1 DEF FailedOver, ActiveIn, Present
<1>5. AboutToDrop(q, u, v) /\ SwitchedIsGone(q, u, v) /\ Tidy(v)
  BY <1>1 DEF AboutToDrop, SwitchedIsGone, Tidy
<1> QED
  BY <1>1, <1>3, <1>4, <1>5 DEF WorkerSound, Busy

(* Between the two calls of a drop the target is active, or the failure    *)
(* has been noted.                                                         *)
LEMMA ActivatedSound ==
  ASSUME NEW q, NEW u \in Upstreams, NEW w \in Worker, WorkerSound(q, u, w),
         w.pc \in Busy, NEW o \in w.todo,
         ~AtTarget(o, q.to), Occupied(w.snap, o, q.to),
         NEW ok \in BOOLEAN, ok => Stands(q, u, o),
         NEW v, v = Between(w, o, ok)
  PROVE  WorkerSound(q, u, v) /\ v.pc \in Busy /\ w.log \subseteq v.log
<1> DEFINE e == Reports("error", "activate", o)
<1>1. /\ v.pc = "activated" /\ v.todo = w.todo /\ v.snap = w.snap
      /\ v.cur = {o} /\ v.log = IF ok THEN w.log ELSE w.log \cup {e}
  BY DEF Worker, Between
<1>2. e.kind = "error" /\ e.what = "activate" /\ e.at = {o}
  BY DEF Reports
<1> HIDE DEF e
<1>3. /\ SeenAsItIs(q, u, w) /\ FailedOver(q, u, w)
      /\ SwitchedIsGone(q, u, w) /\ Tidy(w)
  BY DEF WorkerSound
<1>4. SeenAsItIs(q, u, v)
  BY <1>1, <1>3 DEF SeenAsItIs
<1>5. \A x : Wrong(w.log, x) => Wrong(v.log, x)
  BY <1>1 DEF Wrong
<1>6. FailedOver(q, u, v)
  BY <1>1, <1>3, <1>5 DEF FailedOver
<1>7. ~ok => Noted(v.log, o)
  BY <1>1, <1>2 DEF Noted
<1>8. AboutToDrop(q, u, v)
  BY <1>1, <1>7 DEF AboutToDrop
<1>9. SwitchedIsGone(q, u, v)
  BY <1>1, <1>2, <1>3 DEF SwitchedIsGone
<1>10. Tidy(v)
  BY <1>1, <1>2, <1>3 DEF Tidy
<1> QED
  BY <1>1, <1>4, <1>6, <1>8, <1>9, <1>10 DEF WorkerSound, Busy

(* What the listing says of the target of an origin is still so.           *)
LEMMA OccupiedStandsIn ==
  ASSUME NEW q, q.to \in HostText, NEW u \in Upstreams, NEW w \in Worker,
         SeenAsItIs(q, u, w), NEW o \in Origin, Occupied(w.snap, o, q.to)
  PROVE  /\ StandsIn(q, u, o)
         /\ CounterpartActive(w.snap, o, q.to) => Stands(q, u, o)
<1>1. PICK p \in Present(w.snap) : Key(p) = Key(SwitchOriginHost(o, q.to))
  BY DEF Occupied, Existing
<1>2. p \in Origin
  BY DEF Present
<1> DEFINE to == q.to
<1>3. to \in HostText /\ Key(p) = Key(SwitchOriginHost(o, to))
  BY <1>1
<1> HIDE DEF to
<1>4. AtTarget(p, to)
  BY <1>2, <1>3, TargetByKey
<1>5. u[p] # "absent" /\ (w.snap[p] = "active" => u[p] = "active")
  BY <1>1, <1>4 DEF SeenAsItIs, to
<1>6. CounterpartActive(w.snap, o, q.to) => w.snap[p] = "active"
  BY <1>1 DEF CounterpartActive, ExistingActive
<1> QED
  BY <1>1, <1>2, <1>4, <1>5, <1>6
     DEF to, StandsIn, Stands, Present, ActiveIn, Target

-----------------------------------------------------------------------------
(* The state.                                                              *)

LEMMA AskedTyped ==
  ASSUME IInv, NEW j \in Job, NEW r \in Rule, Asked(j, r)
  PROVE  req[j].from \in HostText /\ req[j].to \in HostText
<1>1. Acceptable(req[j])
  BY DEF IInv, HandlersAccepted, Asked
<1> QED
  BY <1>1, AcceptableTyped DEF IInv, TypeOK

(* Applying a sound call improves every rule.                              *)
LEMMA SoundCall ==
  ASSUME TypeOK, NEW c \in Call, req[c.by].to \in HostText, NEW log,
         Sound(req[c.by], rules[c.rule], log, c), Accepts(c), Apply(c)
  PROVE  /\ \A s \in Rule : Improves(req[c.by].to, rules[s], rules'[s])
         /\ rules'[c.rule] = Applied(rules[c.rule], c)
         /\ Fits(rules[c.rule], c)
<1> DEFINE q == req[c.by]
           u == rules[c.rule]
<1>1. c.rule \in Rule /\ u \in Upstreams
  BY DEF TypeOK, Call
<1>2. rules' = [rules EXCEPT ![c.rule] = Applied(u, c)]
  BY DEF Apply, TypeOK
<1>3. rules'[c.rule] = Applied(u, c)
  BY <1>1, <1>2 DEF TypeOK
<1>4. Fits(u, c)
  BY DEF Accepts, Fits
<1>5. Improves(q.to, u, Applied(u, c))
  <2> HIDE DEF q, u
  <2>1. q.to \in HostText /\ Sound(q, u, log, c)
    BY DEF q, u
  <2> QED BY <1>1, <1>4, <2>1, AppliedImproves
<1>6. ASSUME NEW s \in Rule, s # c.rule
      PROVE  Improves(q.to, rules[s], rules'[s])
  <2>1. rules'[s] = rules[s]
    BY <1>2, <1>6 DEF TypeOK
  <2> QED BY <2>1 DEF Improves
<1> QED
  BY <1>3, <1>4, <1>5, <1>6

(* The invariant holds on, when the rules only improve and what is new is  *)
(* sound.                                                                  *)
LEMMA OutcomeKept ==
  ASSUME TypeOK, OutcomeInv, Undisturbed, TypeOK', endpoints' = endpoints,
         req' = req, NEW j \in Job,
         \A s \in Rule : Improves(req[j].to, rules[s], rules'[s]),
         \A i \in Job, s \in Rule :
           \/ worker'[i][s] = worker[i][s]
           \/ /\ WorkerSound(req[i], rules'[s], worker'[i][s])
              /\ worker[i][s].pc \in Busy =>
                   /\ worker'[i][s].pc \in Busy
                   /\ worker[i][s].log \subseteq worker'[i][s].log,
         \A c \in late' : c \in late \/ LateSound(c)'
  PROVE  OutcomeInv'
<1>1. endpoints' = Rule
  BY DEF OutcomeInv
<1>2. ASSUME NEW i \in Job
      PROVE  req[i].to = req[j].to
  BY DEF Undisturbed
<1>3. ASSUME NEW s \in Rule
      PROVE  rules[s] \in Upstreams /\ rules'[s] \in Upstreams
  BY DEF TypeOK
<1>4. ASSUME NEW i \in Job, NEW s \in Rule
      PROVE  WorkerSound(req[i], rules'[s], worker'[i][s])
  <2>1. CASE worker'[i][s] = worker[i][s]
    <3>1. worker[i][s] \in Worker
      BY DEF TypeOK
    <3>2. WorkerSound(req[i], rules[s], worker[i][s])
      BY DEF OutcomeInv
    <3>3. Improves(req[i].to, rules[s], rules'[s])
      BY <1>2
    <3> QED BY <1>3, <2>1, <3>1, <3>2, <3>3, WorkerStays
  <2> QED BY <2>1
<1>5. ASSUME NEW c \in late'
      PROVE  LateSound(c)'
  <2>1. CASE c \in late
    <3>1. LateSound(c)
      BY <2>1 DEF OutcomeInv
    <3>2. c \in Call /\ c.by \in Job /\ c.rule \in Rule
      BY <2>1 DEF TypeOK, Call
    <3>3. /\ worker'[c.by][c.rule].pc \in Busy
          /\ worker[c.by][c.rule].log \subseteq worker'[c.by][c.rule].log
      BY <3>1, <3>2 DEF LateSound
    <3>4. Improves(req[c.by].to, rules[c.rule], rules'[c.rule])
      BY <1>2, <3>2
    <3>5. Sound(req[c.by], rules[c.rule], worker[c.by][c.rule].log, c)
      BY <3>1 DEF LateSound
    <3>6. Sound(req[c.by], rules'[c.rule], worker'[c.by][c.rule].log, c)
      BY <1>3, <3>2, <3>3, <3>4, <3>5, SoundStays
    <3> QED BY <3>3, <3>6 DEF LateSound
  <2> QED BY <1>5, <2>1
<1> QED
  BY <1>1, <1>4, <1>5 DEF OutcomeInv

(* Whatever Zoraxy answers to a sound call.                                *)
LEMMA AnsweredSound ==
  ASSUME IInv, OutcomeInv, Undisturbed, NEW j \in Job, NEW r \in Rule,
         Asked(j, r), NEW c \in Call, c.by = j, c.rule = r,
         Sound(req[j], rules[r], worker[j][r].log, c),
         NEW ok \in BOOLEAN, Answers(c, ok)
  PROVE  /\ rules'[r] \in Upstreams
         /\ \A s \in Rule : Improves(req[j].to, rules[s], rules'[s])
         /\ WorkerSound(req[j], rules'[r], worker[j][r])
         /\ OnlySoundCalls
         /\ ok => rules'[r] = Applied(rules[r], c) /\ Fits(rules[r], c)
<1>1. TypeOK /\ req[j].to \in HostText /\ worker[j][r] \in Worker
  BY AskedTyped DEF IInv, TypeOK
<1>2. rules[r] \in Upstreams /\ rules'[r] \in Upstreams
  BY <1>1, AnswersTyped DEF TypeOK
<1>3. CASE ok
  <2>1. Accepts(c) /\ Apply(c)
    BY <1>3 DEF Answers, Succeeds
  <2>2. /\ \A s \in Rule : Improves(req[j].to, rules[s], rules'[s])
        /\ rules'[r] = Applied(rules[r], c) /\ Fits(rules[r], c)
    BY <1>1, <2>1, SoundCall
  <2>3. OnlySoundCalls
    BY <2>1 DEF OnlySoundCalls
  <2>4. Improves(req[j].to, rules[r], rules'[r])
    BY <2>2
  <2>5. WorkerSound(req[j], rules[r], worker[j][r])
    BY DEF OutcomeInv
  <2>6. WorkerSound(req[j], rules'[r], worker[j][r])
    BY <1>1, <1>2, <2>4, <2>5, WorkerStays
  <2> QED BY <1>2, <2>2, <2>3, <2>6
<1>4. CASE ~ok
  <2>1. rules' = rules
    BY <1>4 DEF Answers, IsRefused, TimesOut, storeVars
  <2>2. \A s \in Rule : Improves(req[j].to, rules[s], rules'[s])
    BY <2>1 DEF Improves
  <2> QED BY <1>2, <1>4, <2>1, <2>2 DEF OutcomeInv, OnlySoundCalls
<1> QED
  BY <1>3, <1>4

(* A worker moves on with the answer to a sound call.                      *)
LEMMA CallingSound ==
  ASSUME IInv, OutcomeInv, Undisturbed, IInv', NEW j \in Job, NEW r \in Rule,
         Asked(j, r), NEW c \in Call, c.by = j, c.rule = r,
         Sound(req[j], rules[r], worker[j][r].log, c),
         NEW ok \in BOOLEAN, Answers(c, ok), NEW v, Becomes(j, r, v),
         WorkerSound(req[j], rules'[r], v), v.pc \in Busy,
         worker[j][r].log \subseteq v.log
  PROVE  OutcomeInv' /\ OnlySoundCalls
<1>1. /\ OnlySoundCalls
      /\ \A s \in Rule : Improves(req[j].to, rules[s], rules'[s])
  BY AnsweredSound
<1>2. /\ TypeOK /\ TypeOK' /\ req[j].to \in HostText
      /\ endpoints' = endpoints /\ late' \subseteq late \cup {c}
  BY AskedTyped, AnswersTyped DEF IInv
<1>3. req' = req /\ worker' = [worker EXCEPT ![j][r] = v]
  BY DEF Becomes
<1>4. worker'[j][r] = v
  BY <1>2, <1>3 DEF TypeOK
<1>5. ASSUME NEW i \in Job, NEW s \in Rule
      PROVE  \/ worker'[i][s] = worker[i][s]
             \/ /\ WorkerSound(req[i], rules'[s], worker'[i][s])
                /\ worker[i][s].pc \in Busy =>
                     /\ worker'[i][s].pc \in Busy
                     /\ worker[i][s].log \subseteq worker'[i][s].log
  <2>1. CASE i = j /\ s = r
    BY <1>4, <2>1
  <2>2. CASE ~(i = j /\ s = r)
    BY <1>2, <1>3, <2>2 DEF TypeOK
  <2> QED BY <2>1, <2>2
<1>6. LateSound(c)'
  <2>1. rules[r] \in Upstreams /\ rules'[r] \in Upstreams
    BY <1>2 DEF TypeOK
  <2>2. Improves(req[j].to, rules[r], rules'[r])
    BY <1>1
  <2>3. Sound(req[j], rules'[r], v.log, c)
    BY <2>1, <2>2, SoundStays
  <2> QED BY <1>3, <1>4, <2>3 DEF LateSound
<1>7. \A d \in late' : d \in late \/ LateSound(d)'
  BY <1>2, <1>6
<1> QED
  BY <1>1, <1>2, <1>3, <1>5, <1>7, OutcomeKept

(* A worker moves on without a call.                                       *)
LEMMA LocalSound ==
  ASSUME IInv, OutcomeInv, Undisturbed, IInv', NEW j \in Job, NEW r \in Rule,
         NEW v, Becomes(j, r, v), UNCHANGED storeVars,
         WorkerSound(req[j], rules[r], v),
         worker[j][r].pc \in Busy =>
           v.pc \in Busy /\ worker[j][r].log \subseteq v.log
  PROVE  OutcomeInv' /\ OnlySoundCalls
<1>1. TypeOK /\ TypeOK'
  BY DEF IInv
<1>2. /\ req' = req /\ worker' = [worker EXCEPT ![j][r] = v]
      /\ rules' = rules /\ endpoints' = endpoints /\ late' = late
  BY DEF Becomes, storeVars
<1>3. \A s \in Rule : Improves(req[j].to, rules[s], rules'[s])
  BY <1>2 DEF Improves
<1>4. ASSUME NEW i \in Job, NEW s \in Rule
      PROVE  \/ worker'[i][s] = worker[i][s]
             \/ /\ WorkerSound(req[i], rules'[s], worker'[i][s])
                /\ worker[i][s].pc \in Busy =>
                     /\ worker'[i][s].pc \in Busy
                     /\ worker[i][s].log \subseteq worker'[i][s].log
  <2>1. CASE i = j /\ s = r
    BY <1>1, <1>2, <2>1 DEF TypeOK
  <2>2. CASE ~(i = j /\ s = r)
    BY <1>1, <1>2, <2>2 DEF TypeOK
  <2> QED BY <2>1, <2>2
<1>5. \A d \in late' : d \in late \/ LateSound(d)'
  BY <1>2
<1>6. OnlySoundCalls
  BY <1>2 DEF OnlySoundCalls
<1> QED
  BY <1>1, <1>2, <1>3, <1>4, <1>5, <1>6, OutcomeKept

-----------------------------------------------------------------------------
(* One lemma per call of the loop, then the steps.                         *)

LEMMA ActivateOutcome ==
  ASSUME IInv, OutcomeInv, Undisturbed, IInv', NEW j \in Job, NEW r \in Rule,
         Asked(j, r), NEW o \in worker[j][r].todo, ActivateCounterpart(j, r, o)
  PROVE  OutcomeInv' /\ OnlySoundCalls
<1> DEFINE w == worker[j][r]
           q == req[j]
           new == SwitchOriginHost(o, q.to)
           c == UpdateUpstream(j, r, new, new, TRUE)
<1>1. /\ w \in Worker /\ o \in Origin /\ q.to \in HostText
      /\ w.pc \in Busy /\ rules[r] \in Upstreams
  <2>1. w \in Worker /\ rules[r] \in Upstreams
    BY DEF IInv, TypeOK
  <2>2. o \in Origin
    BY <2>1 DEF Worker
  <2>3. w.pc \in Busy
    BY DEF ActivateCounterpart, ToDrop, IsNext, Busy
  <2> QED BY <2>1, <2>2, <2>3, AskedTyped
<1>2. PICK ok \in BOOLEAN :
        /\ Answers(c, ok)
        /\ Becomes(j, r, Between(w, o, ok))
  BY DEF ActivateCounterpart, Between
<1>3. new \in Origin /\ AtTarget(new, q.to)
  BY <1>1, TargetIs
<1>4. /\ c \in Call /\ c.by = j /\ c.rule = r /\ c.op = "update"
      /\ c.old = new /\ c.new = new /\ c.active
  BY <1>3 DEF UpdateUpstream, Call
<1> HIDE DEF c
<1>5. Sound(q, rules[r], w.log, c)
  BY <1>3, <1>4 DEF Sound
<1>6. /\ rules'[r] \in Upstreams
      /\ WorkerSound(q, rules'[r], w)
      /\ ok => rules'[r] = Applied(rules[r], c)
  BY <1>2, <1>4, <1>5, AnsweredSound
<1>7. ok => Stands(q, rules'[r], o)
  <2> SUFFICES ASSUME ok
               PROVE  Stands(q, rules'[r], o)
    OBVIOUS
  <2>1. rules'[r][new] = "active"
    BY <1>1, <1>3, <1>4, <1>6 DEF Applied, Upstreams, StatusOf
  <2> QED BY <1>3, <2>1 DEF Stands, ActiveIn, Target
<1>8. ~AtTarget(o, q.to) /\ Occupied(w.snap, o, q.to)
  BY DEF ActivateCounterpart, ToDrop
<1> DEFINE v == Between(w, o, ok)
<1>9. Becomes(j, r, v)
  BY <1>2
<1>10. WorkerSound(q, rules'[r], v) /\ v.pc \in Busy /\ w.log \subseteq v.log
  <2> HIDE DEF q, w
  <2> QED BY <1>1, <1>6, <1>7, <1>8, ActivatedSound DEF w
<1> HIDE DEF v
<1> QED
  BY <1>2, <1>4, <1>5, <1>9, <1>10, CallingSound

LEMMA RemoveOutcome ==
  ASSUME IInv, OutcomeInv, Undisturbed, IInv', NEW j \in Job, NEW r \in Rule,
         Asked(j, r), NEW o \in worker[j][r].todo, RemoveOrigin(j, r, o)
  PROVE  OutcomeInv' /\ OnlySoundCalls
<1> DEFINE w == worker[j][r]
           q == req[j]
           u == rules[r]
           c == RemoveUpstream(j, r, o)
<1>1. /\ w \in Worker /\ o \in Origin /\ q.to \in HostText
      /\ w.pc \in Busy /\ u \in Upstreams
  <2>1. w \in Worker /\ u \in Upstreams
    BY DEF IInv, TypeOK
  <2>2. o \in Origin
    BY <2>1 DEF Worker
  <2>3. w.pc \in Busy
    BY DEF RemoveOrigin, MayRemove, ToDrop, IsNext, Busy
  <2> QED BY <2>1, <2>2, <2>3, AskedTyped
<1>2. PICK ok \in BOOLEAN :
        /\ Answers(c, ok)
        /\ Continue(j, r, o, IF ok THEN Reports("switched", "dropped", o)
                                   ELSE Reports("error", "remove", o))
  BY DEF RemoveOrigin
<1>3. /\ c \in Call /\ c.by = j /\ c.rule = r /\ c.op = "remove" /\ c.old = o
  BY <1>1 DEF RemoveUpstream, Call
<1> HIDE DEF c
<1>4. WorkerSound(q, u, w)
  BY DEF OutcomeInv
<1>5. SeenAsItIs(q, u, w) /\ AboutToDrop(q, u, w) /\ Tidy(w)
  BY <1>1, <1>4 DEF WorkerSound
<1>6. ~AtTarget(o, q.to) /\ Occupied(w.snap, o, q.to)
  BY <1>5 DEF RemoveOrigin, MayRemove, ToDrop, AboutToDrop
<1>7. Stands(q, u, o) \/ Noted(w.log, o)
  <2>1. CASE CounterpartActive(w.snap, o, q.to)
    <3> HIDE DEF q, u, w
    <3> QED BY <1>1, <1>5, <1>6, <2>1, OccupiedStandsIn
  <2>2. CASE w.pc = "activated" /\ o \in w.cur
    BY <1>5, <2>2 DEF AboutToDrop
  <2> QED BY <2>1, <2>2 DEF RemoveOrigin, MayRemove
<1>8. Sound(q, u, w.log, c)
  BY <1>3, <1>6, <1>7 DEF Sound
<1>9. /\ rules'[r] \in Upstreams
      /\ Improves(q.to, u, rules'[r])
      /\ WorkerSound(q, rules'[r], w)
      /\ ok => rules'[r] = Applied(u, c)
  BY <1>2, <1>3, <1>8, AnsweredSound
<1>10. ok => rules'[r][o] = "absent"
  BY <1>1, <1>3, <1>9 DEF Applied, Upstreams
<1>11. StandsIn(q, rules'[r], o)
  <2>1. SeenAsItIs(q, rules'[r], w)
    BY <1>1, <1>9 DEF WorkerSound
  <2> DEFINE x == rules'[r]
  <2>2. x \in Upstreams /\ SeenAsItIs(q, x, w)
    BY <1>9, <2>1
  <2> HIDE DEF q, w, x
  <2>3. StandsIn(q, x, o)
    BY <1>1, <1>6, <2>2, OccupiedStandsIn
  <2> QED BY <2>3 DEF x
<1>12. Noted(w.log, o) => Wrong(w.log, o)
  BY <1>5 DEF Noted, Wrong, Tidy
<1>13. Stands(q, rules'[r], o) \/ Wrong(w.log, o)
  BY <1>1, <1>7, <1>9, <1>12, StandsStays
<1> DEFINE kind == IF ok THEN "switched" ELSE "error"
           what == IF ok THEN "dropped" ELSE "remove"
           v == Onward(w, o, Reports(kind, what, o))
<1>14. Becomes(j, r, v)
  BY <1>2 DEF Continue, Onward
<1>15. WorkerSound(q, rules'[r], v) /\ v.pc \in Busy /\ w.log \subseteq v.log
  <2> DEFINE x == rules'[r]
  <2>1. kind = "error" \/ kind = "switched"
    OBVIOUS
  <2>2. what # "activate" /\ (kind = "switched" => ok)
    OBVIOUS
  <2>3. /\ w.snap[o] = "active" /\ ~AtTarget(o, q.to) =>
             \/ kind = "error" \/ Wrong(w.log, o)
             \/ x[o] = "absent" /\ Stands(q, x, o)
        /\ kind = "switched" =>
             x[o] = "absent" /\ ~AtTarget(o, q.to) /\ StandsIn(q, x, o)
    BY <1>6, <1>10, <1>11, <1>13, <2>1, <2>2
  <2>4. x \in Upstreams /\ WorkerSound(q, x, w) /\ o \in w.todo
    BY <1>9
  <2>5. v = Onward(w, o, Reports(kind, what, o))
    OBVIOUS
  <2> HIDE DEF q, w, x, kind, what, v
  <2>6. WorkerSound(q, x, v) /\ v.pc \in Busy /\ w.log \subseteq v.log
    BY <1>1, <2>2, <2>3, <2>4, <2>5, ContinueSound
  <2> QED BY <2>6 DEF x
<1> HIDE DEF v
<1> QED
  BY <1>2, <1>3, <1>8, <1>14, <1>15, CallingSound

LEMMA MoveOutcome ==
  ASSUME IInv, OutcomeInv, Undisturbed, IInv', NEW j \in Job, NEW r \in Rule,
         Asked(j, r), NEW o \in worker[j][r].todo, MoveOrigin(j, r, o)
  PROVE  OutcomeInv' /\ OnlySoundCalls
<1> DEFINE w == worker[j][r]
           q == req[j]
           u == rules[r]
           new == SwitchOriginHost(o, q.to)
           c == UpdateUpstream(j, r, o, new, w.snap[o] = "active")
<1>1. /\ w \in Worker /\ o \in Origin /\ q.to \in HostText
      /\ w.pc \in Busy /\ u \in Upstreams
  <2>1. w \in Worker /\ u \in Upstreams
    BY DEF IInv, TypeOK
  <2>2. o \in Origin
    BY <2>1 DEF Worker
  <2>3. w.pc \in Busy
    BY DEF MoveOrigin, IsNext, Busy
  <2> QED BY <2>1, <2>2, <2>3, AskedTyped
<1>2. PICK ok \in BOOLEAN :
        /\ Answers(c, ok)
        /\ Continue(j, r, o, IF ok THEN Reports("switched", "moved", o)
                                   ELSE Reports("error", "update", o))
  BY DEF MoveOrigin
<1>3. new \in Origin /\ AtTarget(new, q.to)
  BY <1>1, TargetIs
<1>4. /\ c \in Call /\ c.by = j /\ c.rule = r /\ c.op = "update"
      /\ c.old = o /\ c.new = new /\ c.active = (w.snap[o] = "active")
  BY <1>1, <1>3 DEF UpdateUpstream, Call
<1> HIDE DEF c
<1>5. WorkerSound(q, u, w)
  BY DEF OutcomeInv
<1>6. SeenAsItIs(q, u, w) /\ Tidy(w)
  BY <1>1, <1>5 DEF WorkerSound
<1>7. ~AtTarget(o, q.to) /\ u[o] \in {w.snap[o], "absent"}
  <2>1. ~AtTarget(o, q.to)
    BY DEF MoveOrigin
  <2>2. o \in Present(w.snap)
    BY <1>6 DEF Tidy
  <2> QED BY <1>6, <2>1, <2>2 DEF SeenAsItIs
<1>8. Sound(q, u, w.log, c)
  BY <1>4, <1>7 DEF Sound, Target
<1>9. /\ rules'[r] \in Upstreams
      /\ WorkerSound(q, rules'[r], w)
      /\ ok => rules'[r] = Applied(u, c)
  BY <1>2, <1>4, <1>8, AnsweredSound
<1>10. ASSUME ok
       PROVE  /\ rules'[r][o] = "absent"
              /\ StandsIn(q, rules'[r], o)
              /\ w.snap[o] = "active" => Stands(q, rules'[r], o)
  <2>1. o # new
    BY <1>3, <1>7
  <2>2. /\ rules'[r][o] = "absent"
        /\ rules'[r][new] = StatusOf(w.snap[o] = "active")
    BY <1>1, <1>3, <1>4, <1>9, <1>10, <2>1 DEF Applied, Upstreams
  <2>3. new \in Present(rules'[r])
    BY <1>3, <2>2 DEF Present, StatusOf
  <2>4. w.snap[o] = "active" => new \in ActiveIn(rules'[r])
    BY <1>3, <2>2 DEF ActiveIn, StatusOf
  <2> QED BY <1>3, <2>2, <2>3, <2>4 DEF StandsIn, Stands, Target
<1> DEFINE kind == IF ok THEN "switched" ELSE "error"
           what == IF ok THEN "moved" ELSE "update"
           v == Onward(w, o, Reports(kind, what, o))
<1>11. Becomes(j, r, v)
  BY <1>2 DEF Continue, Onward
<1>12. WorkerSound(q, rules'[r], v) /\ v.pc \in Busy /\ w.log \subseteq v.log
  <2> DEFINE x == rules'[r]
  <2>1. /\ what # "activate" /\ (kind = "switched" => ok)
        /\ kind = "error" \/ ok
    OBVIOUS
  <2>2. /\ w.snap[o] = "active" /\ ~AtTarget(o, q.to) =>
             \/ kind = "error" \/ Wrong(w.log, o)
             \/ x[o] = "absent" /\ Stands(q, x, o)
        /\ kind = "switched" =>
             x[o] = "absent" /\ ~AtTarget(o, q.to) /\ StandsIn(q, x, o)
    BY <1>7, <1>10, <2>1
  <2>3. x \in Upstreams /\ WorkerSound(q, x, w) /\ o \in w.todo
    BY <1>9
  <2>4. v = Onward(w, o, Reports(kind, what, o))
    OBVIOUS
  <2> HIDE DEF q, w, x, kind, what, v
  <2>5. WorkerSound(q, x, v) /\ v.pc \in Busy /\ w.log \subseteq v.log
    BY <1>1, <2>1, <2>2, <2>3, <2>4, ContinueSound
  <2> QED BY <2>5 DEF x
<1> HIDE DEF v
<1> QED
  BY <1>2, <1>4, <1>8, <1>11, <1>12, CallingSound

(* The steps that make no call.                                            *)
LEMMA SkipOutcome ==
  ASSUME IInv, OutcomeInv, Undisturbed, IInv', NEW j \in Job, NEW r \in Rule,
         NEW o \in worker[j][r].todo,
         SkipAtTarget(j, r, o) \/ SkipExisting(j, r, o)
  PROVE  OutcomeInv' /\ OnlySoundCalls
<1> DEFINE w == worker[j][r]
           q == req[j]
           u == rules[r]
<1>1. w \in Worker /\ u \in Upstreams /\ WorkerSound(q, u, w) /\ w.pc \in Busy
  BY DEF IInv, TypeOK, OutcomeInv, SkipAtTarget, SkipExisting, IsNext, Busy
<1>2. PICK what : /\ what # "activate"
                  /\ Continue(j, r, o, Reports("skipped", what, o))
                  /\ UNCHANGED storeVars
  BY DEF SkipAtTarget, SkipExisting
<1>3. AtTarget(o, q.to) \/ w.snap[o] = "inactive"
  BY DEF SkipAtTarget, SkipExisting
<1> DEFINE v == Onward(w, o, Reports("skipped", what, o))
<1>4. Becomes(j, r, v)
  BY <1>2 DEF Continue, Onward
<1>5. WorkerSound(q, u, v) /\ v.pc \in Busy /\ w.log \subseteq v.log
  <2>1. what # "activate" /\ o \in w.todo
    BY <1>2
  <2> DEFINE kind == "skipped"
  <2>2. /\ kind # "switched"
        /\ v = Onward(w, o, Reports(kind, what, o))
    OBVIOUS
  <2>3. ~(w.snap[o] = "active" /\ ~AtTarget(o, q.to))
    BY <1>3
  <2> HIDE DEF q, u, w, v, kind
  <2> QED BY <1>1, <2>1, <2>2, <2>3, ContinueSound
<1> HIDE DEF v
<1> QED
  BY <1>2, <1>4, <1>5, LocalSound

LEMMA ListOutcome ==
  ASSUME IInv, OutcomeInv, Undisturbed, IInv', NEW j \in Job, NEW r \in Rule,
         \/ ListUpstreams(j, r) \/ ListAnsweredWithErrorBody(j, r)
         \/ ListUpstreamsFails(j, r)
  PROVE  OutcomeInv' /\ OnlySoundCalls
<1> DEFINE w == worker[j][r]
           q == req[j]
           u == rules[r]
<1>1. w \in Worker /\ u \in Upstreams /\ w.pc \notin Busy
  BY DEF IInv, TypeOK, ListUpstreams, ListAnsweredWithErrorBody,
         ListUpstreamsFails, Busy
<1>2. PICK snap \in {u, NoUpstreams}, g \in SUBSET Entry :
        /\ \A e \in g : e.kind = "error" /\ e.at = {}
        /\ Lists(j, r, snap, g)
        /\ UNCHANGED storeVars
  <2>1. [kind |-> "error", what |-> "list", at |-> {}] \in Entry
    BY DEF Entry
  <2> QED BY <2>1 DEF ListUpstreams, ListAnsweredWithErrorBody, ListUpstreamsFails
<1> DEFINE v == [w EXCEPT !.pc = "looping", !.snap = snap,
                   !.todo = {o \in Present(snap) : PointsAt(o, q.from)},
                   !.log = g]
<1>3. Becomes(j, r, v)
  BY <1>2 DEF Lists
<1>4. WorkerSound(q, u, v)
  <2>1. snap \in Upstreams
    BY <1>1, NoUpstreamsTyped
  <2> HIDE DEF q, u, w
  <2> QED BY <1>1, <1>2, <2>1, ListsSound
<1> HIDE DEF v
<1> QED
  BY <1>1, <1>2, <1>3, <1>4, LocalSound

LEMMA GateOutcome ==
  ASSUME IInv, OutcomeInv, Undisturbed, IInv', NEW j \in Job, NEW r \in Rule,
         Acquire(j, r) \/ Publish(j, r)
  PROVE  OutcomeInv' /\ OnlySoundCalls
<1> DEFINE w == worker[j][r]
<1>1. w \in Worker /\ WorkerSound(req[j], rules[r], w)
  BY DEF IInv, TypeOK, OutcomeInv
<1>2. CASE Acquire(j, r)
  <2> DEFINE v == [w EXCEPT !.pc = "running"]
  <2>1. /\ Becomes(j, r, v) /\ UNCHANGED storeVars
        /\ w.pc \notin Busy /\ v.pc \notin Busy
    BY <1>1, <1>2 DEF Acquire, Worker, Busy
  <2>2. WorkerSound(req[j], rules[r], v)
    BY <2>1 DEF WorkerSound
  <2> HIDE DEF v
  <2> QED BY <2>1, <2>2, LocalSound
<1>3. CASE Publish(j, r)
  <2> DEFINE v == [w EXCEPT !.pc = "done"]
  <2>1. /\ Becomes(j, r, v) /\ UNCHANGED storeVars
        /\ w.pc \in Busy /\ w.todo = {}
        /\ v.pc = "done" /\ v.pc \in Busy
        /\ v.snap = w.snap /\ v.todo = w.todo /\ v.log = w.log
    BY <1>1, <1>3 DEF Publish, Worker, Busy
  <2> HIDE DEF v
  <2>2. WorkerSound(req[j], rules[r], v)
    BY <1>1, <2>1 DEF WorkerSound, SeenAsItIs, FailedOver, AboutToDrop,
                      SwitchedIsGone, Tidy
  <2> QED BY <2>1, <2>2, LocalSound
<1> QED
  BY <1>2, <1>3

LEMMA WorkerOutcome ==
  ASSUME IInv, OutcomeInv, Undisturbed, NEW j \in Job, NEW r \in Rule,
         WorkerStep(j, r)
  PROVE  OutcomeInv' /\ OnlySoundCalls
<1>1. IInv'
  BY WorkerStepKeeps
<1>2. worker[j][r].pc # "none"
  BY DEF WorkerStep, LoopStep, Acquire, ListUpstreams,
         ListAnsweredWithErrorBody, ListUpstreamsFails, Publish,
         SkipAtTarget, SkipExisting, ActivateCounterpart, RemoveOrigin,
         MayRemove, ToDrop, MoveOrigin, IsNext
<1>3. Asked(j, r)
  BY <1>2 DEF IInv, WorkersAsked
<1> QED
  BY <1>1, <1>3, GateOutcome, ListOutcome, SkipOutcome, ActivateOutcome,
     RemoveOutcome, MoveOutcome DEF WorkerStep, LoopStep

(* The handler starts workers that have seen nothing yet.                  *)
LEMMA HandlerOutcome ==
  ASSUME IInv, OutcomeInv, Undisturbed, NEW j \in Job, HandlerStep(j)
  PROVE  OutcomeInv' /\ OnlySoundCalls
<1>1. TypeOK /\ TypeOK'
  BY HandlerKeeps DEF IInv
<1>2. UNCHANGED <<req, rules, endpoints, late>>
  BY DEF HandlerStep, Receive, ListEndpointsFails, StartWorkers, Reply, storeVars
<1>3. \A s \in Rule : Improves(req[j].to, rules[s], rules'[s])
  BY <1>2 DEF Improves
<1>4. ASSUME NEW i \in Job, NEW s \in Rule, worker'[i][s] # worker[i][s]
      PROVE  worker[i][s].pc \notin Busy /\ worker'[i][s].pc \notin Busy
  <2>1. i = j /\ phase[j] = "listing" /\ worker'[i][s] = Queued(worker[i][s])
    BY <1>1, <1>4 DEF TypeOK, HandlerStep, Receive, ListEndpointsFails,
                      StartWorkers, Reply
  <2>2. worker[i][s].pc = "none"
    BY <2>1 DEF IInv, WorkersAsked, Asked
  <2>3. worker[i][s] \in Worker
    BY <1>1 DEF TypeOK
  <2>4. Queued(worker[i][s]).pc = "queued"
    BY <2>3 DEF Queued, Worker
  <2> QED BY <2>1, <2>2, <2>4 DEF Busy
<1>5. \A i \in Job, s \in Rule :
        \/ worker'[i][s] = worker[i][s]
        \/ /\ WorkerSound(req[i], rules'[s], worker'[i][s])
           /\ worker[i][s].pc \in Busy =>
                /\ worker'[i][s].pc \in Busy
                /\ worker[i][s].log \subseteq worker'[i][s].log
  BY <1>4 DEF WorkerSound
<1>6. OnlySoundCalls /\ \A c \in late' : c \in late \/ LateSound(c)'
  BY <1>2 DEF OnlySoundCalls
<1> QED
  BY <1>1, <1>2, <1>3, <1>5, <1>6, OutcomeKept

(* A call that was given up is as sound when it arrives.                   *)
LEMMA LateOutcome ==
  ASSUME IInv, OutcomeInv, Undisturbed, ArriveLate,
         UNCHANGED <<phase, req, worker>>
  PROVE  OutcomeInv' /\ OnlySoundCalls
<1>1. TypeOK /\ TypeOK'
  BY ArriveLateKeeps DEF IInv
<1>2. PICK c \in late : /\ late' = late \ {c}
                        /\ IF Accepts(c) THEN Apply(c) ELSE UNCHANGED rules
                        /\ endpoints' = endpoints
  BY DEF ArriveLate
<1>3. c \in Call /\ c.by \in Job /\ c.rule \in Rule /\ LateSound(c)
  BY <1>1 DEF TypeOK, Call, OutcomeInv
<1>4. req[c.by].to \in HostText
  BY <1>3, AskedTyped DEF IInv, LateOrdered, Ordered
<1>5. OnlySoundCalls /\ \A s \in Rule : Improves(req[c.by].to, rules[s], rules'[s])
  <2>1. CASE Accepts(c)
    <3>1. Asked(c.by, c.rule)
      BY DEF IInv, LateOrdered, Ordered
    <3> QED BY <1>1, <1>2, <1>3, <1>4, <2>1, <3>1, SoundCall
               DEF LateSound, OnlySoundCalls
  <2>2. CASE ~Accepts(c)
    BY <1>2, <2>2 DEF Improves, OnlySoundCalls
  <2> QED BY <2>1, <2>2
<1>6. \A d \in late' : d \in late \/ LateSound(d)'
  BY <1>2
<1> QED
  BY <1>1, <1>2, <1>3, <1>5, <1>6, OutcomeKept

LEMMA InitOutcome == Init => OutcomeInv
<1> SUFFICES ASSUME Init PROVE OutcomeInv
  OBVIOUS
<1>1. \A j \in Job, r \in Rule : worker[j][r].pc \notin Busy
  BY DEF Init, NewWorker, Busy
<1> QED
  BY <1>1 DEF Init, OutcomeInv, WorkerSound

LEMMA StepOutcome ==
  ASSUME IInv, OutcomeInv, [Next]_vars
  PROVE  OutcomeInv' /\ (Undisturbed' => OnlySoundCalls)
<1> SUFFICES ASSUME Undisturbed'
             PROVE  OutcomeInv' /\ OnlySoundCalls
  BY DEF OutcomeInv
<1>1. ASSUME NEW j \in Job, HandlerStep(j)
      PROVE  req' = req /\ edits' = edits
  BY <1>1 DEF HandlerStep, Receive, ListEndpointsFails, StartWorkers, Reply,
              storeVars
<1>2. ASSUME NEW j \in Job, NEW r \in Rule, WorkerStep(j, r)
      PROVE  req' = req /\ edits' = edits
  BY <1>2 DEF WorkerStep, LoopStep, Acquire, ListUpstreams,
         ListAnsweredWithErrorBody, ListUpstreamsFails, Lists, Publish,
         SkipAtTarget, SkipExisting, ActivateCounterpart, RemoveOrigin,
         MoveOrigin, Continue, Becomes, Answers, Succeeds, IsRefused, TimesOut,
         storeVars
<1>3. ~(OthersAct /\ UNCHANGED <<phase, req, worker>>)
  <2> SUFFICES ASSUME OthersAct PROVE FALSE
    OBVIOUS
  <2>1. edits' = edits + 1 /\ edits \in Nat
    BY StoreAssumption DEF OthersAct, AdminSetsOrigin, AdminDeletesRule,
         ApplyUpstream, Edit, IInv, TypeOK
  <2> QED BY <2>1 DEF Undisturbed
<1>4. CASE StoreStep
  <2>1. ArriveLate /\ UNCHANGED <<phase, req, worker, edits>>
    BY <1>3, <1>4 DEF StoreStep, ArriveLate
  <2>2. Undisturbed
    BY <2>1 DEF Undisturbed
  <2> QED BY <2>1, <2>2, LateOutcome
<1>5. CASE \E j \in Job : HandlerStep(j) \/ \E r \in Rule : WorkerStep(j, r)
  <2>1. Undisturbed
    BY <1>1, <1>2, <1>5 DEF Undisturbed
  <2> QED BY <1>5, <2>1, HandlerOutcome, WorkerOutcome
<1>6. CASE UNCHANGED vars
  <2>1. /\ endpoints' = endpoints /\ rules' = rules /\ worker' = worker
        /\ req' = req /\ late' = late /\ edits' = edits
    BY <1>6 DEF vars
  <2>2. Undisturbed
    BY <2>1 DEF Undisturbed
  <2> QED BY <2>1, <2>2 DEF OutcomeInv, LateSound, OnlySoundCalls
<1> QED
  BY <1>4, <1>5, <1>6 DEF Next, Finished

-----------------------------------------------------------------------------
(* What follows.                                                           *)

(* A sound call takes the last active origin of a port and path away only  *)
(* after a failed activation that its worker has noted.                    *)
LEMMA LostOnlyIfNoted ==
  ASSUME NEW q, q.to \in HostText, NEW u \in Upstreams, NEW log, NEW c \in Call,
         Sound(q, u, log, c), Fits(u, c),
         NEW x \in Served(u) \ Served(Applied(u, c))
  PROVE  Noted(log, c.old) /\ Fold[c.old.rest] = x
<1> DEFINE v == Applied(u, c)
           to == q.to
<1>1. PICK o \in ActiveIn(u) : Fold[o.rest] = x
  BY DEF Served
<1>2. \A p \in ActiveIn(v) : Fold[p.rest] # x
  BY DEF Served
<1>3. /\ o \in Origin /\ c.old \in Origin /\ c.new \in Origin
      /\ u[o] = "active" /\ o \notin ActiveIn(v)
  BY <1>1, <1>2 DEF ActiveIn, Call
<1>4. to \in HostText
  OBVIOUS
<1>5. CASE c.op = "remove"
  <2>1. \A p \in Origin : v[p] = IF p = c.old THEN "absent" ELSE u[p]
    BY <1>3, <1>5 DEF Applied, Upstreams
  <2>2. o = c.old
    BY <1>3, <2>1 DEF ActiveIn
  <2>3. ~AtTarget(o, to) /\ (Stands(q, u, o) \/ Noted(log, o))
    BY <1>5, <2>2 DEF Sound
  <2>4. ASSUME NEW p \in ActiveIn(u), AtTarget(p, to), Key(p) = Key(Target(q, o))
        PROVE  FALSE
    <3>1. p \in Origin /\ Key(p) = Key(SwitchOriginHost(o, to))
      BY <2>4 DEF ActiveIn, Target
    <3> HIDE DEF to, v
    <3>2. Fold[p.rest] = Fold[o.rest]
      BY <1>3, <1>4, <3>1, TargetByKey
    <3>3. p \in ActiveIn(v)
      BY <2>1, <2>2, <2>3, <2>4, <3>1 DEF ActiveIn
    <3> QED BY <1>1, <1>2, <3>2, <3>3
  <2> QED BY <1>1, <2>2, <2>3, <2>4 DEF Stands
<1>6. CASE c.op # "remove"
  <2>1. \A p \in Origin : v[p] = IF p = c.new THEN StatusOf(c.active)
                                 ELSE IF p = c.old THEN "absent" ELSE u[p]
    BY <1>3, <1>6 DEF Applied, Upstreams
  <2>2. CASE c.old = c.new /\ c.active /\ AtTarget(c.new, to)
    BY <1>3, <2>1, <2>2 DEF ActiveIn, StatusOf
  <2>3. CASE /\ c.new = Target(q, c.old) /\ ~AtTarget(c.old, to)
             /\ u[c.old] # "absent" => (c.active <=> u[c.old] = "active")
    <3>1. AtTarget(c.new, to) /\ c.new.rest = c.old.rest
      <4>1. c.new = SwitchOriginHost(c.old, to)
        BY <2>3 DEF Target
      <4> HIDE DEF to
      <4> QED BY <1>3, <1>4, <4>1, TargetIs
    <3>2. u[c.new] = "absent"
      BY <1>6, <2>3, <3>1 DEF Fits, Call
    <3>3. o = c.old
      BY <1>3, <2>1, <3>2 DEF ActiveIn
    <3>4. c.new \in ActiveIn(v)
      BY <1>3, <2>1, <2>3, <3>3 DEF ActiveIn, StatusOf
    <3> QED BY <1>1, <1>2, <3>1, <3>3, <3>4
  <2> QED BY <1>6, <2>2, <2>3 DEF Sound
<1> QED
  BY <1>5, <1>6

(* With requests for the same two hosts only and no edits, for any numbers *)
(* of requests and rules and every fault, what a worker has listed and     *)
(* reported stays true of its rule, late calls included.                   *)
THEOREM OutcomesStay == Spec => []OutcomeInv
<1>1. IInv /\ OutcomeInv /\ [Next]_vars => OutcomeInv'
  BY StepOutcome
<1> QED
  BY <1>1, InitOutcome, Invariance, PTL DEF Spec

(* A rule that handleBulkSwitch reports without an error has failed over:  *)
(* every active origin of the source host is gone, and an active one with  *)
(* the text it was to get is there.                                        *)
THEOREM CleanRepliesHold == Spec => []CleanReplyMeansFailedOver
<1>1. OutcomeInv => CleanReplyMeansFailedOver
  <2> SUFFICES ASSUME OutcomeInv, Undisturbed, NEW j \in Job, NEW r \in Rule,
                      CleanReply(j, r), NEW o \in ActiveIn(worker[j][r].snap),
                      PointsAt(o, req[j].from), ~AtTarget(o, req[j].to)
               PROVE  /\ rules[r][o] # "active"
                      /\ \E p \in ActiveIn(rules[r]) :
                           Key(p) = Key(SwitchOriginHost(o, req[j].to))
    BY DEF CleanReplyMeansFailedOver
  <2> DEFINE w == worker[j][r]
  <2>1. w.pc = "done" /\ ~Wrong(w.log, o)
    BY DEF CleanReply, Done, Wrong
  <2>2. FailedOver(req[j], rules[r], w) /\ w.todo = {}
    BY <2>1 DEF OutcomeInv, WorkerSound, Busy, Tidy
  <2>3. rules[r][o] = "absent" /\ Stands(req[j], rules[r], o)
    BY <2>1, <2>2 DEF FailedOver
  <2> QED BY <2>3 DEF Stands, Target
<1> QED
  BY <1>1, OutcomesStay, PTL

(* No served port and path of a rule is lost but by the removal of an      *)
(* origin whose target could not be made active, which the result list     *)
(* says.                                                                   *)
THEOREM ServedIsKeptOrNoted == Spec => ServedLostOnlyAfterFailedActivation
<1> DEFINE Kept == \A r \in Rule : \A x \in Served(rules[r]) \ Served(rules'[r]) :
              \E j \in Job : \E e \in worker[j][r].log :
                e.what = "activate" /\ \E o \in e.at : Fold[o.rest] = x
<1>1. ASSUME IInv, OutcomeInv, [Next]_vars, Undisturbed'
      PROVE  Kept
  <2> SUFFICES ASSUME NEW r \in Rule, NEW x \in Served(rules[r]) \ Served(rules'[r])
               PROVE  \E j \in Job : \E e \in worker[j][r].log :
                        e.what = "activate" /\ \E o \in e.at : Fold[o.rest] = x
    OBVIOUS
  <2>1. rules' # rules
    OBVIOUS
  <2>2. PICK c \in Call :
          /\ Accepts(c) /\ Apply(c)
          /\ Sound(req[c.by], rules[c.rule], worker[c.by][c.rule].log, c)
          /\ Asked(c.by, c.rule)
    BY <1>1, <2>1, StepOutcome DEF OnlySoundCalls
  <2>3. c.by \in Job /\ c.rule \in Rule /\ rules \in [Rule -> Upstreams]
    BY <1>1 DEF Call, IInv, TypeOK
  <2>4. r = c.rule /\ rules'[r] = Applied(rules[r], c)
    BY <2>2, <2>3 DEF Apply
  <2>5. req[c.by].to \in HostText
    BY <1>1, <2>2, <2>3, AskedTyped
  <2>6. Fits(rules[r], c)
    BY <2>2, <2>4 DEF Accepts, Fits
  <2>7. Noted(worker[c.by][r].log, c.old) /\ Fold[c.old.rest] = x
    BY <2>2, <2>3, <2>4, <2>5, <2>6, LostOnlyIfNoted
  <2> QED BY <2>3, <2>7 DEF Noted
<1> QED
  BY <1>1, OutcomesStay, Invariance, PTL
     DEF Spec, ServedLostOnlyAfterFailedActivation

-----------------------------------------------------------------------------
(* The failover a rule is promised.                                        *)

(* Nothing goes wrong, nobody else is at work, and all requests are for    *)
(* the same two hosts.                                                     *)
Quiet ==
  /\ Faults = {}
  /\ MaxEdits = 0
  /\ \A p, q \in Requests : p.from = q.from /\ p.to = q.to

(* Nothing is written in two letter cases.                                 *)
OneSpelling ==
  /\ \A g, h \in HostText : Fold[g] = Fold[h] => g = h
  /\ \A x, y \in Rest : Fold[x] = Fold[y] => x = y

NothingNoted ==
  \A j \in Job, r \in Rule : \A e \in worker[j][r].log : e.what # "activate"

LEMMA QuietUndisturbed ==
  ASSUME Quiet, TypeOK
  PROVE  Undisturbed
  BY DEF Quiet, TypeOK, Undisturbed

LEMMA SameText ==
  ASSUME OneSpelling, NEW o \in Origin, NEW p \in Origin, Key(o) = Key(p)
  PROVE  o = p
  BY DEF OneSpelling, Origin, Key

(* A sound call is a step of the promise, unless it removes an origin      *)
(* although the activation of its target failed.                           *)
LEMMA SoundIsPromised ==
  ASSUME TypeOK, NEW c \in Call, req[c.by].to \in HostText, NEW log,
         Sound(req[c.by], rules[c.rule], log, c), Accepts(c), Apply(c),
         ~Noted(log, c.old)
  PROVE  Promise!Next \/ rules' = rules
<1> DEFINE q == req[c.by]
           r == c.rule
           u == rules[r]
           to == q.to
<1>1. /\ r \in Rule /\ u \in Upstreams /\ to \in HostText
      /\ c.old \in Origin /\ c.new \in Origin
      /\ rules' = [rules EXCEPT ![r] = Applied(u, c)]
      /\ rules \in [Rule -> Upstreams]
  BY DEF TypeOK, Call, Apply
<1>2. Promise!Origin = Origin
  BY DEF Promise!Origin, Origin
<1>3. Sound(q, u, log, c) /\ u[c.old] # "absent"
  BY DEF Accepts
<1>4. CASE c.op = "remove"
  <2>1. ~AtTarget(c.old, to) /\ Stands(q, u, c.old)
    BY <1>3, <1>4 DEF Sound
  <2>2. PICK p \in ActiveIn(u) : AtTarget(p, to) /\ Key(p) = Key(Target(q, c.old))
    BY <2>1 DEF Stands
  <2>3. p \in Origin /\ Key(p) = Key(SwitchOriginHost(c.old, to))
    BY <2>2 DEF ActiveIn, Target
  <2> HIDE DEF to, q, u, r
  <2>4. p # c.old /\ Fold[p.rest] = Fold[c.old.rest]
    BY <1>1, <2>1, <2>2, <2>3, TargetByKey
  <2>5. rules' = [rules EXCEPT ![r] = [u EXCEPT ![c.old] = "absent"]]
    BY <1>1, <1>4 DEF Applied
  <2>6. Promise!Retire(r, c.old, p)
    BY <1>1, <1>2, <2>2, <2>4, <2>5
       DEF Promise!Retire, Promise!Changes, Promise!ActiveIn, ActiveIn, u
  <2> QED BY <1>1, <1>2, <2>3, <2>6 DEF Promise!Next
<1>5. CASE c.op # "remove" /\ c.old = c.new /\ c.active
  <2> HIDE DEF to, q, u, r
  <2>1. Applied(u, c) = [u EXCEPT ![c.new] = "active"]
    BY <1>1, <1>5 DEF Applied, StatusOf, Upstreams
  <2>2. CASE u[c.new] = "active"
    <3>1. Applied(u, c) = u
      BY <1>1, <2>1, <2>2 DEF Upstreams
    <3> QED BY <1>1, <3>1 DEF u
  <2>3. CASE u[c.new] # "active"
    <3>1. u[c.new] = "inactive"
      BY <1>1, <1>3, <1>5, <2>3 DEF Upstreams, Status
    <3>2. Promise!Activate(r, c.new)
      BY <1>1, <2>1, <3>1 DEF Promise!Activate, Promise!Changes, u
    <3> QED BY <1>1, <1>2, <3>2 DEF Promise!Next
  <2> QED BY <2>2, <2>3
<1>6. CASE /\ c.op # "remove" /\ c.new = Target(q, c.old) /\ ~AtTarget(c.old, to)
           /\ u[c.old] # "absent" => (c.active <=> u[c.old] = "active")
  <2>1. c.new = SwitchOriginHost(c.old, to) /\ ~AtTarget(c.old, to)
    BY <1>6 DEF Target
  <2>2. c.op = "update" /\ (c.new # c.old => u[c.new] = "absent")
    BY <1>6 DEF Call, Accepts
  <2> HIDE DEF to, q, u, r
  <2>3. AtTarget(c.new, to) /\ c.new.rest = c.old.rest
    BY <1>1, <2>1, TargetIs
  <2>4. c.new # c.old /\ u[c.new] = "absent"
    BY <2>1, <2>2, <2>3
  <2>5. StatusOf(c.active) = u[c.old]
    BY <1>1, <1>3, <1>6 DEF StatusOf, Upstreams, Status
  <2>6. rules' = [rules EXCEPT ![r] =
                    [u EXCEPT ![c.old] = "absent", ![c.new] = u[c.old]]]
    BY <1>1, <1>6, <2>5 DEF Applied
  <2>7. Promise!Move(r, c.old, c.new)
    BY <1>1, <1>2, <1>3, <2>3, <2>4, <2>6
       DEF Promise!Move, Promise!Changes, Promise!Present, u
  <2> QED BY <1>1, <1>2, <2>7 DEF Promise!Next
<1> QED
  BY <1>3, <1>4, <1>5, <1>6 DEF Sound

(* In quiet a target that was listed can be activated.                     *)
LEMMA ActivationSucceeds ==
  ASSUME Quiet, OneSpelling, IInv, OutcomeInv, NEW j \in Job, NEW r \in Rule,
         Asked(j, r), NEW o \in worker[j][r].todo,
         ActivateCounterpart(j, r, o)
  PROVE  \A e \in worker'[j][r].log : e \in worker[j][r].log
<1> DEFINE w == worker[j][r]
           q == req[j]
           u == rules[r]
           to == q.to
           new == SwitchOriginHost(o, to)
           c == UpdateUpstream(j, r, new, new, TRUE)
<1>1. /\ w \in Worker /\ o \in Origin /\ to \in HostText
      /\ w.pc \in Busy /\ u \in Upstreams
  <2>1. w \in Worker /\ u \in Upstreams
    BY DEF IInv, TypeOK
  <2>2. o \in Origin
    BY <2>1 DEF Worker
  <2>3. w.pc \in Busy
    BY DEF ActivateCounterpart, ToDrop, IsNext, Busy
  <2> QED BY <2>1, <2>2, <2>3, AskedTyped
<1>2. PICK ok \in BOOLEAN :
        Answers(c, ok) /\ Becomes(j, r, Between(w, o, ok))
  BY DEF ActivateCounterpart, Between
<1>3. Undisturbed
  BY QuietUndisturbed DEF IInv
<1>4. SeenAsItIs(q, u, w) /\ endpoints = Rule
  BY <1>1, <1>3 DEF OutcomeInv, WorkerSound
<1>5. Occupied(w.snap, o, to)
  BY DEF ActivateCounterpart, ToDrop
<1>6. StandsIn(q, u, o)
  <2> HIDE DEF q, u, w
  <2> QED BY <1>1, <1>4, <1>5, OccupiedStandsIn
<1>7. PICK p \in Origin : u[p] # "absent" /\ Key(p) = Key(new)
  BY <1>6 DEF StandsIn, Present, Target
<1>8. new \in Origin
  BY <1>1, TargetIs
<1>9. p = new
  BY <1>7, <1>8, SameText
<1>10. Accepts(c)
  BY <1>4, <1>7, <1>9 DEF Accepts, UpdateUpstream
<1>11. ok
  BY <1>2, <1>10 DEF Answers, IsRefused, TimesOut, Quiet
<1>12. Between(w, o, ok).log = w.log
  BY <1>1, <1>11 DEF Between, Worker
<1>13. worker'[j][r] = Between(w, o, ok)
  BY <1>2 DEF Becomes, IInv, TypeOK
<1> QED
  BY <1>12, <1>13

(* In quiet no activation fails.                                           *)
LEMMA WorkerNotesNothing ==
  ASSUME Quiet, OneSpelling, IInv, OutcomeInv, NothingNoted,
         NEW j \in Job, NEW r \in Rule, WorkerStep(j, r)
  PROVE  NothingNoted'
<1> DEFINE w == worker[j][r]
<1>1. w \in Worker /\ \A e \in w.log : e.what # "activate"
  BY DEF IInv, TypeOK, NothingNoted
<1>2. Asked(j, r)
  <2>1. w.pc # "none"
    BY DEF WorkerStep, LoopStep, Acquire, ListUpstreams,
           ListAnsweredWithErrorBody, ListUpstreamsFails, Publish,
           SkipAtTarget, SkipExisting, ActivateCounterpart, RemoveOrigin,
           MayRemove, ToDrop, MoveOrigin, IsNext
  <2> QED BY <2>1 DEF IInv, WorkersAsked
<1>3. PICK v : Becomes(j, r, v)
  BY DEF WorkerStep, LoopStep, Acquire, ListUpstreams,
         ListAnsweredWithErrorBody, ListUpstreamsFails, Lists, Publish,
         SkipAtTarget, SkipExisting, ActivateCounterpart, RemoveOrigin,
         MoveOrigin, Continue
<1>4. worker' = [worker EXCEPT ![j][r] = v] /\ worker'[j][r] = v
  BY <1>3 DEF Becomes, IInv, TypeOK
<1>5. \A e \in v.log : e.what # "activate"
  <2>1. CASE Acquire(j, r) \/ Publish(j, r)
    <3>1. PICK p : Becomes(j, r, [w EXCEPT !.pc = p])
      BY <2>1 DEF Acquire, Publish
    <3>2. v = [w EXCEPT !.pc = p]
      BY <1>4, <3>1 DEF Becomes, IInv, TypeOK
    <3>3. v.log = w.log
      BY <1>1, <3>2 DEF Worker
    <3> QED BY <1>1, <3>3
  <2>2. CASE \/ ListUpstreams(j, r) \/ ListAnsweredWithErrorBody(j, r)
             \/ ListUpstreamsFails(j, r)
    <3>1. PICK u, g : /\ Lists(j, r, u, g)
                      /\ \A e \in g : e.what # "activate"
      <4>1. \A e \in {[kind |-> "error", what |-> "list", at |-> {}]} :
              e.what # "activate"
        OBVIOUS
      <4> QED BY <2>2, <4>1 DEF ListUpstreams, ListAnsweredWithErrorBody,
                                ListUpstreamsFails
    <3> DEFINE l == [w EXCEPT !.pc = "looping", !.snap = u,
                       !.todo = {o \in Present(u) : PointsAt(o, req[j].from)},
                       !.log = g]
    <3>2. Becomes(j, r, l) /\ l.log = g
      BY <1>1, <3>1 DEF Lists, Worker
    <3> HIDE DEF l
    <3>3. v = l
      BY <1>4, <3>2 DEF Becomes, IInv, TypeOK
    <3> QED BY <3>1, <3>2, <3>3
  <2>3. ASSUME NEW o \in w.todo, ActivateCounterpart(j, r, o)
        PROVE  \A e \in v.log : e.what # "activate"
    <3>1. \A e \in v.log : e \in w.log
      BY <1>2, <1>4, <2>3, ActivationSucceeds
    <3> QED BY <1>1, <3>1
  <2>4. ASSUME NEW o \in w.todo,
               \/ SkipAtTarget(j, r, o) \/ SkipExisting(j, r, o)
               \/ RemoveOrigin(j, r, o) \/ MoveOrigin(j, r, o)
        PROVE  \A e \in v.log : e.what # "activate"
    <3>1. PICK e : e.what # "activate" /\ Continue(j, r, o, e)
      BY <2>4 DEF SkipAtTarget, SkipExisting, RemoveOrigin, MoveOrigin, Reports
    <3>2. Becomes(j, r, Onward(w, o, e))
      BY <3>1 DEF Continue, Onward
    <3>3. v = Onward(w, o, e)
      BY <1>4, <3>2 DEF Becomes, IInv, TypeOK
    <3>4. v.log = w.log \cup {e}
      BY <1>1, <3>3 DEF Onward, Worker
    <3> QED BY <1>1, <3>1, <3>4
  <2> QED BY <2>1, <2>2, <2>3, <2>4 DEF WorkerStep, LoopStep
<1>6. ASSUME NEW i \in Job, NEW s \in Rule
      PROVE  \A e \in worker'[i][s].log : e.what # "activate"
  <2>1. CASE i = j /\ s = r
    BY <1>4, <1>5, <2>1
  <2>2. CASE ~(i = j /\ s = r)
    BY <1>4, <2>2 DEF NothingNoted, IInv, TypeOK
  <2> QED BY <2>1, <2>2
<1> QED
  BY <1>6 DEF NothingNoted

LEMMA StepNotesNothing ==
  ASSUME Quiet, OneSpelling, IInv, OutcomeInv, NothingNoted, [Next]_vars
  PROVE  NothingNoted'
<1>1. ASSUME NEW j \in Job, HandlerStep(j)
      PROVE  NothingNoted'
  <2>1. ASSUME NEW i \in Job, NEW s \in Rule
        PROVE  worker'[i][s].log = worker[i][s].log
    <3>1. worker'[i][s] \in {worker[i][s], Queued(worker[i][s])}
      BY <1>1 DEF IInv, TypeOK, HandlerStep, Receive, ListEndpointsFails,
                  StartWorkers, Reply
    <3>2. Queued(worker[i][s]).log = worker[i][s].log
      BY DEF IInv, TypeOK, Queued, Worker
    <3> QED BY <3>1, <3>2
  <2> QED BY <2>1 DEF NothingNoted
<1>2. CASE StoreStep \/ UNCHANGED vars
  BY <1>2 DEF StoreStep, vars, NothingNoted
<1> QED
  BY <1>1, <1>2, WorkerNotesNothing DEF Next, Finished

(* Fault-free, with nobody else at work, any number of requests for the    *)
(* same two hosts do to any number of rules no more than the promised      *)
(* failover: BulkSwitch implements Failover.                               *)
THEOREM QuietSwitchKeepsPromise ==
  ASSUME Quiet, OneSpelling
  PROVE  Spec => KeepsThePromise
<1>1. Init => Promise!Init
  BY SwitchAssumption DEF Init, Promise!Init, Promise!Upstreams, Upstreams,
     Promise!Origin, Origin, Promise!Status, Status
<1>2. Init => NothingNoted
  BY DEF Init, NothingNoted, NewWorker
<1>3. IInv /\ OutcomeInv /\ NothingNoted /\ [Next]_vars => NothingNoted'
  BY StepNotesNothing
<1>4. IInv /\ OutcomeInv /\ NothingNoted /\ [Next]_vars => [Promise!Next]_rules
  <2> SUFFICES ASSUME IInv, OutcomeInv, NothingNoted, [Next]_vars, rules' # rules
               PROVE  Promise!Next
    OBVIOUS
  <2>1. IInv'
    BY StepKeeps
  <2>2. Undisturbed'
    <3>1. TypeOK'
      BY <2>1 DEF IInv
    <3> QED BY <3>1 DEF Quiet, TypeOK, Undisturbed
  <2>3. PICK c \in Call :
          /\ Asked(c.by, c.rule) /\ Accepts(c) /\ Apply(c)
          /\ Sound(req[c.by], rules[c.rule], worker[c.by][c.rule].log, c)
    BY <2>2, StepOutcome DEF OnlySoundCalls
  <2>4. c.by \in Job /\ c.rule \in Rule
    BY DEF Call
  <2>5. ~Noted(worker[c.by][c.rule].log, c.old)
    BY <2>4 DEF NothingNoted, Noted
  <2>6. TypeOK /\ req[c.by].to \in HostText
    BY <2>3, <2>4, AskedTyped DEF IInv
  <2> QED BY <2>3, <2>5, <2>6, SoundIsPromised
<1> QED
  BY <1>1, <1>2, <1>3, <1>4, InitOutcome, Invariance, OutcomesStay, PTL
     DEF Spec, KeepsThePromise, Promise!Spec

-----------------------------------------------------------------------------
(* No two origins of a rule come to differ in letter case only.            *)

(* The origin is spelled as a switch to its own host would spell it.       *)
Canonical(o) == SwitchOriginHost(o, Bare[o.host]) = o

(* Where an origin leads, however its host is written.                     *)
Place(o) == [host |-> Fold[Bare[o.host]], rest |-> Fold[o.rest]]

(* The hosts a request is about.                                           *)
Ends(q) == {Fold[q.from], Fold[q.to]}

(* All requests are between the same two hosts, in either direction, and   *)
(* name their target without brackets; no rule starts with an unusual      *)
(* spelling or with two origins that differ in letter case only.           *)
OnePair ==
  /\ \A p, q \in Requests : Acceptable(p) /\ Acceptable(q) => Ends(p) = Ends(q)
  /\ \A q \in Requests : Acceptable(q) => Bare[q.to] = q.to
  /\ \A u \in InitialUpstreams :
       Folded(u) /\ \A o \in Present(u) : Canonical(o)

OnePerPlace(u) ==
  \A o, p \in Present(u) : Place(o) = Place(p) => o = p

(* Between the hosts there is at most one origin of the port and path x.   *)
AtMostOne(u, hosts, x) ==
  \A o, p \in Present(u) :
    /\ Place(o).host \in hosts /\ Place(o).rest = x
    /\ Place(p).host \in hosts /\ Place(p).rest = x
    => o = p

Distinct(u) == OnePerPlace(u) /\ \A o \in Present(u) : Canonical(o)

(* Who saw no target for an origin may move it, now or later: there was    *)
(* one origin of that port and path between the hosts, and there still is. *)
MayMove(q, u, w) ==
  w.pc \in Busy =>
    /\ w.todo \subseteq Present(w.snap)
    /\ \A o \in Present(w.snap) :
         PointsAt(o, q.from) /\ ~AtTarget(o, q.to) /\ ~Occupied(w.snap, o, q.to)
           => AtMostOne(u, Ends(q), Place(o).rest)

(* A call removes an origin, sets its status, or moves the only one.       *)
Single(q, u, c) ==
  \/ c.op = "remove"
  \/ c.old = c.new
  \/ /\ c.new = Target(q, c.old) /\ PointsAt(c.old, q.from)
     /\ AtMostOne(u, Ends(q), Place(c.old).rest)

DistinctInv ==
  edits = 0 =>
    /\ \A r \in Rule : Distinct(rules[r])
    /\ \A j \in Job, r \in Rule : MayMove(req[j], rules[r], worker[j][r])
    /\ \A c \in late : Single(req[c.by], rules[c.rule], c)

LEMMA PlaceIs ==
  ASSUME NEW o \in Origin, NEW h
  PROVE  PointsAt(o, h) <=> Place(o).host = Fold[h]
  BY DEF PointsAt, Place

(* The brackets and the port do not depend on letter case.                 *)
LEMMA PlaceByKey ==
  ASSUME NEW o \in Origin, NEW p \in Origin
  PROVE  /\ Key(o) = Key(p) => Place(o) = Place(p)
         /\ Canonical(o) /\ Canonical(p) /\ Place(o) = Place(p) => Key(o) = Key(p)
<1> DEFINE g == Bare[o.host]
           h == Bare[p.host]
<1>1. /\ o.host \in HostText /\ p.host \in HostText
      /\ o.rest \in Rest /\ p.rest \in Rest
      /\ g \in HostText /\ h \in HostText
  BY TextAssumption DEF Origin
<1>2. Key(o) = Key(p) => Place(o) = Place(p)
  BY <1>1, TextAssumption DEF Key, Place
<1>3. ASSUME Canonical(o), Canonical(p), Place(o) = Place(p)
      PROVE  Key(o) = Key(p)
  <2>1. Fold[g] = Fold[h] /\ Fold[o.rest] = Fold[p.rest]
    BY <1>3 DEF Place
  <2>2. o.rest \in Ported <=> p.rest \in Ported
    BY <1>1, <2>1, TextAssumption
  <2>3. /\ o.host = IF o.rest \in Ported THEN Bracketed[g] ELSE g
        /\ p.host = IF p.rest \in Ported THEN Bracketed[h] ELSE h
    BY <1>3 DEF Canonical, SwitchOriginHost, Origin
  <2>4. Fold[Bracketed[g]] = Fold[Bracketed[h]]
    BY <1>1, <2>1, TextAssumption
  <2>5. Fold[o.host] = Fold[p.host]
    BY <2>1, <2>2, <2>3, <2>4
  <2> QED BY <2>1, <2>5 DEF Key
<1> QED
  BY <1>2, <1>3

(* A rewritten origin is canonical and leads to the target host.           *)
LEMMA TargetPlace ==
  ASSUME NEW o \in Origin, NEW to \in HostText, Bare[to] = to
  PROVE  /\ Canonical(SwitchOriginHost(o, to))
         /\ Place(SwitchOriginHost(o, to)).host = Fold[to]
         /\ Place(SwitchOriginHost(o, to)).rest = Place(o).rest
<1> DEFINE new == SwitchOriginHost(o, to)
<1>1. /\ new \in Origin /\ new.rest = o.rest
      /\ new.host = IF o.rest \in Ported THEN Bracketed[to] ELSE to
  BY SwitchTyped DEF SwitchOriginHost, Origin
<1>2. Bare[new.host] = to
  BY <1>1, TextAssumption
<1>3. SwitchOriginHost(new, to) = new
  BY <1>1 DEF SwitchOriginHost, Origin
<1> HIDE DEF new
<1> QED
  BY <1>1, <1>2, <1>3 DEF Canonical, Place, new

LEMMA FoldedIsDistinct ==
  ASSUME NEW u \in Upstreams, \A o \in Present(u) : Canonical(o)
  PROVE  Folded(u) <=> OnePerPlace(u)
<1>1. \A o \in Present(u) : o \in Origin
  BY DEF Present
<1> QED
  BY <1>1, PlaceByKey DEF Folded, OnePerPlace

(* Where origins only disappear, what there is of them stays distinct.     *)
LEMMA FewerStayDistinct ==
  ASSUME NEW u, NEW v, Present(v) \subseteq Present(u)
  PROVE  /\ Distinct(u) => Distinct(v)
         /\ \A hosts, x : AtMostOne(u, hosts, x) => AtMostOne(v, hosts, x)
  BY DEF Distinct, OnePerPlace, AtMostOne

(* Moving the only origin of a port and path between two hosts keeps it    *)
(* the only one.                                                           *)
LEMMA MovedStaysDistinct ==
  ASSUME NEW u \in Upstreams, NEW v \in Upstreams, NEW hosts,
         NEW o \in Origin, NEW new \in Origin, Distinct(u),
         o \in Present(u), AtMostOne(u, hosts, Place(o).rest),
         Place(o).host \in hosts, Place(new).host \in hosts,
         Place(new).rest = Place(o).rest, Canonical(new),
         Present(v) \subseteq (Present(u) \ {o}) \cup {new}
  PROVE  /\ Distinct(v)
         /\ \A x : AtMostOne(u, hosts, x) => AtMostOne(v, hosts, x)
<1> DEFINE y == Place(o).rest
<1>1. ASSUME NEW p \in Present(v), Place(p).host \in hosts, Place(p).rest = y
      PROVE  p = new
  BY <1>1 DEF AtMostOne
<1>2. AtMostOne(v, hosts, y)
  BY <1>1 DEF AtMostOne
<1>3. ASSUME NEW x, x # y, AtMostOne(u, hosts, x)
      PROVE  AtMostOne(v, hosts, x)
  <2>1. \A p \in Present(v) : Place(p).rest = x => p \in Present(u)
    BY <1>3
  <2> QED BY <1>3, <2>1 DEF AtMostOne
<1>4. OnePerPlace(v)
  <2> SUFFICES ASSUME NEW p \in Present(v), NEW s \in Present(v),
                      Place(p) = Place(s)
               PROVE  p = s
    BY DEF OnePerPlace
  <2>1. CASE p = new \/ s = new
    BY <1>1, <2>1
  <2>2. CASE p # new /\ s # new
    BY <2>2 DEF Distinct, OnePerPlace
  <2> QED BY <2>1, <2>2
<1>5. \A p \in Present(v) : Canonical(p)
  BY DEF Distinct
<1> QED
  BY <1>2, <1>3, <1>4, <1>5 DEF Distinct

(* A single call keeps a rule distinct, and every other single call and    *)
(* every worker's right to move between the same hosts.                    *)
LEMMA SingleKeeps ==
  ASSUME NEW q, q.from \in HostText, q.to \in HostText, Bare[q.to] = q.to,
         NEW u \in Upstreams, Distinct(u), NEW c \in Call, Single(q, u, c),
         Fits(u, c)
  PROVE  /\ Distinct(Applied(u, c))
         /\ \A x : AtMostOne(u, Ends(q), x) => AtMostOne(Applied(u, c), Ends(q), x)
<1> DEFINE v == Applied(u, c)
           to == q.to
           hosts == Ends(q)
<1>1. /\ c.old \in Origin /\ c.new \in Origin /\ to \in HostText
      /\ v \in Upstreams /\ c.old \in Present(u)
  BY AppliedTyped DEF Call, Fits, Present
<1>2. CASE c.op = "remove" \/ c.old = c.new
  <2>1. Present(v) \subseteq Present(u)
    BY <1>1, <1>2 DEF Applied, Present, Upstreams
  <2> QED BY <2>1, FewerStayDistinct
<1>3. CASE /\ c.op # "remove" /\ c.new = Target(q, c.old)
           /\ PointsAt(c.old, q.from) /\ AtMostOne(u, hosts, Place(c.old).rest)
  <2>1. Present(v) \subseteq (Present(u) \ {c.old}) \cup {c.new}
    BY <1>1, <1>3 DEF Applied, Present, Upstreams
  <2>2. c.new = SwitchOriginHost(c.old, to) /\ Bare[to] = to
    BY <1>3 DEF Target
  <2>3. Place(c.old).host = Fold[q.from]
    BY <1>1, <1>3, PlaceIs
  <2>4. Fold[q.from] \in hosts /\ Fold[to] \in hosts
    BY DEF Ends
  <2> HIDE DEF v, to, hosts
  <2>5. /\ Canonical(c.new) /\ Place(c.new).host = Fold[to]
        /\ Place(c.new).rest = Place(c.old).rest
    BY <1>1, <2>2, TargetPlace
  <2>6. /\ Distinct(v)
        /\ \A x : AtMostOne(u, hosts, x) => AtMostOne(v, hosts, x)
    BY <1>1, <1>3, <2>1, <2>3, <2>4, <2>5, MovedStaysDistinct
  <2> QED BY <2>6 DEF v, hosts
<1> QED
  BY <1>2, <1>3 DEF Single

(* A listing with no origin at the target shows all there is of that port  *)
(* and path between the hosts.                                             *)
LEMMA UnoccupiedIsSingle ==
  ASSUME NEW q, q.from \in HostText, q.to \in HostText, Bare[q.to] = q.to,
         NEW u \in Upstreams, Distinct(u), NEW o \in Present(u),
         PointsAt(o, q.from), ~Occupied(u, o, q.to)
  PROVE  AtMostOne(u, Ends(q), Place(o).rest)
<1> DEFINE to == q.to
           new == SwitchOriginHost(o, to)
<1>1. o \in Origin /\ to \in HostText /\ Bare[to] = to
  BY DEF Present
<1>2. /\ new \in Origin /\ Canonical(new)
      /\ Place(new).host = Fold[to] /\ Place(new).rest = Place(o).rest
  <2> HIDE DEF to
  <2> QED BY <1>1, SwitchTyped, TargetPlace
<1>3. ~\E p \in Present(u) : Key(p) = Key(new)
  BY DEF Occupied, Existing
<1> HIDE DEF new, to
<1>4. ASSUME NEW p \in Present(u), Place(p).host \in Ends(q),
             Place(p).rest = Place(o).rest
      PROVE  p = o
  <2>1. p \in Origin /\ Canonical(p)
    BY DEF Present, Distinct
  <2>2. Place(p).host # Fold[to]
    <3>1. Place(p) # Place(new)
      BY <1>2, <1>3, <2>1, PlaceByKey
    <3> QED BY <1>2, <1>4, <3>1 DEF Place
  <2>3. Place(p).host = Place(o).host
    BY <1>1, <1>4, <2>2, PlaceIs DEF Ends, to
  <2>4. Place(p) = Place(o)
    BY <1>4, <2>3 DEF Place
  <2> QED BY <2>4 DEF Distinct, OnePerPlace
<1> QED
  BY <1>4 DEF AtMostOne

OnlySingleCalls ==
  \/ rules' = rules
  \/ \E c \in Call :
       /\ Asked(c.by, c.rule) /\ Accepts(c) /\ Apply(c)
       /\ Single(req[c.by], rules[c.rule], c)

LEMMA RulesStayDistinct ==
  ASSUME OnePair, IInv, OnlySingleCalls, \A s \in Rule : Distinct(rules[s]),
         NEW s \in Rule
  PROVE  /\ Distinct(rules'[s])
         /\ \A j \in Job : Acceptable(req[j]) =>
              \A x : AtMostOne(rules[s], Ends(req[j]), x) =>
                     AtMostOne(rules'[s], Ends(req[j]), x)
<1>1. CASE rules'[s] = rules[s]
  BY <1>1
<1>2. CASE rules'[s] # rules[s]
  <2>1. PICK c \in Call : /\ Asked(c.by, c.rule) /\ Accepts(c) /\ Apply(c)
                          /\ Single(req[c.by], rules[c.rule], c)
    BY <1>2 DEF OnlySingleCalls
  <2>2. c.by \in Job /\ c.rule \in Rule /\ TypeOK
    BY DEF Call, IInv
  <2>3. s = c.rule /\ rules'[s] = Applied(rules[s], c) /\ rules[s] \in Upstreams
    BY <1>2, <2>1, <2>2 DEF Apply, TypeOK
  <2> DEFINE q == req[c.by]
  <2>4. /\ q.from \in HostText /\ q.to \in HostText /\ q \in Requests
        /\ Acceptable(q)
    BY <2>1, <2>2, AskedTyped DEF IInv, HandlersAccepted, Asked, TypeOK
  <2>5. Bare[q.to] = q.to /\ Single(q, rules[s], c)
    BY <2>1, <2>3, <2>4 DEF OnePair
  <2>6. Fits(rules[s], c)
    BY <2>1, <2>3 DEF Accepts, Fits
  <2>7. \A j \in Job : Acceptable(req[j]) => Ends(req[j]) = Ends(q)
    BY <2>2, <2>4 DEF OnePair, TypeOK
  <2> HIDE DEF q
  <2>8. /\ Distinct(Applied(rules[s], c))
        /\ \A x : AtMostOne(rules[s], Ends(q), x) =>
                  AtMostOne(Applied(rules[s], c), Ends(q), x)
    BY <2>3, <2>4, <2>5, <2>6, SingleKeeps
  <2> QED BY <2>3, <2>7, <2>8
<1> QED
  BY <1>1, <1>2

LEMMA DistinctKept ==
  ASSUME OnePair, IInv, IInv', DistinctInv, edits = 0, req' = req,
         OnlySingleCalls,
         \A i \in Job, s \in Rule : MayMove(req[i], rules[s], worker'[i][s]),
         \A c \in late' : Single(req[c.by], rules[c.rule], c)
  PROVE  DistinctInv'
<1>1. \A s \in Rule : Distinct(rules[s])
  BY DEF DistinctInv
<1>2. \A s \in Rule : Distinct(rules'[s])
  BY <1>1, RulesStayDistinct
<1>3. ASSUME NEW i \in Job, NEW s \in Rule, Asked(i, s)'
      PROVE  \A x : AtMostOne(rules[s], Ends(req[i]), x) =>
                    AtMostOne(rules'[s], Ends(req[i]), x)
  <2>1. Acceptable(req[i])
    BY <1>3 DEF IInv, HandlersAccepted, Asked
  <2> QED BY <1>1, <2>1, RulesStayDistinct
<1>4. ASSUME NEW i \in Job, NEW s \in Rule
      PROVE  MayMove(req[i], rules'[s], worker'[i][s])
  <2>1. CASE worker'[i][s].pc \in Busy
    <3>1. Asked(i, s)'
      BY <2>1 DEF IInv, WorkersAsked, Busy
    <3> QED BY <1>3, <3>1 DEF MayMove
  <2>2. CASE worker'[i][s].pc \notin Busy
    BY <2>2 DEF MayMove
  <2> QED BY <2>1, <2>2
<1>5. ASSUME NEW c \in late'
      PROVE  Single(req[c.by], rules'[c.rule], c)
  <2>1. c.by \in Job /\ c.rule \in Rule /\ Asked(c.by, c.rule)'
    BY <1>5 DEF IInv, TypeOK, Call, LateOrdered, Ordered
  <2> QED BY <1>3, <1>5, <2>1 DEF Single
<1> QED
  BY <1>2, <1>4, <1>5 DEF DistinctInv

(* A worker moves on.                                                      *)
LEMMA OneMoves ==
  ASSUME TypeOK, DistinctInv, edits = 0, NEW j \in Job, NEW r \in Rule, NEW v,
         Becomes(j, r, v), MayMove(req[j], rules[r], v)
  PROVE  \A i \in Job, s \in Rule : MayMove(req[i], rules[s], worker'[i][s])
<1> SUFFICES ASSUME NEW i \in Job, NEW s \in Rule
             PROVE  MayMove(req[i], rules[s], worker'[i][s])
  OBVIOUS
<1>1. CASE i = j /\ s = r
  BY <1>1 DEF Becomes, TypeOK
<1>2. CASE ~(i = j /\ s = r)
  <2>1. worker'[i][s] = worker[i][s]
    BY <1>2 DEF Becomes, TypeOK
  <2> QED BY <2>1 DEF DistinctInv
<1> QED
  BY <1>1, <1>2

LEMMA CallingDistinct ==
  ASSUME OnePair, IInv, IInv', DistinctInv, edits = 0,
         NEW j \in Job, NEW r \in Rule, Asked(j, r),
         NEW c \in Call, c.by = j, c.rule = r, Single(req[j], rules[r], c),
         NEW ok \in BOOLEAN, Answers(c, ok), NEW v, Becomes(j, r, v),
         MayMove(req[j], rules[r], v)
  PROVE  DistinctInv'
<1>1. TypeOK /\ req' = req
  BY DEF IInv, Becomes
<1>2. late' \subseteq late \cup {c}
  BY <1>1, AnswersTyped
<1>3. OnlySingleCalls
  BY DEF Answers, Succeeds, IsRefused, TimesOut, storeVars, OnlySingleCalls
<1>4. \A d \in late' : Single(req[d.by], rules[d.rule], d)
  BY <1>2 DEF DistinctInv
<1> QED
  BY <1>1, <1>3, <1>4, OneMoves, DistinctKept

LEMMA LocalDistinct ==
  ASSUME OnePair, IInv, IInv', DistinctInv, edits = 0,
         NEW j \in Job, NEW r \in Rule, NEW v, Becomes(j, r, v),
         UNCHANGED storeVars, MayMove(req[j], rules[r], v)
  PROVE  DistinctInv'
<1>1. TypeOK /\ req' = req /\ late' = late /\ OnlySingleCalls
  BY DEF IInv, Becomes, storeVars, OnlySingleCalls
<1>2. \A d \in late' : Single(req[d.by], rules[d.rule], d)
  BY <1>1 DEF DistinctInv
<1> QED
  BY <1>1, <1>2, OneMoves, DistinctKept

(* What a worker may move it may still move when it has less to do.        *)
LEMMA LessToMove ==
  ASSUME NEW q, NEW u, NEW w, NEW v, MayMove(q, u, w), w.pc \in Busy,
         v.snap = w.snap, v.todo \subseteq w.todo
  PROVE  MayMove(q, u, v)
  BY DEF MayMove

LEMMA LoopDistinct ==
  ASSUME OnePair, IInv, IInv', DistinctInv, edits = 0,
         NEW j \in Job, NEW r \in Rule, Asked(j, r),
         NEW o \in worker[j][r].todo, LoopStep(j, r, o)
  PROVE  DistinctInv'
<1> DEFINE w == worker[j][r]
           q == req[j]
           u == rules[r]
           new == Target(q, o)
<1>1. /\ w \in Worker /\ o \in Origin /\ w.pc \in Busy /\ MayMove(q, u, w)
      /\ PointsAt(o, q.from)
  <2>1. w \in Worker /\ MayMove(q, u, w) /\ PointsAt(o, q.from)
    BY DEF IInv, TypeOK, DistinctInv, WorkersAsked
  <2>2. w.pc \in Busy
    BY DEF LoopStep, SkipAtTarget, SkipExisting, ActivateCounterpart,
           RemoveOrigin, MoveOrigin, MayRemove, ToDrop, IsNext, Busy
  <2> QED BY <2>1, <2>2 DEF Worker
<1>2. new \in Origin
  BY <1>1, AskedTyped, SwitchTyped DEF Target
<1>3. ASSUME NEW e, Continue(j, r, o, e)
      PROVE  \E v : Becomes(j, r, v) /\ MayMove(q, u, v)
  <2> DEFINE v == Onward(w, o, e)
  <2>1. Becomes(j, r, v) /\ v.snap = w.snap /\ v.todo \subseteq w.todo
    BY <1>1, <1>3 DEF Continue, Onward, Worker
  <2> HIDE DEF v, q, u, w
  <2>2. MayMove(q, u, v)
    BY <1>1, <2>1, LessToMove
  <2> QED BY <2>1, <2>2
<1>4. CASE SkipAtTarget(j, r, o) \/ SkipExisting(j, r, o)
  <2>1. PICK e : Continue(j, r, o, e) /\ UNCHANGED storeVars
    BY <1>4 DEF SkipAtTarget, SkipExisting
  <2> QED BY <1>3, <2>1, LocalDistinct
<1>5. CASE ActivateCounterpart(j, r, o)
  <2> DEFINE c == UpdateUpstream(j, r, new, new, TRUE)
  <2>1. PICK ok \in BOOLEAN : Answers(c, ok) /\ Becomes(j, r, Between(w, o, ok))
    BY <1>5 DEF ActivateCounterpart, Between, Target
  <2>2. c \in Call /\ c.by = j /\ c.rule = r /\ Single(q, u, c)
    BY <1>2 DEF UpdateUpstream, Call, Single
  <2> DEFINE v == Between(w, o, ok)
  <2>3. Becomes(j, r, v) /\ v.snap = w.snap /\ v.todo \subseteq w.todo
    BY <1>1, <2>1 DEF Between, Worker
  <2> HIDE DEF v, c
  <2>4. MayMove(q, u, v)
    <3> HIDE DEF q, u, w
    <3> QED BY <1>1, <2>3, LessToMove
  <2> QED BY <2>1, <2>2, <2>3, <2>4, CallingDistinct
<1>6. CASE RemoveOrigin(j, r, o)
  <2> DEFINE c == RemoveUpstream(j, r, o)
  <2>1. PICK ok, e : /\ ok \in BOOLEAN
                    /\ Answers(c, ok) /\ Continue(j, r, o, e)
    BY <1>6 DEF RemoveOrigin
  <2>2. c \in Call /\ c.by = j /\ c.rule = r /\ Single(q, u, c)
    BY <1>1 DEF RemoveUpstream, Call, Single
  <2> HIDE DEF c
  <2> QED BY <1>3, <2>1, <2>2, CallingDistinct
<1>7. CASE MoveOrigin(j, r, o)
  <2> DEFINE c == UpdateUpstream(j, r, o, new, w.snap[o] = "active")
  <2>1. PICK ok, e : /\ ok \in BOOLEAN
                    /\ Answers(c, ok) /\ Continue(j, r, o, e)
    BY <1>7 DEF MoveOrigin, Target
  <2>2. /\ c \in Call /\ c.by = j /\ c.rule = r
        /\ c.old = o /\ c.new = Target(q, c.old)
    BY <1>1, <1>2 DEF UpdateUpstream, Call
  <2>3. AtMostOne(u, Ends(q), Place(o).rest)
    BY <1>1, <1>7 DEF MoveOrigin, MayMove
  <2>4. Single(q, u, c)
    BY <1>1, <2>2, <2>3 DEF Single
  <2> HIDE DEF c
  <2> QED BY <1>3, <2>1, <2>2, <2>4, CallingDistinct
<1> QED
  BY <1>4, <1>5, <1>6, <1>7 DEF LoopStep

LEMMA StartDistinct ==
  ASSUME OnePair, IInv, IInv', DistinctInv, edits = 0,
         NEW j \in Job, NEW r \in Rule, Asked(j, r),
         \/ Acquire(j, r) \/ Publish(j, r) \/ ListUpstreams(j, r)
         \/ ListAnsweredWithErrorBody(j, r) \/ ListUpstreamsFails(j, r)
  PROVE  DistinctInv'
<1> DEFINE w == worker[j][r]
           q == req[j]
           u == rules[r]
<1>1. /\ w \in Worker /\ u \in Upstreams /\ MayMove(q, u, w) /\ Distinct(u)
      /\ q.from \in HostText /\ q.to \in HostText
  BY AskedTyped DEF IInv, TypeOK, DistinctInv
<1>2. Bare[q.to] = q.to
  BY DEF IInv, TypeOK, HandlersAccepted, Asked, OnePair
<1>3. CASE Acquire(j, r) \/ Publish(j, r)
  <2>1. PICK p : /\ Becomes(j, r, [w EXCEPT !.pc = p]) /\ UNCHANGED storeVars
                 /\ p \in Busy => w.pc \in Busy
    BY <1>3 DEF Acquire, Publish, Busy
  <2> DEFINE v == [w EXCEPT !.pc = p]
  <2>2. Becomes(j, r, v) /\ v.pc = p /\ v.snap = w.snap /\ v.todo = w.todo
    BY <1>1, <2>1 DEF Worker
  <2> HIDE DEF v
  <2>3. MayMove(q, u, v)
    BY <1>1, <2>1, <2>2 DEF MayMove
  <2> QED BY <2>1, <2>2, <2>3, LocalDistinct
<1>4. CASE \/ ListUpstreams(j, r) \/ ListAnsweredWithErrorBody(j, r)
           \/ ListUpstreamsFails(j, r)
  <2>1. PICK snap, g :
          /\ snap \in {u, NoUpstreams}
          /\ Lists(j, r, snap, g) /\ UNCHANGED storeVars
    BY <1>4 DEF ListUpstreams, ListAnsweredWithErrorBody, ListUpstreamsFails
  <2> DEFINE v == [w EXCEPT !.pc = "looping", !.snap = snap,
                     !.todo = {o \in Present(snap) : PointsAt(o, q.from)},
                     !.log = g]
  <2>2. /\ Becomes(j, r, v) /\ v.snap = snap
        /\ v.todo = {o \in Present(snap) : PointsAt(o, q.from)}
    BY <1>1, <2>1 DEF Lists, Worker
  <2> HIDE DEF v
  <2>3. ASSUME NEW o \in Present(snap), PointsAt(o, q.from),
               ~Occupied(snap, o, q.to)
        PROVE  AtMostOne(u, Ends(q), Place(o).rest)
    <3>1. snap = u
      BY <2>1, <2>3 DEF Present, NoUpstreams
    <3> HIDE DEF q, u
    <3> QED BY <1>1, <1>2, <2>3, <3>1, UnoccupiedIsSingle
  <2>4. MayMove(q, u, v)
    BY <2>2, <2>3 DEF MayMove
  <2> QED BY <2>1, <2>2, <2>4, LocalDistinct
<1> QED
  BY <1>3, <1>4

LEMMA StepDistinct ==
  ASSUME OnePair, IInv, DistinctInv, [Next]_vars
  PROVE  DistinctInv'
<1> SUFFICES ASSUME edits' = 0
             PROVE  DistinctInv'
  BY DEF DistinctInv
<1>1. IInv'
  BY StepKeeps
<1>2. edits \in Nat
  BY StoreAssumption DEF IInv, TypeOK
<1>3. ASSUME NEW j \in Job, NEW r \in Rule, WorkerStep(j, r)
      PROVE  DistinctInv'
  <2>1. worker[j][r].pc # "none"
    BY <1>3 DEF WorkerStep, LoopStep, Acquire, ListUpstreams,
           ListAnsweredWithErrorBody, ListUpstreamsFails, Publish,
           SkipAtTarget, SkipExisting, ActivateCounterpart, RemoveOrigin,
           MayRemove, ToDrop, MoveOrigin, IsNext
  <2>2. Asked(j, r)
    BY <2>1 DEF IInv, WorkersAsked
  <2>3. edits = 0
    BY <1>3 DEF WorkerStep, LoopStep, Acquire, ListUpstreams,
         ListAnsweredWithErrorBody, ListUpstreamsFails, Publish,
         SkipAtTarget, SkipExisting, ActivateCounterpart, RemoveOrigin,
         MoveOrigin, Answers, Succeeds, IsRefused, TimesOut, storeVars
  <2> QED
    BY <1>1, <1>3, <2>2, <2>3, LoopDistinct, StartDistinct DEF WorkerStep
<1>4. ASSUME NEW j \in Job, HandlerStep(j)
      PROVE  DistinctInv'
  <2>1. UNCHANGED <<req, rules, late, edits>>
    BY <1>4 DEF HandlerStep, Receive, ListEndpointsFails, StartWorkers, Reply,
                storeVars
  <2>2. ASSUME NEW i \in Job, NEW s \in Rule
        PROVE  MayMove(req[i], rules[s], worker'[i][s])
    <3>1. worker'[i][s] \in {worker[i][s], Queued(worker[i][s])}
      BY <1>4 DEF IInv, TypeOK, HandlerStep, Receive, ListEndpointsFails,
                  StartWorkers, Reply
    <3>2. Queued(worker[i][s]).pc \notin Busy
      BY DEF IInv, TypeOK, Queued, Worker, Busy
    <3> QED BY <2>1, <3>1, <3>2 DEF DistinctInv, MayMove
  <2>3. OnlySingleCalls /\ \A d \in late' : Single(req[d.by], rules[d.rule], d)
    BY <2>1 DEF OnlySingleCalls, DistinctInv
  <2> QED BY <1>1, <2>1, <2>2, <2>3, DistinctKept
<1>5. CASE StoreStep
  <2>1. ~OthersAct
    BY <1>2 DEF OthersAct, AdminSetsOrigin, AdminDeletesRule, ApplyUpstream, Edit
  <2>2. ArriveLate /\ UNCHANGED <<phase, req, worker, edits>>
    BY <1>5, <2>1 DEF StoreStep, ArriveLate
  <2>3. PICK c \in late : /\ late' = late \ {c}
                          /\ IF Accepts(c) THEN Apply(c) ELSE UNCHANGED rules
    BY <2>2 DEF ArriveLate
  <2>4. c \in Call /\ Asked(c.by, c.rule) /\ Single(req[c.by], rules[c.rule], c)
    BY <2>2 DEF IInv, TypeOK, LateOrdered, Ordered, DistinctInv
  <2>5. OnlySingleCalls
    BY <2>3, <2>4 DEF OnlySingleCalls
  <2>6. /\ \A d \in late' : Single(req[d.by], rules[d.rule], d)
        /\ \A i \in Job, s \in Rule : MayMove(req[i], rules[s], worker'[i][s])
    BY <2>2, <2>3 DEF DistinctInv
  <2> QED BY <1>1, <2>2, <2>5, <2>6, DistinctKept
<1>6. CASE UNCHANGED vars
  <2>1. UNCHANGED <<req, rules, late, edits, worker>>
    BY <1>6 DEF vars
  <2> QED BY <2>1 DEF DistinctInv
<1> QED
  BY <1>3, <1>4, <1>5, <1>6 DEF Next, Finished

(* Any number of requests between two hosts, back and forth, with every    *)
(* fault: no rule comes to hold two origins that differ in letter case     *)
(* only, although the target is looked for in the listing alone.           *)
THEOREM SwitchesKeepFolded ==
  ASSUME OnePair
  PROVE  Spec => []NoFoldedDuplicates
<1>1. Init => DistinctInv
  <2> SUFFICES ASSUME Init PROVE DistinctInv
    OBVIOUS
  <2>1. \A r \in Rule : Distinct(rules[r])
    BY SwitchAssumption, FoldedIsDistinct DEF Init, OnePair, Distinct
  <2>2. \A j \in Job, r \in Rule : worker[j][r].pc \notin Busy
    BY DEF Init, NewWorker, Busy
  <2> QED BY <2>1, <2>2 DEF Init, DistinctInv, MayMove
<1>2. IInv /\ DistinctInv /\ [Next]_vars => DistinctInv'
  BY StepDistinct
<1>3. IInv /\ DistinctInv => NoFoldedDuplicates
  BY FoldedIsDistinct DEF IInv, TypeOK, DistinctInv, Distinct, NoFoldedDuplicates
<1> QED
  BY <1>1, <1>2, <1>3, Invariance, PTL DEF Spec

-----------------------------------------------------------------------------
(* The result list: a worker accounts for every origin of its listing that *)
(* points at the source host, and for no other; and what a request on its  *)
(* own reports is the truth about the rule.                                *)

(* The origins of a listing that a switch from a host is about, and those  *)
(* that a worker has reported on.                                          *)
Matched(from, u) == {o \in Present(u) : PointsAt(o, from)}

Covered(w) == {o \in Origin : \E e \in w.log : o \in e.at}

(* From its listing on, what a worker has reported on and what it still    *)
(* has to do are together the origins it matched.                          *)
Accounts(from, w) ==
  /\ w.pc \in {"looping", "activated", "done"} =>
       Covered(w) \cup w.todo = Matched(from, w.snap)
  /\ w.pc = "done" => w.todo = {}

AllAccount == \A j \in Job, r \in Rule : Accounts(req[j].from, worker[j][r])

LEMMA InitAccounts == Init => AllAccount
  BY DEF Init, AllAccount, Accounts, NewWorker

(* One worker moves on, the others stay as they are.                       *)
LEMMA BecomesAccounts ==
  ASSUME TypeOK, AllAccount, NEW j \in Job, NEW r \in Rule, NEW v,
         Becomes(j, r, v), Accounts(req[j].from, v)
  PROVE  AllAccount'
<1> SUFFICES ASSUME NEW i \in Job, NEW s \in Rule
             PROVE  Accounts(req[i].from, worker'[i][s])
  BY DEF AllAccount, Becomes
<1>1. CASE i = j /\ s = r
  <2>1. worker'[i][s] = v
    BY <1>1 DEF Becomes, TypeOK
  <2> QED BY <1>1, <2>1
<1>2. CASE ~(i = j /\ s = r)
  <2>1. worker'[i][s] = worker[i][s]
    BY <1>2 DEF Becomes, TypeOK
  <2> QED BY <2>1 DEF AllAccount
<1> QED
  BY <1>1, <1>2

(* The loop reports on an origin and goes on with the others.              *)
LEMMA ContinueAccounts ==
  ASSUME TypeOK, AllAccount, NEW j \in Job, NEW r \in Rule,
         NEW o \in worker[j][r].todo, NEW kind, NEW what,
         worker[j][r].pc \in {"looping", "activated"},
         Continue(j, r, o, Reports(kind, what, o))
  PROVE  AllAccount'
<1> DEFINE w == worker[j][r]
           e == Reports(kind, what, o)
           v == [w EXCEPT !.pc = "looping", !.todo = @ \ {o},
                          !.cur = {}, !.log = @ \cup {e}]
<1>1. w \in Worker /\ Accounts(req[j].from, w)
  BY DEF TypeOK, AllAccount
<1>2. o \in Origin /\ e.at = {o}
  BY <1>1 DEF Worker, Reports
<1>3. /\ v.pc = "looping" /\ v.todo = w.todo \ {o}
      /\ v.log = w.log \cup {e} /\ v.snap = w.snap
  BY <1>1 DEF Worker
<1>4. Becomes(j, r, v)
  BY DEF Continue
<1> HIDE DEF v, e, w
<1>5. Covered(v) = Covered(w) \cup {o}
  BY <1>2, <1>3 DEF Covered
<1>6. Covered(w) \cup w.todo = Matched(req[j].from, w.snap)
  BY <1>1 DEF Accounts, w
<1>7. Accounts(req[j].from, v)
  BY <1>3, <1>5, <1>6 DEF Accounts, w
<1> QED
  BY <1>4, <1>7, BecomesAccounts

(* The origins that are matched are those the loop is to go through.       *)
LEMMA ListsAccounts ==
  ASSUME TypeOK, AllAccount, NEW j \in Job, NEW r \in Rule, NEW u, NEW g,
         \A e \in g : e.at = {}, Lists(j, r, u, g)
  PROVE  AllAccount'
<1> DEFINE w == worker[j][r]
           v == [w EXCEPT !.pc = "looping", !.snap = u,
                          !.todo = {o \in Present(u) : PointsAt(o, req[j].from)},
                          !.log = g]
<1>1. w \in Worker
  BY DEF TypeOK
<1>2. /\ v.pc = "looping" /\ v.snap = u /\ v.log = g
      /\ v.todo = {o \in Present(u) : PointsAt(o, req[j].from)}
  BY <1>1 DEF Worker
<1>3. Becomes(j, r, v)
  BY DEF Lists
<1> HIDE DEF v
<1>4. Covered(v) = {}
  BY <1>2 DEF Covered
<1>5. Accounts(req[j].from, v)
  BY <1>2, <1>4 DEF Accounts, Matched
<1> QED
  BY <1>3, <1>5, BecomesAccounts

(* A failed activation is reported; the origin is still to be dropped.     *)
LEMMA ActivateAccounts ==
  ASSUME TypeOK, AllAccount, NEW j \in Job, NEW r \in Rule,
         NEW o \in worker[j][r].todo, ActivateCounterpart(j, r, o)
  PROVE  AllAccount'
<1> DEFINE w == worker[j][r]
           e == Reports("error", "activate", o)
<1>1. PICK ok \in BOOLEAN :
        Becomes(j, r, [w EXCEPT !.pc = "activated", !.cur = {o},
                                !.log = IF ok THEN @ ELSE @ \cup {e}])
  BY DEF ActivateCounterpart
<1> DEFINE v == [w EXCEPT !.pc = "activated", !.cur = {o},
                          !.log = IF ok THEN @ ELSE @ \cup {e}]
<1>2. w \in Worker /\ Accounts(req[j].from, w) /\ w.pc = "looping"
  BY DEF TypeOK, AllAccount, ActivateCounterpart, ToDrop, IsNext
<1>3. o \in Origin /\ e.at = {o}
  BY <1>2 DEF Worker, Reports
<1>4. /\ v.pc = "activated" /\ v.todo = w.todo /\ v.snap = w.snap
      /\ v.log = IF ok THEN w.log ELSE w.log \cup {e}
  BY <1>2 DEF Worker
<1>5. Becomes(j, r, v)
  BY <1>1
<1> HIDE DEF v, e, w
<1>6. Covered(v) \in {Covered(w), Covered(w) \cup {o}}
  BY <1>3, <1>4 DEF Covered
<1>7. Covered(w) \cup w.todo = Matched(req[j].from, w.snap) /\ o \in w.todo
  BY <1>2 DEF Accounts, w
<1>8. Accounts(req[j].from, v)
  BY <1>4, <1>6, <1>7 DEF Accounts
<1> QED
  BY <1>5, <1>8, BecomesAccounts

LEMMA WorkerAccounts ==
  ASSUME TypeOK, AllAccount, NEW j \in Job, NEW r \in Rule, WorkerStep(j, r)
  PROVE  AllAccount'
<1> DEFINE w == worker[j][r]
<1>1. w \in Worker /\ Accounts(req[j].from, w)
  BY DEF TypeOK, AllAccount
<1>2. CASE Acquire(j, r)
  <2> DEFINE v == [w EXCEPT !.pc = "running"]
  <2>1. v.pc = "running" /\ Becomes(j, r, v)
    BY <1>1, <1>2 DEF Acquire, Worker
  <2>2. Accounts(req[j].from, v)
    BY <2>1 DEF Accounts
  <2> HIDE DEF v
  <2> QED BY <2>1, <2>2, BecomesAccounts
<1>3. CASE \/ ListUpstreams(j, r) \/ ListAnsweredWithErrorBody(j, r)
           \/ ListUpstreamsFails(j, r)
  <2>1. \A e \in {[kind |-> "error", what |-> "list", at |-> {}]} : e.at = {}
    OBVIOUS
  <2>2. \E u, g : Lists(j, r, u, g) /\ \A e \in g : e.at = {}
    BY <1>3, <2>1 DEF ListUpstreams, ListAnsweredWithErrorBody, ListUpstreamsFails
  <2> QED BY <2>2, ListsAccounts
<1>4. ASSUME NEW o \in w.todo, LoopStep(j, r, o)
      PROVE  AllAccount'
  <2>1. CASE ActivateCounterpart(j, r, o)
    BY <2>1, ActivateAccounts
  <2>2. CASE \/ SkipAtTarget(j, r, o) \/ SkipExisting(j, r, o)
             \/ RemoveOrigin(j, r, o) \/ MoveOrigin(j, r, o)
    <3>1. w.pc \in {"looping", "activated"}
      BY <2>2 DEF SkipAtTarget, SkipExisting, RemoveOrigin, MoveOrigin, MayRemove,
                  ToDrop, IsNext
    <3>2. \E kind, what : Continue(j, r, o, Reports(kind, what, o))
      BY <2>2 DEF SkipAtTarget, SkipExisting, RemoveOrigin, MoveOrigin
    <3> QED BY <3>1, <3>2, ContinueAccounts
  <2> QED BY <1>4, <2>1, <2>2 DEF LoopStep
<1>5. CASE Publish(j, r)
  <2> DEFINE v == [w EXCEPT !.pc = "done"]
  <2>1. /\ v.pc = "done" /\ v.todo = w.todo /\ v.snap = w.snap /\ v.log = w.log
        /\ Becomes(j, r, v) /\ w.pc = "looping" /\ w.todo = {}
    BY <1>1, <1>5 DEF Publish, Worker
  <2> HIDE DEF v, w
  <2>2. Covered(v) = Covered(w)
    BY <2>1 DEF Covered
  <2>3. Accounts(req[j].from, v)
    BY <1>1, <2>1, <2>2 DEF Accounts
  <2> QED BY <2>1, <2>3, BecomesAccounts
<1> QED
  BY <1>2, <1>3, <1>4, <1>5 DEF WorkerStep

LEMMA HandlerAccounts ==
  ASSUME TypeOK, AllAccount, NEW j \in Job, HandlerStep(j)
  PROVE  AllAccount'
<1> SUFFICES ASSUME NEW i \in Job, NEW s \in Rule
             PROVE  Accounts(req[i].from, worker'[i][s])
  BY DEF AllAccount, HandlerStep, Receive, ListEndpointsFails, StartWorkers, Reply
<1>1. worker'[i][s] \in {worker[i][s], Queued(worker[i][s])}
  BY DEF TypeOK, HandlerStep, Receive, ListEndpointsFails, StartWorkers, Reply
<1>2. Queued(worker[i][s]).pc = "queued"
  BY DEF TypeOK, Queued, Worker
<1>3. Accounts(req[i].from, Queued(worker[i][s]))
  BY <1>2 DEF Accounts
<1> QED
  BY <1>1, <1>3 DEF AllAccount

LEMMA StepAccounts ==
  ASSUME TypeOK, AllAccount, [Next]_vars PROVE AllAccount'
<1>1. CASE StoreStep \/ UNCHANGED vars
  BY <1>1 DEF StoreStep, vars, AllAccount
<1> QED
  BY <1>1, HandlerAccounts, WorkerAccounts DEF Next, Finished

(* A published result list has a line for every origin of the listing that *)
(* points at the source host, and lines about no other origin.             *)
THEOREM ReportComplete == Spec => []EveryMatchedOriginReported
<1>1. TypeOK /\ AllAccount /\ [Next]_vars => AllAccount'
  BY StepAccounts
<1>2. TypeOK /\ AllAccount => EveryMatchedOriginReported
  <2> SUFFICES ASSUME TypeOK, AllAccount, NEW j \in Job, NEW r \in Rule, Done(j, r),
                      NEW o \in Origin
               PROVE  (o \in Present(worker[j][r].snap) /\ PointsAt(o, req[j].from))
                        <=> Lines(j, r, {"switched", "skipped", "error"}, o) # {}
    BY DEF EveryMatchedOriginReported
  <2> DEFINE w == worker[j][r]
  <2>1. w \in Worker /\ Covered(w) = Matched(req[j].from, w.snap)
    BY DEF AllAccount, Accounts, TypeOK, Done
  <2>2. \A e \in w.log : e.kind \in {"switched", "skipped", "error"}
    BY <2>1 DEF Worker, Entry
  <2>3. o \in Covered(w) <=> Lines(j, r, {"switched", "skipped", "error"}, o) # {}
    BY <2>2 DEF Covered, Lines
  <2> QED BY <2>1, <2>3 DEF Matched
<1> QED
  BY <1>1, <1>2, InitAccounts, TypeCorrect, PTL DEF Spec

-----------------------------------------------------------------------------
(* One request on its own: what the result list says is the truth.         *)

(* Nobody else is at work.                                                 *)
Alone == MaxEdits = 0 /\ \A i, j \in Job : i = j

Told(log, o) == \E e \in log : e.kind \in {"switched", "error"} /\ o \in e.at

(* What the list has to say, or is about to, of a change of o.             *)
Explained(q, w, o) ==
  \/ Told(w.log, o)
  \/ \E p \in Present(w.snap) :
       /\ Target(q, p) = o
       /\ Told(w.log, p) \/ (w.pc = "activated" /\ p \in w.cur)
  \/ \E e \in w.log : e.what = "list"

WorkerExplains(q, u, w) ==
  /\ w.pc \in Busy => \A o \in Origin : u[o] # w.snap[o] => Explained(q, w, o)
  /\ w.pc = "activated" => \A o, p \in w.cur : o = p

LateExplained(c) ==
  \A o \in {c.old, c.new} : Explained(req[c.by], worker[c.by][c.rule], o)

ExplainedInv ==
  /\ \A j \in Job, r \in Rule : WorkerExplains(req[j], rules[r], worker[j][r])
  /\ \A c \in late : LateExplained(c)

LEMMA AloneUndisturbed ==
  ASSUME Alone, TypeOK
  PROVE  Undisturbed
  BY DEF Alone, TypeOK, Undisturbed

(* A worker goes on: what was explained still is, and so is what changes.  *)
LEMMA WorkingExplains ==
  ASSUME Alone, TypeOK, ExplainedInv, NEW j \in Job, NEW r \in Rule, NEW v,
         Becomes(j, r, v), worker[j][r].pc \in Busy,
         v.snap = worker[j][r].snap,
         v.pc = "activated" => \A o, p \in v.cur : o = p,
         \A o \in Origin : Explained(req[j], worker[j][r], o) =>
                             Explained(req[j], v, o),
         \A s \in Rule : s # r => rules'[s] = rules[s],
         \A o \in Origin : rules'[r][o] # rules[r][o] => Explained(req[j], v, o),
         \A c \in late' : c \in late \/
           /\ c \in Call /\ c.by = j /\ c.rule = r
           /\ Explained(req[j], v, c.old) /\ Explained(req[j], v, c.new)
  PROVE  ExplainedInv'
<1>1. req' = req /\ worker' = [worker EXCEPT ![j][r] = v]
  BY DEF Becomes
<1>2. /\ worker'[j][r] = v
      /\ \A s \in Rule : s # r => worker'[j][s] = worker[j][s]
      /\ \A i \in Job : i = j
  BY <1>1 DEF TypeOK, Alone
<1>3. ASSUME NEW i \in Job, NEW s \in Rule
      PROVE  WorkerExplains(req[i], rules'[s], worker'[i][s])
  <2>1. CASE s = r
    <3>1. WorkerExplains(req[j], rules[r], worker[j][r])
      BY DEF ExplainedInv
    <3>2. WorkerExplains(req[j], rules'[r], v)
      BY <3>1 DEF WorkerExplains
    <3> QED BY <1>2, <2>1, <3>2
  <2>2. CASE s # r
    BY <1>2, <2>2 DEF ExplainedInv
  <2> QED BY <2>1, <2>2
<1>4. ASSUME NEW c \in late'
      PROVE  LateExplained(c)'
  <2>1. CASE c \in late
    <3>1. c \in Call /\ c.by \in Job /\ c.rule \in Rule /\ LateExplained(c)
          /\ c.old \in Origin /\ c.new \in Origin
      BY <2>1 DEF TypeOK, Call, ExplainedInv
    <3>2. c.by = j
      BY <1>2, <3>1
    <3>3. CASE c.rule = r
      BY <1>1, <1>2, <3>1, <3>2, <3>3 DEF LateExplained
    <3>4. CASE c.rule # r
      BY <1>1, <1>2, <3>1, <3>2, <3>4 DEF LateExplained
    <3> QED BY <3>3, <3>4
  <2>2. CASE c \notin late
    BY <1>1, <1>2, <1>4, <2>2 DEF LateExplained
  <2> QED BY <2>1, <2>2
<1> QED
  BY <1>1, <1>3, <1>4 DEF ExplainedInv

(* Before its listing a worker has left no call behind.                    *)
LEMMA StartingExplains ==
  ASSUME Alone, IInv, OutcomeInv, ExplainedInv, NEW j \in Job, NEW r \in Rule,
         NEW v, Becomes(j, r, v), worker[j][r].pc \notin Busy,
         UNCHANGED storeVars, WorkerExplains(req[j], rules[r], v)
  PROVE  ExplainedInv'
<1>1. /\ req' = req /\ worker' = [worker EXCEPT ![j][r] = v]
      /\ rules' = rules /\ late' = late
  BY DEF Becomes, storeVars
<1>2. /\ worker'[j][r] = v
      /\ \A s \in Rule : s # r => worker'[j][s] = worker[j][s]
      /\ \A i \in Job : i = j
  BY <1>1 DEF IInv, TypeOK, Alone
<1>3. ASSUME NEW i \in Job, NEW s \in Rule
      PROVE  WorkerExplains(req[i], rules'[s], worker'[i][s])
  BY <1>1, <1>2 DEF ExplainedInv
<1>4. ASSUME NEW c \in late'
      PROVE  LateExplained(c)'
  <2>1. c \in late /\ c.by = j /\ c.rule \in Rule /\ LateExplained(c)
    BY <1>1, <1>2 DEF IInv, TypeOK, Call, ExplainedInv
  <2>2. LateSound(c)
    BY <2>1, AloneUndisturbed DEF OutcomeInv, IInv
  <2>3. c.rule # r
    BY <2>1, <2>2 DEF LateSound
  <2> QED BY <1>1, <1>2, <2>1, <2>3 DEF LateExplained
<1> QED
  BY <1>1, <1>3, <1>4 DEF ExplainedInv

(* Only the origins of a call change.                                      *)
LEMMA CallChanges ==
  ASSUME TypeOK, NEW c \in Call, Apply(c) \/ rules' = rules
  PROVE  /\ \A s \in Rule : s # c.rule => rules'[s] = rules[s]
         /\ \A o \in Origin : rules'[c.rule][o] # rules[c.rule][o] =>
                                o \in {c.old, c.new}
<1>1. /\ c.rule \in Rule /\ rules[c.rule] \in Upstreams
      /\ c.old \in Origin /\ c.new \in Origin
  BY DEF TypeOK, Call
<1>2. ASSUME NEW o \in Origin, o \notin {c.old, c.new}
      PROVE  Applied(rules[c.rule], c)[o] = rules[c.rule][o]
  BY <1>1, <1>2 DEF Applied, Upstreams
<1> QED
  BY <1>1, <1>2 DEF Apply, TypeOK

(* The loop goes on with what it did, or tried to do, reported.            *)
LEMMA ContinueExplains ==
  ASSUME Alone, IInv, ExplainedInv, NEW j \in Job, NEW r \in Rule,
         NEW o \in worker[j][r].todo, worker[j][r].pc \in Busy,
         NEW kind, NEW what, Continue(j, r, o, Reports(kind, what, o)),
         worker[j][r].pc = "activated" =>
           o \in worker[j][r].cur /\ kind \in {"switched", "error"},
         \A s \in Rule : s # r => rules'[s] = rules[s],
         \A x \in Origin : rules'[r][x] # rules[r][x] =>
           /\ kind \in {"switched", "error"} /\ o \in Present(worker[j][r].snap)
           /\ x = o \/ x = Target(req[j], o),
         \A c \in late' : c \in late \/
           /\ c \in Call /\ c.by = j /\ c.rule = r
           /\ kind \in {"switched", "error"} /\ o \in Present(worker[j][r].snap)
           /\ c.old = o \/ c.old = Target(req[j], o)
           /\ c.new = o \/ c.new = Target(req[j], o)
  PROVE  ExplainedInv'
<1> DEFINE w == worker[j][r]
           q == req[j]
           e == Reports(kind, what, o)
           v == Onward(w, o, e)
<1>1. w \in Worker /\ TypeOK
  BY DEF IInv, TypeOK
<1>2. /\ v.pc = "looping" /\ v.snap = w.snap /\ v.log = w.log \cup {e}
  BY <1>1 DEF Worker, Onward
<1>3. e.kind = kind /\ e.at = {o}
  BY DEF Reports
<1>4. Becomes(j, r, v)
  BY DEF Continue, Onward
<1> HIDE DEF v, e
<1>5. kind \in {"switched", "error"} => Told(v.log, o)
  BY <1>2, <1>3 DEF Told
<1>6. \A x : Told(w.log, x) => Told(v.log, x)
  BY <1>2 DEF Told
<1>7. w.pc = "activated" => \A x, y \in w.cur : x = y
  BY DEF ExplainedInv, WorkerExplains
<1>8. ASSUME NEW x \in Origin, Explained(q, w, x)
      PROVE  Explained(q, v, x)
  BY <1>2, <1>5, <1>6, <1>7, <1>8 DEF Explained
<1>9. kind \in {"switched", "error"} /\ o \in Present(w.snap) =>
        Explained(q, v, o) /\ Explained(q, v, Target(q, o))
  BY <1>2, <1>5 DEF Explained
<1> QED
  BY <1>1, <1>2, <1>4, <1>8, <1>9, WorkingExplains

LEMMA RemoveOrMoveExplains ==
  ASSUME Alone, IInv, OutcomeInv, ExplainedInv, NEW j \in Job, NEW r \in Rule,
         Asked(j, r), NEW o \in worker[j][r].todo,
         RemoveOrigin(j, r, o) \/ MoveOrigin(j, r, o)
  PROVE  ExplainedInv'
<1> DEFINE w == worker[j][r]
           q == req[j]
<1>1. TypeOK /\ w \in Worker /\ w.pc \in Busy /\ o \in Origin
  <2>1. w \in Worker /\ TypeOK
    BY DEF IInv, TypeOK
  <2>2. w.pc \in Busy
    BY DEF RemoveOrigin, MoveOrigin, MayRemove, ToDrop, IsNext, Busy
  <2> QED BY <2>1, <2>2 DEF Worker
<1>2. o \in Present(w.snap)
  BY <1>1, AloneUndisturbed DEF OutcomeInv, WorkerSound, Tidy
<1>3. w.pc = "activated" => o \in w.cur
  BY DEF RemoveOrigin, MoveOrigin, MayRemove, ToDrop, IsNext
<1>4. Target(q, o) \in Origin
  BY <1>1, AskedTyped, TargetIs DEF Target
<1>5. /\ \E c \in Call, ok \in BOOLEAN :
              /\ c.by = j /\ c.rule = r
              /\ c.old = o /\ (c.new = o \/ c.new = Target(q, o))
              /\ Answers(c, ok)
      /\ \E what : \E kind \in {"switched", "error"} :
              Continue(j, r, o, Reports(kind, what, o))
  <2>1. CASE RemoveOrigin(j, r, o)
    <3> DEFINE c == RemoveUpstream(j, r, o)
    <3>1. /\ c \in Call /\ c.by = j /\ c.rule = r
          /\ c.old = o /\ c.new = o
      BY <1>1 DEF RemoveUpstream, Call
    <3>2. PICK ok \in BOOLEAN :
            /\ Answers(c, ok)
            /\ Continue(j, r, o, IF ok THEN Reports("switched", "dropped", o)
                                       ELSE Reports("error", "remove", o))
      BY <2>1 DEF RemoveOrigin
    <3>3. \E what : \E kind \in {"switched", "error"} :
            Continue(j, r, o, Reports(kind, what, o))
      <4>1. CASE ok
        BY <3>2, <4>1
      <4>2. CASE ~ok
        BY <3>2, <4>2
      <4> QED BY <4>1, <4>2
    <3> HIDE DEF c
    <3> QED BY <3>1, <3>2, <3>3
  <2>2. CASE MoveOrigin(j, r, o)
    <3> DEFINE c == UpdateUpstream(j, r, o, Target(q, o), w.snap[o] = "active")
    <3>1. /\ c \in Call /\ c.by = j /\ c.rule = r
          /\ c.old = o /\ c.new = Target(q, o)
      BY <1>1, <1>4 DEF UpdateUpstream, Call
    <3>2. PICK ok \in BOOLEAN :
            /\ Answers(c, ok)
            /\ Continue(j, r, o, IF ok THEN Reports("switched", "moved", o)
                                       ELSE Reports("error", "update", o))
      BY <2>2 DEF MoveOrigin, Target
    <3>3. \E what : \E kind \in {"switched", "error"} :
            Continue(j, r, o, Reports(kind, what, o))
      <4>1. CASE ok
        BY <3>2, <4>1
      <4>2. CASE ~ok
        BY <3>2, <4>2
      <4> QED BY <4>1, <4>2
    <3> HIDE DEF c
    <3> QED BY <3>1, <3>2, <3>3
  <2> QED BY <2>1, <2>2
<1>6. PICK c \in Call, ok \in BOOLEAN :
        /\ c.by = j /\ c.rule = r
        /\ c.old = o /\ (c.new = o \/ c.new = Target(q, o))
        /\ Answers(c, ok)
  BY <1>5
<1>7. PICK kind, what : /\ kind \in {"switched", "error"}
                        /\ Continue(j, r, o, Reports(kind, what, o))
  BY <1>5
<1>8. (rules' = rules \/ Apply(c)) /\ late' \subseteq late \cup {c}
  BY <1>1, <1>6, AnswersTyped
<1>9. /\ \A s \in Rule : s # r => rules'[s] = rules[s]
      /\ \A x \in Origin : rules'[r][x] # rules[r][x] =>
                             x = o \/ x = Target(q, o)
  BY <1>1, <1>6, <1>8, CallChanges
<1>10. \A d \in late' : d \in late \/
        /\ d \in Call /\ d.by = j /\ d.rule = r
        /\ d.old = o \/ d.old = Target(q, o)
        /\ d.new = o \/ d.new = Target(q, o)
  BY <1>6, <1>8
<1> QED
  BY <1>1, <1>2, <1>3, <1>7, <1>9, <1>10, ContinueExplains

LEMMA SkipExplains ==
  ASSUME Alone, IInv, ExplainedInv, NEW j \in Job, NEW r \in Rule,
         NEW o \in worker[j][r].todo,
         SkipAtTarget(j, r, o) \/ SkipExisting(j, r, o)
  PROVE  ExplainedInv'
<1>1. worker[j][r].pc = "looping"
  BY DEF SkipAtTarget, SkipExisting, IsNext
<1>2. PICK what : Continue(j, r, o, Reports("skipped", what, o))
  BY DEF SkipAtTarget, SkipExisting
<1>3. rules' = rules /\ late' = late
  BY DEF SkipAtTarget, SkipExisting, storeVars
<1>4. worker[j][r].pc \in Busy /\ worker[j][r].pc # "activated"
  BY <1>1 DEF Busy
<1> DEFINE kind == "skipped"
<1>5. Continue(j, r, o, Reports(kind, what, o))
  BY <1>2
<1> HIDE DEF kind
<1> QED
  BY <1>3, <1>4, <1>5, ContinueExplains

(* The activation of a target is explained by the origin to be dropped.    *)
LEMMA ActivateExplains ==
  ASSUME Alone, IInv, OutcomeInv, ExplainedInv, NEW j \in Job, NEW r \in Rule,
         Asked(j, r), NEW o \in worker[j][r].todo, ActivateCounterpart(j, r, o)
  PROVE  ExplainedInv'
<1> DEFINE w == worker[j][r]
           q == req[j]
           new == Target(q, o)
           c == UpdateUpstream(j, r, new, new, TRUE)
<1>1. TypeOK /\ w \in Worker /\ w.pc = "looping" /\ o \in Origin
  <2>1. w \in Worker /\ TypeOK
    BY DEF IInv, TypeOK
  <2>2. w.pc = "looping"
    BY DEF ActivateCounterpart, ToDrop, IsNext
  <2> QED BY <2>1, <2>2 DEF Worker
<1>2. o \in Present(w.snap)
  BY <1>1, AloneUndisturbed DEF OutcomeInv, WorkerSound, Tidy, Busy
<1>3. PICK ok \in BOOLEAN :
        Answers(c, ok) /\ Becomes(j, r, Between(w, o, ok))
  BY DEF ActivateCounterpart, Between, Target
<1>4. new \in Origin
  BY <1>1, AskedTyped, TargetIs DEF Target
<1>5. c \in Call /\ c.by = j /\ c.rule = r /\ c.old = new /\ c.new = new
  BY <1>4 DEF UpdateUpstream, Call
<1> DEFINE v == Between(w, o, ok)
<1>6. /\ v.pc = "activated" /\ v.snap = w.snap /\ v.cur = {o}
      /\ w.log \subseteq v.log
  BY <1>1 DEF Worker, Between
<1>7. Becomes(j, r, v)
  BY <1>3
<1> HIDE DEF v, c
<1>8. (rules' = rules \/ Apply(c)) /\ late' \subseteq late \cup {c}
  BY <1>1, <1>3, <1>5, AnswersTyped
<1>9. /\ \A s \in Rule : s # r => rules'[s] = rules[s]
      /\ \A x \in Origin : rules'[r][x] # rules[r][x] => x = new
  BY <1>1, <1>5, <1>8, CallChanges
<1>10. \A x : Told(w.log, x) => Told(v.log, x)
  BY <1>6 DEF Told
<1>11. ASSUME NEW x \in Origin, Explained(q, w, x)
       PROVE  Explained(q, v, x)
  BY <1>1, <1>6, <1>10, <1>11 DEF Explained
<1>12. Explained(q, v, new)
  BY <1>2, <1>6 DEF Explained
<1>13. w.pc \in Busy /\ \A x, y \in v.cur : x = y
  BY <1>1, <1>6 DEF Busy
<1>14. \A d \in late' : d \in late \/
         /\ d \in Call /\ d.by = j /\ d.rule = r
         /\ Explained(q, v, d.old) /\ Explained(q, v, d.new)
  BY <1>5, <1>8, <1>12
<1> QED
  BY <1>1, <1>6, <1>7, <1>9, <1>11, <1>12, <1>13, <1>14, WorkingExplains

LEMMA StartExplains ==
  ASSUME Alone, IInv, OutcomeInv, ExplainedInv, NEW j \in Job, NEW r \in Rule,
         \/ Acquire(j, r) \/ ListUpstreams(j, r)
         \/ ListAnsweredWithErrorBody(j, r) \/ ListUpstreamsFails(j, r)
  PROVE  ExplainedInv'
<1> DEFINE w == worker[j][r]
<1>1. w \in Worker /\ endpoints = Rule
  BY AloneUndisturbed DEF IInv, TypeOK, OutcomeInv
<1>2. w.pc \notin Busy /\ UNCHANGED storeVars
  BY DEF Acquire, ListUpstreams, ListAnsweredWithErrorBody, ListUpstreamsFails,
         Busy
<1>3. CASE Acquire(j, r)
  <2> DEFINE v == [w EXCEPT !.pc = "running"]
  <2>1. Becomes(j, r, v) /\ v.pc = "running"
    BY <1>1, <1>3 DEF Acquire, Worker
  <2>2. WorkerExplains(req[j], rules[r], v)
    BY <2>1 DEF WorkerExplains, Busy
  <2> HIDE DEF v
  <2> QED BY <1>2, <2>1, <2>2, StartingExplains
<1>4. ASSUME NEW u, NEW g, Lists(j, r, u, g),
             u = rules[r] \/ \E e \in g : e.what = "list"
      PROVE  ExplainedInv'
  <2> DEFINE v == [w EXCEPT !.pc = "looping", !.snap = u,
                     !.todo = {o \in Present(u) : PointsAt(o, req[j].from)},
                     !.log = g]
  <2>1. /\ Becomes(j, r, v) /\ v.pc = "looping"
        /\ v.snap = u /\ v.log = g
    BY <1>1, <1>4 DEF Lists, Worker
  <2> HIDE DEF v
  <2>2. WorkerExplains(req[j], rules[r], v)
    BY <1>4, <2>1 DEF WorkerExplains, Explained
  <2> QED BY <1>2, <2>1, <2>2, StartingExplains
<1>5. CASE ListUpstreams(j, r)
  BY <1>4, <1>5 DEF ListUpstreams
<1>6. CASE ListUpstreamsFails(j, r)
  <2> DEFINE g == {[kind |-> "error", what |-> "list", at |-> {}]}
  <2>1. Lists(j, r, NoUpstreams, g) /\ \E e \in g : e.what = "list"
    BY <1>6 DEF ListUpstreamsFails
  <2> HIDE DEF g
  <2> QED BY <1>4, <2>1
<1>7. ~ListAnsweredWithErrorBody(j, r)
  BY <1>1 DEF ListAnsweredWithErrorBody
<1> QED
  BY <1>3, <1>5, <1>6, <1>7

LEMMA PublishExplains ==
  ASSUME Alone, IInv, ExplainedInv, NEW j \in Job, NEW r \in Rule,
         Publish(j, r)
  PROVE  ExplainedInv'
<1> DEFINE w == worker[j][r]
           v == [w EXCEPT !.pc = "done"]
<1>1. TypeOK /\ w \in Worker
  BY DEF IInv, TypeOK
<1>2. /\ w.pc = "looping" /\ w.pc \in Busy
      /\ v.pc = "done" /\ v.snap = w.snap /\ v.log = w.log
      /\ Becomes(j, r, v) /\ rules' = rules /\ late' = late
  BY <1>1 DEF Publish, Worker, Busy, storeVars
<1> HIDE DEF v
<1>3. \A x \in Origin : Explained(req[j], w, x) => Explained(req[j], v, x)
  BY <1>2 DEF Explained
<1> QED
  BY <1>1, <1>2, <1>3, WorkingExplains

LEMMA HandlerExplains ==
  ASSUME Alone, IInv, OutcomeInv, ExplainedInv, NEW j \in Job, HandlerStep(j)
  PROVE  ExplainedInv'
<1>1. UNCHANGED <<req, rules, late>>
  BY DEF HandlerStep, Receive, ListEndpointsFails, StartWorkers, Reply, storeVars
<1>2. ASSUME NEW i \in Job, NEW s \in Rule, worker'[i][s] # worker[i][s]
      PROVE  worker[i][s].pc \notin Busy /\ worker'[i][s].pc = "queued"
  <2>1. i = j /\ phase[j] = "listing" /\ worker'[i][s] = Queued(worker[i][s])
    BY <1>2 DEF IInv, TypeOK, HandlerStep, Receive, ListEndpointsFails,
                StartWorkers, Reply
  <2>2. worker[i][s].pc = "none"
    BY <2>1 DEF IInv, WorkersAsked, Asked
  <2>3. worker[i][s] \in Worker
    BY DEF IInv, TypeOK
  <2>4. Queued(worker[i][s]).pc = "queued"
    BY <2>3 DEF Queued, Worker
  <2> QED BY <2>1, <2>2, <2>4 DEF Busy
<1>3. ASSUME NEW i \in Job, NEW s \in Rule
      PROVE  WorkerExplains(req[i], rules[s], worker'[i][s])
  BY <1>2 DEF ExplainedInv, WorkerExplains, Busy
<1>4. ASSUME NEW c \in late
      PROVE  LateExplained(c)'
  <2>1. c.by \in Job /\ c.rule \in Rule /\ LateSound(c) /\ LateExplained(c)
    BY AloneUndisturbed DEF IInv, TypeOK, Call, OutcomeInv, ExplainedInv
  <2>2. worker'[c.by][c.rule] = worker[c.by][c.rule]
    BY <1>2, <2>1 DEF LateSound
  <2> QED BY <1>1, <2>1, <2>2 DEF LateExplained
<1> QED
  BY <1>1, <1>3, <1>4 DEF ExplainedInv

LEMMA LateCallExplains ==
  ASSUME Alone, IInv, OutcomeInv, ExplainedInv, ArriveLate,
         UNCHANGED <<phase, req, worker>>
  PROVE  ExplainedInv'
<1>1. PICK c \in late : /\ late' \subseteq late
                        /\ Apply(c) \/ rules' = rules
  BY DEF ArriveLate
<1>2. c \in Call /\ c.by \in Job /\ c.rule \in Rule /\ LateExplained(c) /\ TypeOK
  BY DEF IInv, TypeOK, Call, ExplainedInv
<1>3. /\ \A s \in Rule : s # c.rule => rules'[s] = rules[s]
      /\ \A o \in Origin : rules'[c.rule][o] # rules[c.rule][o] =>
                             o \in {c.old, c.new}
  BY <1>1, <1>2, CallChanges
<1>4. ASSUME NEW j \in Job, NEW r \in Rule
      PROVE  WorkerExplains(req[j], rules'[r], worker[j][r])
  <2>1. WorkerExplains(req[j], rules[r], worker[j][r])
    BY DEF ExplainedInv
  <2>2. CASE r = c.rule
    <3>1. j = c.by
      BY <1>2 DEF Alone
    <3>2. \A o \in Origin : rules'[r][o] # rules[r][o] =>
            Explained(req[j], worker[j][r], o)
      BY <1>2, <1>3, <2>2, <3>1 DEF LateExplained
    <3> QED BY <2>1, <3>2 DEF WorkerExplains
  <2> QED BY <1>3, <2>1, <2>2
<1>5. \A d \in late' : LateExplained(d)'
  BY <1>1 DEF ExplainedInv, LateExplained
<1> QED
  BY <1>4, <1>5 DEF ExplainedInv

LEMMA StepExplains ==
  ASSUME Alone, IInv, OutcomeInv, ExplainedInv, [Next]_vars
  PROVE  ExplainedInv'
<1>1. ASSUME NEW j \in Job, NEW r \in Rule, WorkerStep(j, r)
      PROVE  ExplainedInv'
  <2>1. worker[j][r].pc # "none"
    BY <1>1 DEF WorkerStep, LoopStep, Acquire, ListUpstreams,
           ListAnsweredWithErrorBody, ListUpstreamsFails, Publish,
           SkipAtTarget, SkipExisting, ActivateCounterpart, RemoveOrigin,
           MayRemove, ToDrop, MoveOrigin, IsNext
  <2>2. Asked(j, r)
    BY <2>1 DEF IInv, WorkersAsked
  <2> QED
    BY <1>1, <2>2, RemoveOrMoveExplains, SkipExplains, ActivateExplains,
       StartExplains, PublishExplains DEF WorkerStep, LoopStep
<1>2. ~(OthersAct /\ UNCHANGED <<phase, req, worker>>)
  BY StoreAssumption DEF Alone, IInv, TypeOK, OthersAct, AdminSetsOrigin,
     AdminDeletesRule, ApplyUpstream, Edit
<1>3. CASE UNCHANGED vars
  BY <1>3 DEF vars, ExplainedInv, LateExplained
<1> QED
  BY <1>1, <1>2, <1>3, HandlerExplains, LateCallExplains
     DEF Next, StoreStep, Finished

(* The result list of a single request tells the truth, whatever fails and *)
(* whatever was given up: a switched origin is gone and its target there,  *)
(* and every change of the rule is accounted for.                          *)
THEOREM ReportsAreTrue ==
  ASSUME Alone
  PROVE  Spec => []ReportIsTrue
<1>1. Init => ExplainedInv
  BY DEF Init, ExplainedInv, WorkerExplains, NewWorker, Busy
<1>2. IInv /\ OutcomeInv /\ ExplainedInv /\ [Next]_vars => ExplainedInv'
  BY StepExplains
<1>3. IInv /\ OutcomeInv /\ ExplainedInv => ReportIsTrue
  <2> SUFFICES ASSUME IInv, OutcomeInv, ExplainedInv,
                      NEW j \in Job, NEW r \in Rule, Done(j, r)
               PROVE  LET w == worker[j][r]
                          To(o) == SwitchOriginHost(o, req[j].to)
                      IN  /\ \A o \in Present(w.snap) :
                               Lines(j, r, {"switched"}, o) # {} =>
                                 /\ o \notin Present(rules[r])
                                 /\ Existing(rules[r], Key(To(o)))
                          /\ \A o \in Origin : rules[r][o] # w.snap[o] =>
                               \/ Lines(j, r, {"switched", "error"}, o) # {}
                               \/ \E p \in Present(w.snap) :
                                    /\ To(p) = o
                                    /\ Lines(j, r, {"switched", "error"}, p) # {}
                               \/ \E e \in w.log : e.what = "list"
    BY DEF ReportIsTrue
  <2> DEFINE w == worker[j][r]
             q == req[j]
  <2>1. w.pc = "done" /\ w.pc \in Busy
    BY DEF Done, Busy
  <2>2. SwitchedIsGone(q, rules[r], w)
    BY <2>1, AloneUndisturbed DEF IInv, OutcomeInv, WorkerSound
  <2>3. ASSUME NEW o \in Present(w.snap), Lines(j, r, {"switched"}, o) # {}
        PROVE  /\ o \notin Present(rules[r])
               /\ Existing(rules[r], Key(Target(q, o)))
    <3>1. \E e \in w.log : e.kind = "switched" /\ o \in e.at
      BY <2>3 DEF Lines
    <3>2. rules[r][o] = "absent" /\ StandsIn(q, rules[r], o)
      BY <2>2, <3>1 DEF SwitchedIsGone
    <3> QED BY <3>2 DEF StandsIn, Existing, Present
  <2>4. \A o : Told(w.log, o) => Lines(j, r, {"switched", "error"}, o) # {}
    BY DEF Told, Lines
  <2>5. ASSUME NEW o \in Origin, rules[r][o] # w.snap[o]
        PROVE  Explained(q, w, o)
    BY <2>1, <2>5 DEF ExplainedInv, WorkerExplains
  <2>6. ASSUME NEW o \in Origin, rules[r][o] # w.snap[o]
        PROVE  \/ Lines(j, r, {"switched", "error"}, o) # {}
               \/ \E p \in Present(w.snap) :
                    /\ Target(q, p) = o
                    /\ Lines(j, r, {"switched", "error"}, p) # {}
               \/ \E e \in w.log : e.what = "list"
    BY <2>1, <2>4, <2>5, <2>6 DEF Explained
  <2> QED BY <2>3, <2>6 DEF Target
<1> QED
  BY <1>1, <1>2, <1>3, Invariance, OutcomesStay, PTL DEF Spec
=============================================================================
