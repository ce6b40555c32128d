--------------------------- MODULE BulkSwitchProofs ---------------------------
(***************************************************************************)
(* Theorems about BulkSwitch for every set of requests, rules, hosts and   *)
(* faults.  The inductive invariant says that work is only ever done on    *)
(* behalf of an accepted request: by its workers, and by the calls they    *)
(* gave up on, which outlive them.                                         *)
(***************************************************************************)
EXTENDS BulkSwitch, TLAPS

HandlersAccepted ==
  \A j \in Job : phase[j] \in {"listing", "waiting", "replied"} =>
                   Acceptable(req[j])

WorkersAsked ==
  \A j \in Job, r \in Rule :
    /\ worker[j][r].pc # "none" => Asked(j, r)
    /\ \A o \in worker[j][r].todo : PointsAt(o, req[j].from)

(* The call does what its request asks for.                                *)
Ordered(c) ==
  /\ Asked(c.by, c.rule)
  /\ IF c.op = "remove"
     THEN /\ c.new = c.old
          /\ PointsAt(c.old, req[c.by].from)
     ELSE /\ Bare[c.new.host] = Bare[req[c.by].to]
          /\ c.old = c.new \/ PointsAt(c.old, req[c.by].from)

LateOrdered == \A c \in late : Ordered(c)

IInv == TypeOK /\ HandlersAccepted /\ WorkersAsked /\ LateOrdered

-----------------------------------------------------------------------------
(* The operators the steps are built from.                                 *)

LEMMA NoUpstreamsTyped == NoUpstreams \in Upstreams
  BY DEF NoUpstreams, Upstreams, Status

(* A rewritten origin is an origin, and is written for the target host.    *)
LEMMA SwitchTyped ==
  ASSUME NEW o \in Origin, NEW to \in HostText
  PROVE  /\ SwitchOriginHost(o, to) \in Origin
         /\ Bare[SwitchOriginHost(o, to).host] = Bare[to]
  BY TextAssumption DEF SwitchOriginHost, Origin

LEMMA AcceptableTyped ==
  ASSUME NEW j \in Job, req \in [Job -> Requests], Acceptable(req[j])
  PROVE  req[j].from \in HostText /\ req[j].to \in HostText
<1>1. req[j] \in [from : HostText \cup {""}, to : HostText \cup {""},
                  selected : SUBSET Rule]
  BY SwitchAssumption
<1>2. QED BY <1>1 DEF Acceptable

LEMMA AppliedTyped ==
  ASSUME NEW u \in Upstreams, NEW c \in Call
  PROVE  Applied(u, c) \in Upstreams
  BY DEF Applied, Upstreams, Call, Status, StatusOf

(* Applying an ordered call changes its rule as its request asks for, and  *)
(* no other rule.                                                          *)
LEMMA AppliedAsAsked ==
  ASSUME TypeOK, NEW c \in Call, Ordered(c), Apply(c)
  PROVE  \A r \in Rule : rules'[r] # rules[r] => AsAsked(c.by, r)
<1> SUFFICES ASSUME NEW r \in Rule, rules'[r] # rules[r]
             PROVE  AsAsked(c.by, r)
  OBVIOUS
<1>1. r = c.rule /\ rules'[r] = Applied(rules[r], c)
  BY DEF Apply, TypeOK, Call
<1>2. rules[r] \in [Origin -> Status]
  BY DEF TypeOK, Upstreams
<1>3. c.old \in Origin /\ c.new \in Origin
  BY DEF Call
<1>4. Asked(c.by, r)
  BY <1>1 DEF Ordered
<1>5. ASSUME NEW o \in Origin, rules'[r][o] # rules[r][o]
      PROVE  IF rules'[r][o] = "absent"
             THEN PointsAt(o, req[c.by].from)
             ELSE Bare[o.host] = Bare[req[c.by].to]
  <2>1. CASE c.op = "remove"
    <3>1. o = c.old /\ rules'[r][o] = "absent"
      BY <1>1, <1>2, <1>3, <1>5, <2>1 DEF Applied
    <3>2. QED BY <2>1, <3>1 DEF Ordered
  <2>2. CASE c.op # "remove"
    <3>1. \/ o = c.new /\ rules'[r][o] = StatusOf(c.active)
          \/ o = c.old /\ o # c.new /\ rules'[r][o] = "absent"
      BY <1>1, <1>2, <1>3, <1>5, <2>2 DEF Applied
    <3>2. StatusOf(c.active) # "absent"
      BY DEF StatusOf
    <3>3. QED BY <2>2, <3>1, <3>2 DEF Ordered
  <2>3. QED BY <2>1, <2>2
<1>6. QED BY <1>4, <1>5 DEF AsAsked

(* Whatever Zoraxy answers, the store stays well-typed and the only call   *)
(* that can be left on its way is the one made.                            *)
LEMMA AnswersTyped ==
  ASSUME TypeOK, NEW c \in Call, NEW ok \in BOOLEAN, Answers(c, ok)
  PROVE  /\ rules' \in [Rule -> Upstreams]
         /\ endpoints' = endpoints
         /\ edits' = edits
         /\ late' \subseteq late \cup {c}
         /\ rules' = rules \/ Apply(c)
<1>1. CASE ok
  <2>1. Apply(c) /\ UNCHANGED <<endpoints, late, edits>>
    BY <1>1 DEF Answers, Succeeds
  <2>2. c.rule \in Rule /\ rules[c.rule] \in Upstreams
    BY DEF TypeOK, Call
  <2>3. rules' \in [Rule -> Upstreams]
    BY <2>1, <2>2, AppliedTyped DEF Apply, TypeOK
  <2>4. QED BY <2>1, <2>3
<1>2. CASE ~ok
  BY <1>2 DEF Answers, IsRefused, TimesOut, storeVars, TypeOK
<1>3. QED BY <1>1, <1>2

-----------------------------------------------------------------------------
(* The invariant, step by step.                                            *)

LEMMA InitIInv == Init => IInv
<1> SUFFICES ASSUME Init PROVE IInv
  OBVIOUS
<1>1. NewWorker \in Worker
  BY NoUpstreamsTyped DEF NewWorker, Worker, Control
<1>2. rules \in [Rule -> Upstreams]
  BY SwitchAssumption DEF Init
<1>3. edits \in 0..MaxEdits
  BY StoreAssumption DEF Init
<1>4. TypeOK
  BY <1>1, <1>2, <1>3 DEF Init, TypeOK, Phase
<1>5. HandlersAccepted
  BY DEF Init, HandlersAccepted
<1>6. WorkersAsked
  BY DEF Init, WorkersAsked, NewWorker
<1>7. LateOrdered
  BY DEF Init, LateOrdered
<1>8. QED BY <1>4, <1>5, <1>6, <1>7 DEF IInv

(* A step of the handler moves its phase on and may start workers.         *)
LEMMA HandlerKeeps ==
  ASSUME IInv, NEW j \in Job, HandlerStep(j)
  PROVE  IInv'
<1> USE DEF IInv
<1>0. UNCHANGED <<req, rules, endpoints, late, edits>>
  BY DEF HandlerStep, Receive, ListEndpointsFails, StartWorkers, Reply,
         storeVars
<1>1. PICK p \in Phase : /\ phase' = [phase EXCEPT ![j] = p]
                         /\ phase[j] \notin {"replied"}
                         /\ phase[j] = "waiting" => p = "replied"
                         /\ p \in {"listing", "waiting", "replied"} =>
                              Acceptable(req[j])
  BY DEF HandlerStep, Receive, ListEndpointsFails, StartWorkers, Reply,
         Moves, Phase, HandlersAccepted, TypeOK
<1>2. ASSUME NEW i \in Job, NEW r \in Rule, Asked(i, r)
      PROVE  Asked(i, r)'
  BY <1>0, <1>1, <1>2 DEF Asked, TypeOK
<1>3. \/ worker' = worker
      \/ /\ phase'[j] = "waiting"
         /\ worker' = [worker EXCEPT ![j] =
                  [r \in Rule |-> IF r \in req[j].selected \cap endpoints
                                  THEN Queued(worker[j][r])
                                  ELSE worker[j][r]]]
  BY DEF HandlerStep, Receive, ListEndpointsFails, StartWorkers, Reply,
         Moves, TypeOK
<1>4. worker' \in [Job -> [Rule -> Worker]]
  <2>1. \A w \in Worker : Queued(w) \in Worker
    BY DEF Worker, Control, Queued
  <2>2. QED BY <1>3, <2>1 DEF TypeOK
<1>5. TypeOK'
  BY <1>0, <1>1, <1>4 DEF TypeOK
<1>6. HandlersAccepted'
  BY <1>0, <1>1 DEF HandlersAccepted, TypeOK
<1>7. WorkersAsked'
  <2> SUFFICES ASSUME NEW i \in Job, NEW r \in Rule
               PROVE  /\ worker'[i][r].pc # "none" => Asked(i, r)'
                      /\ \A o \in worker'[i][r].todo : PointsAt(o, req[i].from)
    BY <1>0 DEF WorkersAsked, PointsAt
  <2>1. CASE worker'[i][r] = worker[i][r]
    BY <1>2, <2>1 DEF WorkersAsked
  <2>2. CASE worker'[i][r] # worker[i][r]
    <3>1. /\ i = j /\ r \in req[j].selected /\ phase'[j] = "waiting"
          /\ worker'[i][r] = Queued(worker[i][r])
      BY <1>3, <2>2 DEF TypeOK
    <3>2. worker[i][r] \in Worker
      BY DEF TypeOK
    <3>3. worker'[i][r].todo = worker[i][r].todo
      BY <3>1, <3>2 DEF Worker, Queued
    <3>4. Asked(i, r)'
      BY <1>0, <3>1 DEF Asked
    <3>5. QED BY <3>3, <3>4 DEF WorkersAsked
  <2>3. QED BY <2>1, <2>2
<1>8. LateOrdered'
  BY <1>0, <1>2 DEF LateOrdered, Ordered, TypeOK, Call, PointsAt
<1>9. QED BY <1>5, <1>6, <1>7, <1>8

(* A step of a worker keeps the invariant when the worker stays within its *)
(* request and any call it leaves behind is an ordered one.                *)
LEMMA WorkerKeeps ==
  ASSUME IInv, NEW j \in Job, NEW r \in Rule, NEW w \in Worker,
         Becomes(j, r, w), Asked(j, r),
         \A o \in w.todo : PointsAt(o, req[j].from),
         rules' \in [Rule -> Upstreams],
         endpoints' = endpoints, edits' = edits,
         \A c \in late' : c \in Call /\ Ordered(c)
  PROVE  IInv'
<1> USE DEF IInv
<1>0. UNCHANGED <<phase, req>>
  BY DEF Becomes
<1>1. TypeOK'
  BY DEF TypeOK, Becomes
<1>2. HandlersAccepted'
  BY <1>0 DEF HandlersAccepted
<1>3. WorkersAsked'
  <2> SUFFICES ASSUME NEW i \in Job, NEW s \in Rule
               PROVE  /\ worker'[i][s].pc # "none" => Asked(i, s)
                      /\ \A o \in worker'[i][s].todo : PointsAt(o, req[i].from)
    BY <1>0 DEF WorkersAsked, PointsAt, Asked
  <2>1. CASE i = j /\ s = r
    BY <2>1 DEF Becomes, TypeOK
  <2>2. CASE ~(i = j /\ s = r)
    <3>1. worker'[i][s] = worker[i][s]
      BY <2>2 DEF Becomes, TypeOK
    <3>2. QED BY <3>1 DEF WorkersAsked
  <2>3. QED BY <2>1, <2>2
<1>4. LateOrdered'
  BY <1>0 DEF LateOrdered, Ordered, Asked, PointsAt
<1>5. QED BY <1>1, <1>2, <1>3, <1>4

(* The two kinds of worker steps: without a call, and with an ordered one. *)
LEMMA LocalKeeps ==
  ASSUME IInv, NEW j \in Job, NEW r \in Rule, NEW w \in Worker,
         Becomes(j, r, w), Asked(j, r),
         \A o \in w.todo : PointsAt(o, req[j].from),
         UNCHANGED storeVars
  PROVE  IInv' /\ rules' = rules
<1>1. /\ rules' = rules /\ endpoints' = endpoints
      /\ late' = late /\ edits' = edits
  BY DEF storeVars
<1>2. rules' \in [Rule -> Upstreams] /\ late \subseteq Call
  BY <1>1 DEF IInv, TypeOK
<1>3. \A c \in late' : c \in Call /\ Ordered(c)
  BY <1>1, <1>2 DEF IInv, LateOrdered
<1>4. QED BY <1>1, <1>2, <1>3, WorkerKeeps

LEMMA CallingKeeps ==
  ASSUME IInv, NEW j \in Job, NEW r \in Rule, NEW w \in Worker,
         Becomes(j, r, w), Asked(j, r),
         \A o \in w.todo : PointsAt(o, req[j].from),
         NEW c \in Call, Ordered(c), c.by = j,
         NEW ok \in BOOLEAN, Answers(c, ok)
  PROVE  /\ IInv'
         /\ \A s \in Rule : rules'[s] # rules[s] => AsAsked(j, s)
<1>1. TypeOK
  BY DEF IInv
<1>2. /\ rules' \in [Rule -> Upstreams]
      /\ endpoints' = endpoints /\ edits' = edits
      /\ late' \subseteq late \cup {c}
      /\ rules' = rules \/ Apply(c)
  BY <1>1, AnswersTyped
<1>3. \A d \in late' : d \in Call /\ Ordered(d)
  BY <1>2 DEF IInv, LateOrdered, TypeOK
<1>4. IInv'
  BY <1>2, <1>3, WorkerKeeps
<1>5. \A s \in Rule : rules'[s] # rules[s] => AsAsked(j, s)
  BY <1>1, <1>2, AppliedAsAsked
<1>6. QED BY <1>4, <1>5

(* One step per action of the worker.                                      *)
LEMMA WorkerStepKeeps ==
  ASSUME IInv, NEW j \in Job, NEW r \in Rule, WorkerStep(j, r)
  PROVE  /\ IInv'
         /\ \A s \in Rule : rules'[s] # rules[s] => AsAsked(j, s)
<1> DEFINE w == worker[j][r]
<1>1. /\ w \in Worker /\ phase \in [Job -> Phase]
      /\ req \in [Job -> Requests] /\ rules \in [Rule -> Upstreams]
  BY DEF IInv, TypeOK
<1>2. w.pc # "none"
  BY DEF WorkerStep, LoopStep, Acquire, ListUpstreams,
         ListAnsweredWithErrorBody, ListUpstreamsFails, Publish,
         SkipAtTarget, SkipExisting, ActivateCounterpart, RemoveOrigin,
         MayRemove, ToDrop, MoveOrigin, IsNext
<1>3. Asked(j, r) /\ \A o \in w.todo : PointsAt(o, req[j].from)
  BY <1>2 DEF IInv, WorkersAsked
<1>4. req[j].to \in HostText
  <2>1. Acceptable(req[j])
    BY <1>3 DEF IInv, HandlersAccepted, Asked
  <2>2. QED BY <1>1, <2>1, AcceptableTyped
<1>5. CASE Acquire(j, r) \/ Publish(j, r)
  <2>1. PICK p \in Control : /\ Becomes(j, r, [w EXCEPT !.pc = p])
                             /\ UNCHANGED storeVars
    BY <1>5 DEF Acquire, Publish, Control
  <2>2. /\ [w EXCEPT !.pc = p] \in Worker
        /\ [w EXCEPT !.pc = p].todo = w.todo
    BY <1>1 DEF Worker
  <2>3. QED BY <1>3, <2>1, <2>2, LocalKeeps
<1>6. CASE \/ ListUpstreams(j, r) \/ ListAnsweredWithErrorBody(j, r)
           \/ ListUpstreamsFails(j, r)
  <2>1. PICK u \in Upstreams, g \in SUBSET Entry :
          Lists(j, r, u, g) /\ UNCHANGED storeVars
    <3>1. [kind |-> "error", what |-> "list", at |-> {}] \in Entry
      BY DEF Entry
    <3>2. {} \in SUBSET Entry /\ rules[r] \in Upstreams
      BY <1>1
    <3>3. QED
      BY <1>6, <3>1, <3>2, NoUpstreamsTyped
         DEF ListUpstreams, ListAnsweredWithErrorBody, ListUpstreamsFails
  <2> DEFINE v == [w EXCEPT !.pc = "looping", !.snap = u,
                     !.todo = {o \in Present(u) : PointsAt(o, req[j].from)},
                     !.log = g]
  <2>2. /\ v.todo = {o \in Present(u) : PointsAt(o, req[j].from)}
        /\ v.pc = "looping" /\ v.snap = u /\ v.log = g /\ v.cur = w.cur
        /\ v \in Worker
    BY <1>1 DEF Worker, Control, Present
  <2>3. Becomes(j, r, v)
    BY <2>1 DEF Lists
  <2> HIDE DEF v
  <2>4. QED BY <1>3, <2>1, <2>2, <2>3, LocalKeeps
<1>7. ASSUME NEW o \in w.todo, LoopStep(j, r, o)
      PROVE  /\ IInv'
             /\ \A s \in Rule : rules'[s] # rules[s] => AsAsked(j, s)
  <2> DEFINE new == SwitchOriginHost(o, req[j].to)
             Goes(e) == [w EXCEPT !.pc = "looping", !.todo = @ \ {o},
                                  !.cur = {}, !.log = @ \cup {e}]
  <2>1. o \in Origin /\ PointsAt(o, req[j].from)
    BY <1>1, <1>3 DEF Worker
  <2>2. new \in Origin /\ Bare[new.host] = Bare[req[j].to]
    BY <1>4, <2>1, SwitchTyped
  <2>3. ASSUME NEW e \in Entry
        PROVE  Goes(e) \in Worker /\ Goes(e).todo \subseteq w.todo
    BY <1>1 DEF Worker, Control
  <2>4. ASSUME NEW e \in Entry, Continue(j, r, o, e)
        PROVE  Becomes(j, r, Goes(e))
    BY <2>4 DEF Continue
  <2> HIDE DEF Goes
  <2>5. ASSUME NEW k \in {"switched", "skipped", "error"},
               NEW a \in {"moved", "dropped", "at target", "exists",
                          "list", "activate", "remove", "update"}
        PROVE  Reports(k, a, o) \in Entry
    BY <2>1 DEF Reports, Entry
  <2>6. CASE SkipAtTarget(j, r, o) \/ SkipExisting(j, r, o)
    <3>1. PICK e \in Entry : Continue(j, r, o, e) /\ UNCHANGED storeVars
      BY <2>5, <2>6 DEF SkipAtTarget, SkipExisting
    <3>2. QED BY <1>3, <2>3, <2>4, <3>1, LocalKeeps
  <2>7. CASE ActivateCounterpart(j, r, o)
    <3> DEFINE c == UpdateUpstream(j, r, new, new, TRUE)
    <3>1. PICK ok \in BOOLEAN :
            /\ Answers(c, ok)
            /\ Becomes(j, r, [w EXCEPT
                 !.pc = "activated", !.cur = {o},
                 !.log = IF ok THEN @
                         ELSE @ \cup {Reports("error", "activate", o)}])
      BY <2>7 DEF ActivateCounterpart
    <3> DEFINE v == [w EXCEPT
                 !.pc = "activated", !.cur = {o},
                 !.log = IF ok THEN @
                         ELSE @ \cup {Reports("error", "activate", o)}]
    <3>2. v \in Worker /\ v.todo = w.todo
      BY <1>1, <2>1, <2>5 DEF Worker, Control
    <3>3. c \in Call /\ c.by = j
      BY <2>2 DEF UpdateUpstream, Call
    <3>4. Ordered(c)
      BY <1>3, <2>2 DEF Ordered, UpdateUpstream
    <3> HIDE DEF v, c
    <3>5. Becomes(j, r, v)
      BY <3>1 DEF v
    <3>6. QED BY <1>3, <3>1, <3>2, <3>3, <3>4, <3>5, CallingKeeps
  <2>8. CASE RemoveOrigin(j, r, o)
    <3> DEFINE c == RemoveUpstream(j, r, o)
    <3>1. PICK ok \in BOOLEAN, e \in Entry :
            Answers(c, ok) /\ Continue(j, r, o, e)
      BY <2>5, <2>8 DEF RemoveOrigin
    <3>2. c \in Call /\ c.by = j
      BY <2>1 DEF RemoveUpstream, Call
    <3>3. Ordered(c)
      BY <1>3, <2>1 DEF Ordered, RemoveUpstream
    <3> HIDE DEF c
    <3>4. QED BY <1>3, <2>3, <2>4, <3>1, <3>2, <3>3, CallingKeeps
  <2>9. CASE MoveOrigin(j, r, o)
    <3> DEFINE c == UpdateUpstream(j, r, o, new, w.snap[o] = "active")
    <3>1. PICK ok \in BOOLEAN, e \in Entry :
            Answers(c, ok) /\ Continue(j, r, o, e)
      BY <2>5, <2>9 DEF MoveOrigin
    <3>2. c \in Call /\ c.by = j
      BY <2>1, <2>2 DEF UpdateUpstream, Call
    <3>3. Ordered(c)
      BY <1>3, <2>1, <2>2 DEF Ordered, UpdateUpstream
    <3> HIDE DEF c
    <3>4. QED BY <1>3, <2>3, <2>4, <3>1, <3>2, <3>3, CallingKeeps
  <2>10. QED BY <1>7, <2>6, <2>7, <2>8, <2>9 DEF LoopStep
<1>8. QED BY <1>5, <1>6, <1>7 DEF WorkerStep

(* A call that was given up arrives: it still does what was asked for.     *)
LEMMA ArriveLateKeeps ==
  ASSUME IInv, ArriveLate, UNCHANGED <<phase, req, worker>>
  PROVE  /\ IInv'
         /\ \A r \in Rule : rules'[r] # rules[r] =>
              \E j \in Job : AsAsked(j, r)
<1> USE DEF IInv
<1>1. PICK c \in late : /\ late' = late \ {c}
                        /\ Apply(c) \/ rules' = rules
                        /\ UNCHANGED <<endpoints, edits>>
  BY DEF ArriveLate
<1>2. c \in Call /\ c.by \in Job /\ Ordered(c)
  BY DEF TypeOK, Call, LateOrdered
<1>3. rules' \in [Rule -> Upstreams]
  <2>1. c.rule \in Rule /\ rules[c.rule] \in Upstreams
    BY <1>2 DEF TypeOK, Call
  <2>2. QED BY <1>1, <1>2, <2>1, AppliedTyped DEF Apply, TypeOK
<1>4. TypeOK'
  BY <1>1, <1>3 DEF TypeOK
<1>5. HandlersAccepted' /\ WorkersAsked'
  BY DEF HandlersAccepted, WorkersAsked, Asked, PointsAt
<1>6. LateOrdered'
  BY <1>1 DEF LateOrdered, Ordered, Asked, PointsAt
<1>7. \A r \in Rule : rules'[r] # rules[r] => AsAsked(c.by, r)
  BY <1>1, <1>2, AppliedAsAsked
<1>8. QED BY <1>2, <1>4, <1>5, <1>6, <1>7

(* What others do is counted, and touches no worker and no call.           *)
LEMMA OthersKeep ==
  ASSUME IInv, OthersAct, UNCHANGED <<phase, req, worker>>
  PROVE  IInv' /\ edits' # edits
<1> USE DEF IInv
<1>1. edits < MaxEdits /\ edits' = edits + 1 /\ late' = late
  BY DEF OthersAct, AdminSetsOrigin, AdminDeletesRule, ApplyUpstream, Edit
<1>2. edits' \in 0..MaxEdits /\ edits' # edits
  BY <1>1, StoreAssumption DEF TypeOK
<1>3. PICK r \in Rule, u \in Upstreams :
        /\ endpoints' \subseteq endpoints
        /\ rules' = [rules EXCEPT ![r] = u]
  <2>1. CASE AdminSetsOrigin \/ ApplyUpstream
    <3>1. PICK r \in endpoints, o \in Origin, x \in Status :
            rules' = [rules EXCEPT ![r][o] = x] /\ endpoints' = endpoints
      BY <2>1 DEF AdminSetsOrigin, ApplyUpstream, AddUpstream, Status
    <3>2. [rules[r] EXCEPT ![o] = x] \in Upstreams /\ r \in Rule
      BY DEF TypeOK, Upstreams
    <3>3. rules' = [rules EXCEPT ![r] = [rules[r] EXCEPT ![o] = x]]
      BY <3>1, <3>2 DEF TypeOK
    <3>4. QED BY <3>1, <3>2, <3>3
  <2>2. CASE AdminDeletesRule
    BY <2>2, NoUpstreamsTyped DEF AdminDeletesRule, TypeOK
  <2>3. QED BY <2>1, <2>2 DEF OthersAct
<1>4. TypeOK'
  BY <1>1, <1>2, <1>3 DEF TypeOK
<1>5. HandlersAccepted' /\ WorkersAsked' /\ LateOrdered'
  BY <1>1 DEF HandlersAccepted, WorkersAsked, LateOrdered, Ordered, Asked,
              PointsAt
<1>6. QED BY <1>2, <1>4, <1>5

LEMMA StepKeeps ==
  ASSUME IInv, [Next]_vars
  PROVE  /\ IInv'
         /\ \A r \in Rule : rules'[r] # rules[r] /\ edits' = edits =>
              \E j \in Job : AsAsked(j, r)
<1>1. ASSUME NEW j \in Job, HandlerStep(j)
      PROVE  IInv' /\ rules' = rules
  BY <1>1, HandlerKeeps
     DEF HandlerStep, Receive, ListEndpointsFails, StartWorkers, Reply,
         storeVars
<1>2. ASSUME NEW j \in Job, NEW r \in Rule, WorkerStep(j, r)
      PROVE  IInv' /\ \A s \in Rule : rules'[s] # rules[s] => AsAsked(j, s)
  BY <1>2, WorkerStepKeeps
<1>3. CASE StoreStep
  BY <1>3, ArriveLateKeeps, OthersKeep DEF StoreStep
<1>4. CASE UNCHANGED vars
  BY <1>4 DEF vars, IInv, TypeOK, HandlersAccepted, WorkersAsked, LateOrdered,
              Ordered, Asked, PointsAt
<1>5. QED BY <1>1, <1>2, <1>3, <1>4 DEF Next, Finished

-----------------------------------------------------------------------------
(* The theorems.                                                           *)

(* Every state is well-typed, and all work in it was asked for.            *)
THEOREM Invariance == Spec => []IInv
<1>1. IInv /\ [Next]_vars => IInv'
  BY StepKeeps
<1>2. QED BY InitIInv, <1>1, PTL DEF Spec

(* executeUpstreamSwitch never leaves the values its types allow: a        *)
(* rewritten origin is an origin, a worker's results are result lines.     *)
THEOREM TypeCorrect == Spec => []TypeOK
<1>1. IInv => TypeOK
  BY DEF IInv
<1>2. QED BY Invariance, <1>1, PTL

(* Only the selected rules are touched, and only as their request says,    *)
(* with any number of requests, workers, faults and late calls.            *)
THEOREM SelectedRulesOnly == Spec => OnlySelectedRulesMove
<1>1. IInv /\ [Next]_vars =>
        [\A r \in Rule : rules'[r] # rules[r] /\ edits' = edits =>
           \E j \in Job : AsAsked(j, r)]_vars
  BY StepKeeps
<1>2. QED BY Invariance, <1>1, PTL DEF Spec, OnlySelectedRulesMove
=============================================================================
