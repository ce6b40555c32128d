----------------------------- MODULE BulkSwitch ------------------------------
(***************************************************************************)
(* The bulk host switch: handleBulkSwitch (handlers.go) and                *)
(* executeUpstreamSwitch (switch.go).  A request lists the proxy rules and *)
(* starts one worker per selected rule; at most MaxParallel of them hold   *)
(* the semaphore.  A worker lists its rule's origins once, decides from    *)
(* that listing, and makes one Zoraxy call at a time.  Several requests,   *)
(* an administrator and calls that were given up act in between.           *)
(***************************************************************************)
EXTENDS ZoraxyRules, FiniteSets

CONSTANTS
  Requests,         \* what a request may ask for: [from, to, selected]
  MaxParallel,      \* the capacity of the semaphore, 8 in the code
  InitialUpstreams  \* what a rule's upstreams may be at the start

ASSUME SwitchAssumption ==
  /\ Requests \subseteq [from : HostText \cup {""}, to : HostText \cup {""},
                         selected : SUBSET Rule]
  /\ MaxParallel \in Nat \ {0}
  /\ InitialUpstreams \subseteq Upstreams

VARIABLES
  phase,    \* of each request: where its handler is
  req,      \* what each request asks for
  worker    \* the goroutine of each request for each rule

vars == <<phase, req, worker, rules, endpoints, late, edits>>

Phase == {"received", "listing", "waiting", "replied", "rejected", "failed"}

(* "none": not started; "queued": at the semaphore; "running": holds it;   *)
(* "looping": has its listing; "activated": between the two calls of a     *)
(* drop; "done": has appended its results and left.                        *)
Control == {"none", "queued", "running", "looping", "activated", "done"}

(* A line of the result list; "at" is empty when it is about no origin.    *)
Entry == [kind : {"switched", "skipped", "error"},
          what : {"moved", "dropped", "at target", "exists",
                  "list", "activate", "remove", "update"},
          at : SUBSET Origin]

Worker == [pc : Control, snap : Upstreams, todo : SUBSET Origin,
           cur : SUBSET Origin, log : SUBSET Entry]

NewWorker == [pc |-> "none", snap |-> NoUpstreams, todo |-> {}, cur |-> {},
              log |-> {}]

Reports(kind, what, o) == [kind |-> kind, what |-> what, at |-> {o}]

TypeOK ==
  /\ phase \in [Job -> Phase]
  /\ req \in [Job -> Requests]
  /\ worker \in [Job -> [Rule -> Worker]]
  /\ rules \in [Rule -> Upstreams]
  /\ endpoints \subseteq Rule
  /\ late \subseteq Call
  /\ edits \in 0..MaxEdits

Init ==
  /\ phase = [j \in Job |-> "received"]
  /\ req \in [Job -> Requests]
  /\ worker = [j \in Job |-> [r \in Rule |-> NewWorker]]
  /\ rules \in [Rule -> InitialUpstreams]
  /\ endpoints = Rule
  /\ late = {}
  /\ edits = 0

-----------------------------------------------------------------------------
(* The handler.                                                            *)

Acceptable(q) ==
  /\ q.from # ""
  /\ q.to # ""
  /\ Fold[q.from] # Fold[q.to]
  /\ q.selected # {}

Moves(j, to) == phase' = [phase EXCEPT ![j] = to]

Receive(j) ==
  /\ phase[j] = "received"
  /\ Moves(j, IF Acceptable(req[j]) THEN "listing" ELSE "rejected")
  /\ UNCHANGED <<req, worker, storeVars>>

ListEndpointsFails(j) ==
  /\ phase[j] = "listing"
  /\ "list" \in Faults
  /\ Moves(j, "failed")
  /\ UNCHANGED <<req, worker, storeVars>>

Queued(w) == [w EXCEPT !.pc = "queued"]

(* Mutant: the selection is ignored.                                       *)
StartAllWorkers(j) ==
  /\ phase[j] = "listing"
  /\ Moves(j, "waiting")
  /\ worker' = [worker EXCEPT ![j] =
                  [r \in Rule |-> IF r \in endpoints
                                  THEN Queued(worker[j][r])
                                  ELSE worker[j][r]]]
  /\ UNCHANGED <<req, storeVars>>

StartWorkers(j) ==
  /\ phase[j] = "listing"
  /\ Moves(j, "waiting")
  /\ worker' = [worker EXCEPT ![j] =
                  [r \in Rule |-> IF r \in req[j].selected \cap endpoints
                                  THEN Queued(worker[j][r])
                                  ELSE worker[j][r]]]
  /\ UNCHANGED <<req, storeVars>>

Reply(j) ==
  /\ phase[j] = "waiting"
  /\ \A r \in Rule : worker[j][r].pc \in {"none", "done"}
  /\ Moves(j, "replied")
  /\ UNCHANGED <<req, worker, storeVars>>

HandlerStep(j) ==
  Receive(j) \/ ListEndpointsFails(j) \/ StartWorkers(j) \/ Reply(j)

-----------------------------------------------------------------------------
(* The worker of request j for rule r.                                     *)

Becomes(j, r, w) ==
  /\ worker' = [worker EXCEPT ![j][r] = w]
  /\ UNCHANGED <<phase, req>>

(* Mutant: the semaphore is not released.                                  *)
HoldersForGood(j) == {r \in Rule : worker[j][r].pc \notin {"none", "queued"}}

Holders(j) ==
  {r \in Rule : worker[j][r].pc \in {"running", "looping", "activated"}}

Acquire(j, r) ==
  /\ worker[j][r].pc = "queued"
  /\ Cardinality(Holders(j)) < MaxParallel
  /\ Becomes(j, r, [worker[j][r] EXCEPT !.pc = "running"])
  /\ UNCHANGED storeVars

(* Mutant: origins of other hosts are not passed over.                     *)
ListsUnmatched(j, r, u, log) ==
  Becomes(j, r, [worker[j][r] EXCEPT !.pc = "looping", !.snap = u,
                                     !.todo = Present(u), !.log = log])

(* Origins that do not point at the source host are passed over.           *)
Lists(j, r, u, log) ==
  Becomes(j, r, [worker[j][r] EXCEPT
                   !.pc = "looping",
                   !.snap = u,
                   !.todo = {o \in Present(u) : PointsAt(o, req[j].from)},
                   !.log = log])

ListUpstreams(j, r) ==
  /\ worker[j][r].pc = "running"
  /\ r \in endpoints
  /\ Lists(j, r, rules[r], {})
  /\ UNCHANGED storeVars

(* An {"error": ...} body with status 200 parses as an empty listing.      *)
ListAnsweredWithErrorBody(j, r) ==
  /\ worker[j][r].pc = "running"
  /\ r \notin endpoints
  /\ Lists(j, r, NoUpstreams, {})
  /\ UNCHANGED storeVars

ListUpstreamsFails(j, r) ==
  /\ worker[j][r].pc = "running"
  /\ "list" \in Faults
  /\ Lists(j, r, NoUpstreams,
           {[kind |-> "error", what |-> "list", at |-> {}]})
  /\ UNCHANGED storeVars

(* o is the next origin of the loop: the listing has active origins first. *)
IsNext(w, o) ==
  /\ w.pc = "looping"
  /\ o \in w.todo
  /\ w.snap[o] = "inactive" => w.todo \cap ActiveIn(w.snap) = {}

(* The loop goes on with the next origin.                                  *)
Continue(j, r, o, entry) ==
  Becomes(j, r, [worker[j][r] EXCEPT !.pc = "looping", !.todo = @ \ {o},
                                     !.cur = {}, !.log = @ \cup {entry}])

SkipAtTarget(j, r, o) ==
  /\ IsNext(worker[j][r], o)
  /\ AtTarget(o, req[j].to)
  /\ Continue(j, r, o, Reports("skipped", "at target", o))
  /\ UNCHANGED storeVars

(* Mutant: the skipped origin is not reported.                             *)
SkipSilently(j, r, o) ==
  /\ IsNext(worker[j][r], o)
  /\ ~AtTarget(o, req[j].to)
  /\ Occupied(worker[j][r].snap, o, req[j].to)
  /\ worker[j][r].snap[o] = "inactive"
  /\ Becomes(j, r, [worker[j][r] EXCEPT !.todo = @ \ {o}])
  /\ UNCHANGED storeVars

SkipExisting(j, r, o) ==
  /\ IsNext(worker[j][r], o)
  /\ ~AtTarget(o, req[j].to)
  /\ Occupied(worker[j][r].snap, o, req[j].to)
  /\ worker[j][r].snap[o] = "inactive"
  /\ Continue(j, r, o, Reports("skipped", "exists", o))
  /\ UNCHANGED storeVars

(* The rule already has the target: o is to be dropped.                    *)
ToDrop(w, o, to) ==
  /\ IsNext(w, o)
  /\ ~AtTarget(o, to)
  /\ Occupied(w.snap, o, to)
  /\ w.snap[o] = "active"

(* Mutant: a failed activation is not even noted.                          *)
ActivateUnchecked(j, r, o) ==
  LET w == worker[j][r]
      new == SwitchOriginHost(o, req[j].to)
  IN  /\ ToDrop(w, o, req[j].to)
      /\ ~CounterpartActive(w.snap, o, req[j].to)
      /\ \E ok \in BOOLEAN :
           /\ Answers(UpdateUpstream(j, r, new, new, TRUE), ok)
           /\ Becomes(j, r, [w EXCEPT !.pc = "activated", !.cur = {o}])

(* First the target is made active; a failure is only noted.               *)
ActivateCounterpart(j, r, o) ==
  LET w == worker[j][r]
      new == SwitchOriginHost(o, req[j].to)
  IN  /\ ToDrop(w, o, req[j].to)
      /\ ~CounterpartActive(w.snap, o, req[j].to)
      /\ \E ok \in BOOLEAN :
           /\ Answers(UpdateUpstream(j, r, new, new, TRUE), ok)
           /\ Becomes(j, r, [w EXCEPT
                !.pc = "activated", !.cur = {o},
                !.log = IF ok THEN @
                        ELSE @ \cup {Reports("error", "activate", o)}])

(* Mutant: an inactive target is not made active first.                    *)
MayRemoveAnyway(w, o, to) == ToDrop(w, o, to)

MayRemove(w, o, to) ==
  \/ ToDrop(w, o, to) /\ CounterpartActive(w.snap, o, to)
  \/ w.pc = "activated" /\ o \in w.cur

(* Mutant: the target is removed instead of the source.                    *)
RemoveTarget(j, r, o) ==
  /\ MayRemove(worker[j][r], o, req[j].to)
  /\ \E ok \in BOOLEAN :
       /\ Answers(RemoveUpstream(j, r, SwitchOriginHost(o, req[j].to)), ok)
       /\ Continue(j, r, o, IF ok THEN Reports("switched", "dropped", o)
                                  ELSE Reports("error", "remove", o))

RemoveOrigin(j, r, o) ==
  /\ MayRemove(worker[j][r], o, req[j].to)
  /\ \E ok \in BOOLEAN :
       /\ Answers(RemoveUpstream(j, r, o), ok)
       /\ Continue(j, r, o, IF ok THEN Reports("switched", "dropped", o)
                                  ELSE Reports("error", "remove", o))

(* Mutant: the error of the update is not looked at.                       *)
MoveUnchecked(j, r, o) ==
  LET w == worker[j][r]
      new == SwitchOriginHost(o, req[j].to)
  IN  /\ IsNext(w, o)
      /\ ~AtTarget(o, req[j].to)
      /\ ~Occupied(w.snap, o, req[j].to)
      /\ \E ok \in BOOLEAN :
           /\ Answers(UpdateUpstream(j, r, o, new, w.snap[o] = "active"), ok)
           /\ Continue(j, r, o, Reports("switched", "moved", o))

MoveOrigin(j, r, o) ==
  LET w == worker[j][r]
      new == SwitchOriginHost(o, req[j].to)
  IN  /\ IsNext(w, o)
      /\ ~AtTarget(o, req[j].to)
      /\ ~Occupied(w.snap, o, req[j].to)
      /\ \E ok \in BOOLEAN :
           /\ Answers(UpdateUpstream(j, r, o, new, w.snap[o] = "active"), ok)
           /\ Continue(j, r, o, IF ok THEN Reports("switched", "moved", o)
                                      ELSE Reports("error", "update", o))

(* The results are appended under the mutex, the semaphore is released.    *)
Publish(j, r) ==
  /\ worker[j][r].pc = "looping"
  /\ worker[j][r].todo = {}
  /\ Becomes(j, r, [worker[j][r] EXCEPT !.pc = "done"])
  /\ UNCHANGED storeVars

LoopStep(j, r, o) ==
  \/ SkipAtTarget(j, r, o) \/ SkipExisting(j, r, o)
  \/ ActivateCounterpart(j, r, o) \/ RemoveOrigin(j, r, o)
  \/ MoveOrigin(j, r, o)

WorkerStep(j, r) ==
  \/ Acquire(j, r)
  \/ ListUpstreams(j, r) \/ ListAnsweredWithErrorBody(j, r)
  \/ ListUpstreamsFails(j, r)
  \/ \E o \in worker[j][r].todo : LoopStep(j, r, o)
  \/ Publish(j, r)

-----------------------------------------------------------------------------

(* Zoraxy and its other users act on their own.                            *)
StoreStep == (ArriveLate \/ OthersAct) /\ UNCHANGED <<phase, req, worker>>

Answered(j) == phase[j] \in {"replied", "rejected", "failed"}

(* Nothing is left to happen.                                              *)
Finished == (\A j \in Job : Answered(j)) /\ late = {} /\ UNCHANGED vars

Next ==
  \/ \E j \in Job : HandlerStep(j) \/ \E r \in Rule : WorkerStep(j, r)
  \/ StoreStep
  \/ Finished

Spec == Init /\ [][Next]_vars

(* Every goroutine that can go on does so: each Zoraxy call ends, at the   *)
(* latest by the client's timeout.  Nothing is assumed of the others: a    *)
(* call that was given up may never arrive.                                *)
Fairness ==
  \A j \in Job : /\ WF_vars(HandlerStep(j))
                 /\ \A r \in Rule : WF_vars(WorkerStep(j, r))

FairSpec == Spec /\ Fairness

-----------------------------------------------------------------------------
(* Properties.                                                             *)

Asked(j, r) == phase[j] \in {"waiting", "replied"} /\ r \in req[j].selected

(* What changes in the rule is what request j asks for: what disappears    *)
(* pointed at its source host, what appears or changes its status is       *)
(* written for its target host.                                            *)
AsAsked(j, r) ==
  /\ Asked(j, r)
  /\ \A o \in Origin : rules'[r][o] # rules[r][o] =>
       IF rules'[r][o] = "absent"
       THEN PointsAt(o, req[j].from)
       ELSE Bare[o.host] = Bare[req[j].to]

(* A rule changes by nobody's edit only as some request asks for that      *)
(* selected the rule and is or was being executed.  This is README.md's    *)
(* "only the selected rules are touched", for workers of several requests  *)
(* and for calls that arrive after they were given up.                     *)
OnlySelectedRulesMove ==
  [][\A r \in Rule : rules'[r] # rules[r] /\ edits' = edits =>
       \E j \in Job : AsAsked(j, r)]_vars

Done(j, r) == worker[j][r].pc = "done"

Lines(j, r, kinds, o) ==
  {e \in worker[j][r].log : e.kind \in kinds /\ o \in e.at}

(* The result list of a worker accounts for every origin of its listing    *)
(* that points at the source host, and for no other.                       *)
EveryMatchedOriginReported ==
  \A j \in Job, r \in Rule : Done(j, r) =>
    \A o \in Origin :
      (o \in Present(worker[j][r].snap) /\ PointsAt(o, req[j].from))
        <=> Lines(j, r, {"switched", "skipped", "error"}, o) # {}

(* With no other request and no edits, the result list tells the truth:    *)
(* an origin reported as switched is gone and its target is there; an      *)
(* origin that changed is reported, or is the target of one that is.       *)
(* Calls that were given up and arrive late do not falsify it.             *)
ReportIsTrue ==
  \A j \in Job, r \in Rule : Done(j, r) =>
    LET w == worker[j][r]
        To(o) == SwitchOriginHost(o, req[j].to)
    IN  /\ \A o \in Present(w.snap) :
             Lines(j, r, {"switched"}, o) # {} =>
               /\ o \notin Present(rules[r])
               /\ Existing(rules[r], Key(To(o)))
        /\ \A o \in Origin : rules[r][o] # w.snap[o] =>
             \/ Lines(j, r, {"switched", "error"}, o) # {}
             \/ \E p \in Present(w.snap) :
                  To(p) = o /\ Lines(j, r, {"switched", "error"}, p) # {}
             \/ \E e \in w.log : e.what = "list"

(* Without edits, no switch leaves two origins in a rule that differ in    *)
(* letter case only, although Zoraxy itself tells them apart: "existing"   *)
(* is by folded text.                                                      *)
NoFoldedDuplicates == edits = 0 => \A r \in Rule : Folded(rules[r])

(* No request works against another one, and nobody edits the rules.       *)
Undisturbed ==
  /\ edits = 0
  /\ \A i, j \in Job : req[i].from = req[j].from /\ req[i].to = req[j].to

CleanReply(j, r) ==
  /\ phase[j] = "replied"
  /\ Done(j, r)
  /\ \A e \in worker[j][r].log : e.kind # "error"

(* A rule reported without an error has failed over, whatever was given up *)
(* or retried meanwhile: every origin that was active on the source host   *)
(* is gone and an active origin with the text it was to get is there.      *)
CleanReplyMeansFailedOver ==
  Undisturbed => \A j \in Job, r \in Rule : CleanReply(j, r) =>
    \A o \in ActiveIn(worker[j][r].snap) :
      PointsAt(o, req[j].from) /\ ~AtTarget(o, req[j].to) =>
        /\ rules[r][o] # "active"
        /\ \E p \in ActiveIn(rules[r]) :
             Key(p) = Key(SwitchOriginHost(o, req[j].to))

(* Undisturbed, the one way a switch can take a served port away is the    *)
(* removal of an origin after the activation of its target has failed, and *)
(* that failure is in the result list.                                     *)
ServedLostOnlyAfterFailedActivation ==
  [][Undisturbed' => \A r \in Rule : \A x \in Served(rules[r]) \ Served(rules'[r]) :
       \E j \in Job : \E e \in worker[j][r].log :
         e.what = "activate" /\ \E o \in e.at : Fold[o.rest] = x]_vars

(* A reported drop is one whose target is active: README.md's "dropped     *)
(* instead of renamed, keeping the target active".                         *)
DropKeepsTargetActive ==
  [][\A j \in Job, r \in Rule, o \in Origin :
       Reports("switched", "dropped", o)
           \in worker'[j][r].log \ worker[j][r].log =>
         \E p \in ActiveIn(rules'[r]) :
           Key(p) = Key(SwitchOriginHost(o, req[j].to))]_vars

(* Fault-free, with nobody else at work, requests in one direction do no   *)
(* more than the failover a rule is promised: see Failover.tla.            *)
Promise == INSTANCE Failover

KeepsThePromise == Promise!Spec

(* Every request is answered, however many workers queue at the semaphore  *)
(* and whatever fails.                                                     *)
EveryRequestAnswered == \A j \in Job : <>Answered(j)
=============================================================================
