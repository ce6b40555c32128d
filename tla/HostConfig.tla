------------------------------ MODULE HostConfig ------------------------------
(***************************************************************************)
(* The host configuration: configStore (config.go) and the handlers that   *)
(* change it (handlers.go).  A change is made in memory under the write    *)
(* lock, then the whole configuration is written over config.json, which   *)
(* is truncated first.  The save may fail before or after the truncation,  *)
(* and the plugin may be stopped or crash between any two steps.           *)
(*                                                                         *)
(* A reader holds the read lock for one copy and changes nothing: readers  *)
(* are not actors here.  A request that is refused before the store is     *)
(* reached (no id, no endpoint, an endpoint of an unknown scheme) changes  *)
(* nothing either and is left out; Data holds what passes.                 *)
(***************************************************************************)
EXTENDS Integers, Sequences, SequencesExt

CONSTANTS
  Client,       \* requests that change the configuration
  Id,           \* host ids: those in the file, those newHostID may draw
  Data,         \* the other fields of a host
  Asked,        \* polling intervals asked for, zero and less among them
  InitialFiles, \* what config.json may be at the first start
  Nobody        \* the lock is free

Host == [id : Id, data : Data]

Config == [hosts : Seq(Host), polling : Nat]

(* "missing": never written; "torn": truncated and not written again.      *)
File == [st : {"missing", "whole", "torn"}, cfg : Config]

(* A host id names one entry.  newHostID draws ids that are new; only an   *)
(* edit of the file by hand could give two hosts the same one.             *)
Unambiguous(hosts) ==
  \A i, k \in DOMAIN hosts : hosts[i].id = hosts[k].id => i = k

ASSUME ConfigAssumption ==
  /\ Nobody \notin Client
  /\ Asked \subseteq Int
  /\ InitialFiles \subseteq File
  /\ \A f \in InitialFiles : Unambiguous(f.cfg.hosts)

VARIABLES
  up,       \* the plugin is running
  cfg,      \* the configuration in memory
  file,     \* config.json
  lock,     \* who holds the write lock
  pc,       \* where each request is
  asks,     \* the id a request asks to remove, {} for other requests
  answer,   \* the last answer of each client
  saved     \* outcome of the last save since the start: "none" if none

vars == <<up, cfg, file, lock, pc, asks, answer, saved>>

Empty == [hosts |-> <<>>, polling |-> 10]

TypeOK ==
  /\ up \in BOOLEAN
  /\ cfg \in Config
  /\ file \in File
  /\ lock \in Client \cup {Nobody}
  /\ pc \in [Client -> {"idle", "saving", "writing", "written"}]
  /\ asks \in [Client -> SUBSET Id]
  /\ answer \in [Client -> {"none", "ok", "error"}]
  /\ saved \in {"none", "ok", "error"}

Init ==
  /\ up = FALSE
  /\ cfg = Empty
  /\ file \in InitialFiles
  /\ lock = Nobody
  /\ pc = [c \in Client |-> "idle"]
  /\ asks = [c \in Client |-> {}]
  /\ answer = [c \in Client |-> "none"]
  /\ saved = "none"

-----------------------------------------------------------------------------
(* The changes.                                                            *)

PlacesOf(id) == {i \in DOMAIN cfg.hosts : cfg.hosts[i].id = id}

First(S) == CHOOSE i \in S : \A k \in S : i <= k

(* Mutant: a known host is not looked for.                                 *)
WithHostAppended(h) == Append(cfg.hosts, h)

(* upsertHost: the first entry with the id is replaced.                    *)
WithHost(h) ==
  IF PlacesOf(h.id) = {}
  THEN Append(cfg.hosts, h)
  ELSE ReplaceAt(cfg.hosts, First(PlacesOf(h.id)), h)

(* removeHost: the first entry with the id is taken out.                   *)
WithoutHost(id) == RemoveAt(cfg.hosts, First(PlacesOf(id)))

(* The change is in memory, the save is to come, all under the lock.       *)
Changes(c, new) ==
  /\ up
  /\ lock = Nobody
  /\ pc[c] = "idle"
  /\ cfg' = new
  /\ lock' = c
  /\ pc' = [pc EXCEPT ![c] = "saving"]
  /\ UNCHANGED <<up, file, answer, saved>>

UpsertHost(c, id, d) ==
  /\ Changes(c, [cfg EXCEPT !.hosts = WithHost([id |-> id, data |-> d])])
  /\ asks' = [asks EXCEPT ![c] = {}]

RemoveHost(c, id) ==
  /\ PlacesOf(id) # {}
  /\ Changes(c, [cfg EXCEPT !.hosts = WithoutHost(id)])
  /\ asks' = [asks EXCEPT ![c] = {id}]

(* An unknown host is removed without a save and without an error.         *)
RemoveUnknownHost(c, id) ==
  /\ up
  /\ lock = Nobody
  /\ pc[c] = "idle"
  /\ PlacesOf(id) = {}
  /\ asks' = [asks EXCEPT ![c] = {id}]
  /\ answer' = [answer EXCEPT ![c] = "ok"]
  /\ UNCHANGED <<up, cfg, file, lock, pc, saved>>

(* Mutant: the interval is kept as it was asked for.                       *)
SetPollingAsAsked(c, n) ==
  /\ Changes(c, [cfg EXCEPT !.polling = n])
  /\ asks' = [asks EXCEPT ![c] = {}]

SetPollingInterval(c, n) ==
  /\ Changes(c, [cfg EXCEPT !.polling = IF n <= 0 THEN 10 ELSE n])
  /\ asks' = [asks EXCEPT ![c] = {}]

-----------------------------------------------------------------------------
(* save: MkdirAll, then WriteFile, which truncates, writes and closes.     *)

(* The request is answered and the lock released.                          *)
Answers(c, a) ==
  /\ pc' = [pc EXCEPT ![c] = "idle"]
  /\ answer' = [answer EXCEPT ![c] = a]
  /\ saved' = a
  /\ lock' = Nobody

(* Mutant: an error leaves the lock held.                                  *)
FailLocked(c) ==
  /\ pc[c] # "idle"
  /\ pc' = [pc EXCEPT ![c] = "idle"]
  /\ answer' = [answer EXCEPT ![c] = "error"]
  /\ saved' = "error"
  /\ UNCHANGED <<up, cfg, file, lock, asks>>

(* Mutant: the error of the save is not returned.                          *)
FailUnnoticed(c) ==
  /\ pc[c] # "idle"
  /\ Answers(c, "ok")
  /\ UNCHANGED <<up, cfg, file, asks>>

(* The memory keeps the change, the file keeps what it has by now: as it   *)
(* was, truncated, or whole when only the close fails.                     *)
SaveFails(c) ==
  /\ pc[c] # "idle"
  /\ Answers(c, "error")
  /\ UNCHANGED <<up, cfg, file, asks>>

Truncates(c) ==
  /\ pc[c] = "saving"
  /\ pc' = [pc EXCEPT ![c] = "writing"]
  /\ file' = [file EXCEPT !.st = "torn"]
  /\ UNCHANGED <<up, cfg, lock, asks, answer, saved>>

Writes(c) ==
  /\ pc[c] = "writing"
  /\ pc' = [pc EXCEPT ![c] = "written"]
  /\ file' = [st |-> "whole", cfg |-> cfg]
  /\ UNCHANGED <<up, cfg, lock, asks, answer, saved>>

Acknowledges(c) ==
  /\ pc[c] = "written"
  /\ Answers(c, "ok")
  /\ UNCHANGED <<up, cfg, file, asks>>

SaveStep(c) == SaveFails(c) \/ Truncates(c) \/ Writes(c) \/ Acknowledges(c)

-----------------------------------------------------------------------------
(* The process.                                                            *)

(* It ends, by Zoraxy's hand or its own: requests go unanswered.           *)
Stop ==
  /\ up
  /\ up' = FALSE
  /\ lock' = Nobody
  /\ pc' = [c \in Client |-> "idle"]
  /\ answer' = [c \in Client |-> IF pc[c] = "idle" THEN answer[c] ELSE "none"]
  /\ saved' = "none"
  /\ UNCHANGED <<cfg, file, asks>>

(* Mutant: a file that does not parse is ignored.                          *)
StartAnyway ==
  /\ ~up
  /\ up' = TRUE
  /\ cfg' = IF file.st = "whole" THEN file.cfg ELSE Empty
  /\ saved' = "none"
  /\ UNCHANGED <<file, lock, pc, asks, answer>>

(* newConfigStore: a torn file does not parse and the plugin exits.        *)
Start ==
  /\ ~up
  /\ file.st # "torn"
  /\ up' = TRUE
  /\ cfg' = IF file.st = "missing" THEN Empty ELSE file.cfg
  /\ saved' = "none"
  /\ UNCHANGED <<file, lock, pc, asks, answer>>

(* Every start fails until somebody repairs the file.                      *)
Unstartable == ~up /\ file.st = "torn" /\ UNCHANGED vars

Next ==
  \/ \E c \in Client :
       \/ \E id \in Id, d \in Data : UpsertHost(c, id, d)
       \/ \E id \in Id : RemoveHost(c, id) \/ RemoveUnknownHost(c, id)
       \/ \E n \in Asked : SetPollingInterval(c, n)
       \/ SaveStep(c)
  \/ Stop
  \/ Start
  \/ Unstartable

(* The operating system answers every file operation.                      *)
Spec == Init /\ [][Next]_vars /\ \A c \in Client : WF_vars(SaveStep(c))

-----------------------------------------------------------------------------
(* Properties.                                                             *)

(* However adds, edits of hosts removed meanwhile, removals and restarts   *)
(* interleave, a host id names one entry.                                  *)
OneEntryPerHost == Unambiguous(cfg.hosts)

(* While no save is under way and the last one was acknowledged, a restart *)
(* would bring back exactly what is in memory.                             *)
AcknowledgedIsOnDisk ==
  up /\ lock = Nobody /\ saved # "error" =>
    IF file.st = "missing" THEN cfg = Empty
                           ELSE file = [st |-> "whole", cfg |-> cfg]

(* Whatever fails, the write lock is released: no later request, and no    *)
(* reader, waits for good.                                                 *)
LockIsReleased == lock # Nobody ~> lock = Nobody

(* README.md, "The plugin stores its config as config.json": a host whose  *)
(* removal was answered with ok, and that is not in memory, is not in the  *)
(* file either.                                                            *)
RemovalIsOnDisk ==
  \A c \in Client : \A id \in asks[c] :
    up /\ lock = Nobody /\ answer[c] = "ok" /\ PlacesOf(id) = {} =>
      \A i \in DOMAIN file.cfg.hosts : file.cfg.hosts[i].id # id

(* The list is a map with a durable copy: see HostRegistry.tla.            *)
MapOf(c) ==
  [hosts |-> [i \in {c.hosts[k].id : k \in DOMAIN c.hosts} |->
                c.hosts[CHOOSE k \in DOMAIN c.hosts : c.hosts[k].id = i].data],
   polling |-> c.polling]

Durable ==
  CASE file.st = "missing" -> {MapOf(Empty)}
    [] file.st = "whole" -> {MapOf(file.cfg)}
    [] file.st = "torn" -> {}

Registry == INSTANCE HostRegistry WITH
  Seconds <- Asked \cup {10} \cup {f.cfg.polling : f \in InitialFiles},
  current <- MapOf(cfg),
  durable <- Durable

ImplementsRegistry == Registry!Spec
=============================================================================
