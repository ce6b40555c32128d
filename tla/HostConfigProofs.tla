--------------------------- MODULE HostConfigProofs ---------------------------
(***************************************************************************)
(* Proofs about HostConfig, for any clients, ids, intervals and initial    *)
(* files: types, that an id names one entry however changes and restarts   *)
(* interleave, and that what was acknowledged is on disk.                  *)
(***************************************************************************)
EXTENDS HostConfig, SequenceTheorems, WellFoundedInduction, TLAPS

-----------------------------------------------------------------------------
(* The lists of hosts.                                                     *)

HostLists == {s \in Seq(Host) : Unambiguous(s)}

(* The first place of an id that has places is one of them.                *)
LEMMA FirstPlace ==
  ASSUME cfg.hosts \in Seq(Host), NEW id, PlacesOf(id) # {}
  PROVE  First(PlacesOf(id)) \in PlacesOf(id)
<1>1. PlacesOf(id) \subseteq Nat
  BY DEF PlacesOf
<1> DEFINE Less == {ss \in Nat \X Nat : ss[1] < ss[2]}
<1>2. IsWellFoundedOn(Less, Nat)
  BY NatLessThanWellFounded DEF OpToRel
<1> HIDE DEF Less
<1>3. PICK i \in PlacesOf(id) : \A k \in PlacesOf(id) : <<k, i>> \notin Less
  BY <1>1, <1>2, WFMin
<1>4. \A k \in PlacesOf(id) : i <= k
  <2> SUFFICES ASSUME NEW k \in PlacesOf(id), k < i PROVE FALSE
    BY <1>1
  <2>1. <<k, i>> \in Less
    BY <1>1 DEF Less
  <2> QED BY <1>3, <2>1
<1> QED
  BY <1>4 DEF First

(* A host added under a new id, or put in the place of its id.             *)
LEMMA WithHostKeeps ==
  ASSUME cfg.hosts \in HostLists, NEW h \in Host
  PROVE  WithHost(h) \in HostLists
<1> USE DEF HostLists
<1>1. CASE PlacesOf(h.id) = {}
  <2>1. \A i \in DOMAIN cfg.hosts : cfg.hosts[i].id # h.id
    BY <1>1 DEF PlacesOf
  <2>2. WithHost(h) = Append(cfg.hosts, h)
    BY <1>1 DEF WithHost
  <2>3. Append(cfg.hosts, h) \in Seq(Host)
    OBVIOUS
  <2>4. Unambiguous(Append(cfg.hosts, h))
    BY <2>1 DEF Unambiguous
  <2> QED BY <2>2, <2>3, <2>4
<1>2. CASE PlacesOf(h.id) # {}
  <2> DEFINE p == First(PlacesOf(h.id))
  <2>1. p \in DOMAIN cfg.hosts /\ cfg.hosts[p].id = h.id
    BY <1>2, FirstPlace DEF PlacesOf
  <2>2. WithHost(h) = [cfg.hosts EXCEPT ![p] = h]
    BY <1>2 DEF WithHost, ReplaceAt
  <2> HIDE DEF p
  <2>3. [cfg.hosts EXCEPT ![p] = h] \in Seq(Host)
    BY <2>1
  <2>4. Unambiguous([cfg.hosts EXCEPT ![p] = h])
    BY <2>1 DEF Unambiguous
  <2> QED BY <2>2, <2>3, <2>4
<1> QED BY <1>1, <1>2

(* A list with one entry taken out.                                        *)
LEMMA WithoutHostIs ==
  ASSUME cfg.hosts \in HostLists, NEW id, PlacesOf(id) # {}
  PROVE  /\ WithoutHost(id) \in HostLists
         /\ DOMAIN WithoutHost(id) = 1..(Len(cfg.hosts) - 1)
         /\ \A i \in 1..(Len(cfg.hosts) - 1) :
              WithoutHost(id)[i] =
                cfg.hosts[IF i < First(PlacesOf(id)) THEN i ELSE i + 1]
<1> DEFINE p == First(PlacesOf(id))
           s == cfg.hosts
           front == SubSeq(s, 1, p - 1)
           back == SubSeq(s, p + 1, Len(s))
<1>1. s \in Seq(Host) /\ Unambiguous(s)
  BY DEF HostLists
<1>2. p \in 1..Len(s)
  <2>1. p \in DOMAIN s
    BY <1>1, FirstPlace DEF PlacesOf
  <2> QED BY <1>1, <2>1
<1>3. WithoutHost(id) = front \o back
  BY DEF WithoutHost, RemoveAt
<1> HIDE DEF p, s
<1>4. /\ front \in Seq(Host) /\ Len(front) = p - 1
      /\ \A i \in 1..(p - 1) : front[i] = s[i]
  BY <1>1, <1>2
<1>5. /\ back \in Seq(Host) /\ Len(back) = Len(s) - p
      /\ \A i \in 1..(Len(s) - p) : back[i] = s[p + i]
  BY <1>1, <1>2
<1> HIDE DEF front, back
<1>6. /\ front \o back \in Seq(Host)
      /\ Len(front \o back) = Len(s) - 1
  <2>1. /\ front \o back \in Seq(Host)
        /\ Len(front \o back) = Len(front) + Len(back)
    BY <1>4, <1>5, ConcatProperties
  <2>2. Len(front) + Len(back) = Len(s) - 1
    BY <1>1, <1>2, <1>4, <1>5
  <2> QED BY <2>1, <2>2
<1>7. \A i \in 1..(Len(s) - 1) :
        (front \o back)[i] = s[IF i < p THEN i ELSE i + 1]
  <2> SUFFICES ASSUME NEW i \in 1..(Len(s) - 1)
               PROVE  (front \o back)[i] = s[IF i < p THEN i ELSE i + 1]
    OBVIOUS
  <2>1. (front \o back)[i] = IF i <= p - 1 THEN front[i] ELSE back[i - (p - 1)]
    BY <1>1, <1>2, <1>4, <1>5, <1>6, ConcatProperties
  <2>2. CASE i <= p - 1
    BY <1>2, <1>4, <2>1, <2>2
  <2>3. CASE ~(i <= p - 1)
    BY <1>1, <1>2, <1>5, <2>1, <2>3
  <2> QED BY <2>2, <2>3
<1>8. Unambiguous(front \o back)
  <2> DEFINE t == front \o back
             At(i) == IF i < p THEN i ELSE i + 1
  <2>1. DOMAIN t = 1..(Len(s) - 1)
    BY <1>6
  <2>2. ASSUME NEW i \in DOMAIN t, NEW k \in DOMAIN t, t[i].id = t[k].id
        PROVE  i = k
    <3>1. At(i) \in DOMAIN s /\ At(k) \in DOMAIN s
      BY <1>1, <1>2, <2>1
    <3>2. At(i) = At(k)
      BY <1>1, <1>7, <2>1, <2>2, <3>1 DEF Unambiguous
    <3> QED BY <1>2, <2>1, <3>2
  <2> QED BY <2>2 DEF Unambiguous
<1>9. DOMAIN (front \o back) = 1..(Len(s) - 1)
  BY <1>6
<1> HIDE DEF HostLists
<1>10. front \o back \in HostLists
  BY <1>6, <1>8 DEF HostLists
<1> QED
  BY <1>3, <1>7, <1>9, <1>10 DEF p, s

-----------------------------------------------------------------------------
(* The invariant.                                                          *)

(* Both lists name each host once: the one in the file comes back.         *)
ListsInv == cfg.hosts \in HostLists /\ file.cfg.hosts \in HostLists

(* The lock is held by the request whose save is under way, and only while *)
(* the plugin runs; a file that was just written holds what is in memory.  *)
SaveInv ==
  /\ \A c \in Client : pc[c] # "idle" <=> lock = c
  /\ ~up => lock = Nobody
  /\ \A c \in Client : pc[c] = "written" => file = [st |-> "whole", cfg |-> cfg]

ConfigInv == TypeOK /\ ListsInv /\ SaveInv /\ AcknowledgedIsOnDisk

LEMMA InitInv == Init => ConfigInv
<1> SUFFICES ASSUME Init PROVE ConfigInv
  OBVIOUS
<1> USE DEF Init
<1>1. Empty \in Config
  BY DEF Empty, Config
<1>2. TypeOK
  BY <1>1, ConfigAssumption DEF TypeOK
<1>3. ListsInv
  <2>1. Empty.hosts = <<>> /\ Empty.hosts \in Seq(Host)
    BY DEF Empty
  <2>2. Unambiguous(Empty.hosts)
    BY <2>1 DEF Unambiguous
  <2>3. file.cfg.hosts \in HostLists
    BY ConfigAssumption DEF HostLists, File, Config
  <2> QED BY <2>1, <2>2, <2>3 DEF ListsInv, HostLists
<1>4. SaveInv /\ AcknowledgedIsOnDisk
  BY ConfigAssumption DEF SaveInv, AcknowledgedIsOnDisk
<1> QED
  BY <1>2, <1>3, <1>4 DEF ConfigInv

(* A change in memory begins a save.                                       *)
LEMMA ChangesKeep ==
  ASSUME ConfigInv, NEW c \in Client, NEW new \in Config,
         new.hosts \in HostLists, Changes(c, new), asks' \in [Client -> SUBSET Id]
  PROVE  ConfigInv'
<1> USE DEF ConfigInv, Changes
<1>1. TypeOK'
  BY DEF TypeOK
<1>2. ListsInv'
  BY DEF ListsInv
<1>3. SaveInv'
  BY ConfigAssumption DEF SaveInv, TypeOK
<1>4. AcknowledgedIsOnDisk'
  BY ConfigAssumption DEF AcknowledgedIsOnDisk
<1> QED
  BY <1>1, <1>2, <1>3, <1>4

LEMMA RequestKeeps ==
  ASSUME ConfigInv, NEW c \in Client,
         \/ \E id \in Id, d \in Data : UpsertHost(c, id, d)
         \/ \E id \in Id : RemoveHost(c, id) \/ RemoveUnknownHost(c, id)
         \/ \E n \in Asked : SetPollingInterval(c, n)
  PROVE  ConfigInv'
<1> USE DEF ConfigInv
<1>0. cfg \in Config /\ cfg.hosts \in HostLists /\ asks \in [Client -> SUBSET Id]
  BY DEF TypeOK, ListsInv
<1>1. ASSUME NEW id \in Id, NEW d \in Data, UpsertHost(c, id, d)
      PROVE  ConfigInv'
  <2> DEFINE h == [id |-> id, data |-> d]
             new == [cfg EXCEPT !.hosts = WithHost(h)]
  <2>1. WithHost(h) \in HostLists
    BY <1>0, WithHostKeeps DEF Host
  <2>2. new \in Config /\ new.hosts \in HostLists
    BY <1>0, <2>1 DEF Config, HostLists
  <2>3. Changes(c, new) /\ asks' \in [Client -> SUBSET Id]
    BY <1>0, <1>1 DEF UpsertHost
  <2> HIDE DEF new
  <2> QED BY <2>2, <2>3, ChangesKeep
<1>2. ASSUME NEW id \in Id, RemoveHost(c, id)
      PROVE  ConfigInv'
  <2> DEFINE new == [cfg EXCEPT !.hosts = WithoutHost(id)]
  <2>1. WithoutHost(id) \in HostLists
    BY <1>0, <1>2, WithoutHostIs DEF RemoveHost
  <2>2. new \in Config /\ new.hosts \in HostLists
    BY <1>0, <2>1 DEF Config, HostLists
  <2>3. Changes(c, new) /\ asks' \in [Client -> SUBSET Id]
    BY <1>0, <1>2 DEF RemoveHost
  <2> HIDE DEF new
  <2> QED BY <2>2, <2>3, ChangesKeep
<1>3. ASSUME NEW id \in Id, RemoveUnknownHost(c, id)
      PROVE  ConfigInv'
  <2>1. TypeOK'
    BY <1>3 DEF RemoveUnknownHost, TypeOK
  <2>2. ListsInv' /\ SaveInv' /\ AcknowledgedIsOnDisk'
    BY <1>3 DEF RemoveUnknownHost, ListsInv, SaveInv, AcknowledgedIsOnDisk
  <2> QED BY <2>1, <2>2
<1>4. ASSUME NEW n \in Asked, SetPollingInterval(c, n)
      PROVE  ConfigInv'
  <2> DEFINE new == [cfg EXCEPT !.polling = IF n <= 0 THEN 10 ELSE n]
  <2>1. new \in Config /\ new.hosts \in HostLists
    BY <1>0, ConfigAssumption DEF Config
  <2>2. Changes(c, new) /\ asks' \in [Client -> SUBSET Id]
    BY <1>0, <1>4 DEF SetPollingInterval
  <2> HIDE DEF new
  <2> QED BY <2>1, <2>2, ChangesKeep
<1> QED
  BY <1>1, <1>2, <1>3, <1>4

(* The steps of a save; a failed one is remembered.                        *)
LEMMA SaveKeeps ==
  ASSUME ConfigInv, NEW c \in Client, SaveStep(c)
  PROVE  ConfigInv'
<1> USE DEF ConfigInv
<1>1. TypeOK'
  BY DEF TypeOK, SaveStep, SaveFails, Truncates, Writes, Acknowledges, Answers, File
<1>2. ListsInv'
  BY DEF ListsInv, TypeOK, File, SaveStep, SaveFails, Truncates, Writes,
         Acknowledges, Answers
<1>3. SaveInv'
  BY ConfigAssumption
     DEF SaveInv, TypeOK, SaveStep, SaveFails, Truncates, Writes, Acknowledges, Answers
<1>4. AcknowledgedIsOnDisk'
  <2>1. CASE SaveFails(c)
    BY <2>1 DEF AcknowledgedIsOnDisk, SaveFails, Answers
  <2>2. CASE Truncates(c) \/ Writes(c)
    <3>1. lock' # Nobody
      BY <2>2, ConfigAssumption DEF SaveInv, Truncates, Writes
    <3> QED BY <3>1 DEF AcknowledgedIsOnDisk
  <2>3. CASE Acknowledges(c)
    BY <2>3 DEF AcknowledgedIsOnDisk, SaveInv, Acknowledges, Answers
  <2> QED BY <2>1, <2>2, <2>3 DEF SaveStep
<1> QED
  BY <1>1, <1>2, <1>3, <1>4

LEMMA ProcessKeeps ==
  ASSUME ConfigInv, Stop \/ Start PROVE ConfigInv'
<1> USE DEF ConfigInv
<1>0. Empty \in Config /\ Empty.hosts \in HostLists
  BY DEF Empty, Config, HostLists, Unambiguous
<1>1. CASE Stop
  <2>1. TypeOK'
    BY <1>1 DEF Stop, TypeOK
  <2>2. ListsInv' /\ AcknowledgedIsOnDisk'
    BY <1>1 DEF Stop, ListsInv, AcknowledgedIsOnDisk
  <2>3. SaveInv'
    BY <1>1, ConfigAssumption DEF Stop, SaveInv
  <2> QED BY <2>1, <2>2, <2>3
<1>2. CASE Start
  <2>1. file.cfg \in Config /\ file.st \in {"missing", "whole", "torn"}
    BY DEF TypeOK, File
  <2>2. TypeOK' /\ ListsInv'
    BY <1>0, <1>2, <2>1 DEF Start, TypeOK, ListsInv
  <2>3. SaveInv'
    BY <1>2, ConfigAssumption DEF Start, SaveInv
  <2>4. AcknowledgedIsOnDisk'
    BY <1>2, <2>1 DEF Start, AcknowledgedIsOnDisk, TypeOK, File
  <2> QED BY <2>2, <2>3, <2>4
<1> QED
  BY <1>1, <1>2

LEMMA NextInv == ConfigInv /\ [Next]_vars => ConfigInv'
<1> SUFFICES ASSUME ConfigInv, [Next]_vars PROVE ConfigInv'
  OBVIOUS
<1>1. CASE UNCHANGED vars \/ Unstartable
  BY <1>1 DEF Unstartable, vars, ConfigInv, TypeOK, ListsInv, SaveInv,
              AcknowledgedIsOnDisk
<1>2. CASE \E c \in Client : SaveStep(c)
  BY <1>2, SaveKeeps
<1>3. CASE Stop \/ Start
  BY <1>3, ProcessKeeps
<1> QED
  BY <1>1, <1>2, <1>3, RequestKeeps DEF Next

(* The invariant holds in every state.                                     *)
THEOREM Invariance == Spec => []ConfigInv
<1> QED
  BY InitInv, NextInv, PTL DEF Spec

(* Types: memory, file, lock and requests keep their types.                *)
THEOREM TypesKept == Spec => []TypeOK
<1>1. ConfigInv => TypeOK
  BY DEF ConfigInv
<1> QED
  BY <1>1, Invariance, PTL

(* However adds, edits, removals, failed saves and restarts interleave, a  *)
(* host id names one entry of the list (upsertHost, removeHost).           *)
THEOREM HostsNamedOnce == Spec => []OneEntryPerHost
<1>1. ConfigInv => OneEntryPerHost
  BY DEF ConfigInv, ListsInv, HostLists, OneEntryPerHost
<1> QED
  BY <1>1, Invariance, PTL

(* Between saves, and unless the last one failed, config.json is what is   *)
(* in memory: what was acknowledged survives a restart.                    *)
THEOREM AcknowledgedSurvives == Spec => []AcknowledgedIsOnDisk
<1>1. ConfigInv => AcknowledgedIsOnDisk
  BY DEF ConfigInv
<1> QED
  BY <1>1, Invariance, PTL

-----------------------------------------------------------------------------
(* HostConfig implements HostRegistry: the list is a map with a durable    *)
(* copy.                                                                   *)

IdsOf(s) == {s[k].id : k \in DOMAIN s}

(* In a list that names each host once, the map finds each entry.          *)
LEMMA MapFinds ==
  ASSUME NEW c \in Config, c.hosts \in HostLists
  PROVE  /\ DOMAIN MapOf(c).hosts = IdsOf(c.hosts)
         /\ \A k \in DOMAIN c.hosts : MapOf(c).hosts[c.hosts[k].id] = c.hosts[k].data
         /\ MapOf(c).hosts \in Registry!Maps
         /\ MapOf(c).polling = c.polling
<1> DEFINE m == MapOf(c).hosts
           s == c.hosts
<1>1. /\ m = [i \in IdsOf(s) |-> s[CHOOSE k \in DOMAIN s : s[k].id = i].data]
      /\ MapOf(c).polling = c.polling
  BY DEF MapOf, IdsOf
<1>2. s \in Seq(Host) /\ Unambiguous(s)
  BY DEF HostLists
<1> HIDE DEF m, s
<1>3. ASSUME NEW k \in DOMAIN s PROVE m[s[k].id] = s[k].data
  <2>1. (CHOOSE j \in DOMAIN s : s[j].id = s[k].id) = k
    BY <1>2 DEF Unambiguous
  <2>2. s[k].id \in IdsOf(s)
    BY DEF IdsOf
  <2> QED BY <1>1, <2>1, <2>2
<1>4. m \in [IdsOf(s) -> Data] /\ IdsOf(s) \in SUBSET Id
  <2>1. \A k \in DOMAIN s : s[k] \in Host
    BY <1>2
  <2>2. IdsOf(s) \in SUBSET Id
    BY <2>1 DEF IdsOf, Host
  <2>3. \A i \in IdsOf(s) : m[i] \in Data
    BY <1>3, <2>1 DEF IdsOf, Host
  <2> QED BY <1>1, <2>2, <2>3
<1>5. m \in Registry!Maps
  BY <1>4 DEF Registry!Maps
<1>6. DOMAIN m = IdsOf(s)
  BY <1>1
<1> QED
  BY <1>1, <1>3, <1>5, <1>6 DEF m, s

(* Two maps of lists are equal if they find the same.                      *)
LEMMA MapIs ==
  ASSUME NEW c \in Config, c.hosts \in HostLists, NEW f,
         f = [i \in IdsOf(c.hosts) |-> f[i]],
         \A k \in DOMAIN c.hosts : f[c.hosts[k].id] = c.hosts[k].data
  PROVE  MapOf(c).hosts = f
<1>1. MapOf(c).hosts = [i \in IdsOf(c.hosts) |-> MapOf(c).hosts[i]]
  BY DEF MapOf, IdsOf
<1>2. \A i \in IdsOf(c.hosts) : MapOf(c).hosts[i] = f[i]
  BY MapFinds DEF IdsOf
<1> QED
  BY <1>1, <1>2

(* What a changed list finds is what the abstract change gives.            *)
LEMMA WithHostPuts ==
  ASSUME cfg \in Config, cfg.hosts \in HostLists, NEW id \in Id, NEW d \in Data,
         cfg' = [cfg EXCEPT !.hosts = WithHost([id |-> id, data |-> d])]
  PROVE  Registry!Put(id, d)
<1> DEFINE s == cfg.hosts
           h == [id |-> id, data |-> d]
           t == WithHost(h)
           old == MapOf(cfg).hosts
           f == [i \in DOMAIN old \cup {id} |-> IF i = id THEN d ELSE old[i]]
<1>1. cfg' \in Config /\ cfg'.hosts = t /\ t \in HostLists /\ cfg'.polling = cfg.polling
  BY WithHostKeeps DEF Config, HostLists, Host
<1>2. s \in Seq(Host) /\ Unambiguous(s)
  BY DEF HostLists
<1>3. /\ IdsOf(t) = IdsOf(s) \cup {id}
      /\ \A k \in DOMAIN t : t[k] = h \/ \E j \in DOMAIN s : t[k] = s[j] /\ s[j].id # id
  <2>1. CASE PlacesOf(id) = {}
    <3>1. t = Append(s, h)
      BY <2>1 DEF WithHost
    <3>2. \A j \in DOMAIN s : s[j].id # id
      BY <2>1 DEF PlacesOf
    <3>3. /\ DOMAIN t = DOMAIN s \cup {Len(s) + 1} /\ t[Len(s) + 1] = h
          /\ \A k \in DOMAIN s : t[k] = s[k]
      <4>1. h \in Host
        BY DEF Host
      <4> HIDE DEF t, s, h
      <4> QED BY <1>2, <3>1, <4>1, AppendProperties
    <3> HIDE DEF t, s
    <3> QED BY <3>2, <3>3 DEF IdsOf
  <2>2. CASE PlacesOf(id) # {}
    <3> DEFINE p == First(PlacesOf(id))
    <3>1. p \in DOMAIN s /\ s[p].id = id
      BY <1>2, <2>2, FirstPlace DEF PlacesOf
    <3>2. t = [s EXCEPT ![p] = h]
      BY <2>2 DEF WithHost, ReplaceAt
    <3>3. \A j \in DOMAIN s : j # p => s[j].id # id
      BY <1>2, <3>1 DEF Unambiguous
    <3> HIDE DEF t, s, p
    <3>4. /\ DOMAIN t = DOMAIN s /\ t[p] = h
          /\ \A k \in DOMAIN s : k # p => t[k] = s[k]
      BY <3>1, <3>2
    <3> QED BY <3>1, <3>3, <3>4 DEF IdsOf
  <2> QED BY <2>1, <2>2
<1>4. DOMAIN old = IdsOf(s) /\ \A j \in DOMAIN s : old[s[j].id] = s[j].data
  BY MapFinds
<1> HIDE DEF t, s, old
<1>5. MapOf(cfg)'.hosts = f
  <2>1. \A k \in DOMAIN t : f[t[k].id] = t[k].data
    <3> SUFFICES ASSUME NEW k \in DOMAIN t PROVE f[t[k].id] = t[k].data
      OBVIOUS
    <3>1. t[k].id \in DOMAIN old \cup {id}
      BY <1>3, <1>4 DEF IdsOf
    <3>2. CASE t[k] = h
      BY <3>1, <3>2
    <3>3. CASE \E j \in DOMAIN s : t[k] = s[j] /\ s[j].id # id
      BY <1>4, <3>1, <3>3
    <3> QED BY <1>3, <3>2, <3>3
  <2>2. f = [i \in IdsOf(t) |-> f[i]]
    BY <1>3, <1>4
  <2> HIDE DEF f
  <2>3. /\ \A k \in DOMAIN cfg'.hosts : f[cfg'.hosts[k].id] = cfg'.hosts[k].data
        /\ f = [i \in IdsOf(cfg'.hosts) |-> f[i]]
        /\ cfg'.hosts \in HostLists
    BY <1>1, <2>1, <2>2
  <2>4. \A c \in Config :
          (/\ c.hosts \in HostLists
           /\ f = [i \in IdsOf(c.hosts) |-> f[i]]
           /\ \A k \in DOMAIN c.hosts : f[c.hosts[k].id] = c.hosts[k].data)
            => MapOf(c).hosts = f
    BY MapIs
  <2>5. MapOf(cfg').hosts = f
    BY <1>1, <2>3, <2>4
  <2> QED BY <2>5 DEF MapOf
<1>6. MapOf(cfg) = [hosts |-> old, polling |-> cfg.polling]
  BY DEF MapOf, old
<1>7. MapOf(cfg)' = [hosts |-> f, polling |-> cfg.polling]
  BY <1>1, <1>5 DEF MapOf
<1> QED
  BY <1>6, <1>7 DEF Registry!Put

LEMMA WithoutHostDrops ==
  ASSUME cfg \in Config, cfg.hosts \in HostLists, NEW id \in Id, PlacesOf(id) # {},
         cfg' = [cfg EXCEPT !.hosts = WithoutHost(id)]
  PROVE  Registry!Drop(id)
<1> DEFINE s == cfg.hosts
           t == WithoutHost(id)
           p == First(PlacesOf(id))
           old == MapOf(cfg).hosts
           f == [i \in DOMAIN old \ {id} |-> old[i]]
<1>1. cfg' \in Config /\ cfg'.hosts = t /\ t \in HostLists /\ cfg'.polling = cfg.polling
  BY WithoutHostIs DEF Config, HostLists
<1>2. s \in Seq(Host) /\ Unambiguous(s)
  BY DEF HostLists
<1>3. p \in DOMAIN s /\ s[p].id = id
  BY <1>2, FirstPlace DEF PlacesOf
<1>4. \A j \in DOMAIN s : j # p => s[j].id # id
  BY <1>2, <1>3 DEF Unambiguous
<1>5. /\ DOMAIN t = 1..(Len(s) - 1)
      /\ \A i \in 1..(Len(s) - 1) : t[i] = s[IF i < p THEN i ELSE i + 1]
  BY WithoutHostIs
<1>6. DOMAIN old = IdsOf(s) /\ \A j \in DOMAIN s : old[s[j].id] = s[j].data
  BY MapFinds
<1> HIDE DEF t, s, old, p
<1>7. \A k \in DOMAIN t : \E j \in DOMAIN s : j # p /\ t[k] = s[j]
  <2> SUFFICES ASSUME NEW k \in DOMAIN t PROVE \E j \in DOMAIN s : j # p /\ t[k] = s[j]
    OBVIOUS
  <2> DEFINE j == IF k < p THEN k ELSE k + 1
  <2>1. j \in DOMAIN s /\ j # p /\ t[k] = s[j]
    BY <1>2, <1>3, <1>5
  <2> QED BY <2>1
<1>8. \A j \in DOMAIN s : j # p => \E k \in DOMAIN t : t[k] = s[j]
  <2> SUFFICES ASSUME NEW j \in DOMAIN s, j # p PROVE \E k \in DOMAIN t : t[k] = s[j]
    OBVIOUS
  <2> DEFINE k == IF j < p THEN j ELSE j - 1
  <2>1. k \in DOMAIN t /\ t[k] = s[j]
    BY <1>2, <1>3, <1>5
  <2> QED BY <2>1
<1>9. IdsOf(t) = IdsOf(s) \ {id}
  BY <1>3, <1>4, <1>7, <1>8 DEF IdsOf
<1>10. MapOf(cfg)'.hosts = f
  <2>1. \A k \in DOMAIN t : f[t[k].id] = t[k].data
    <3> SUFFICES ASSUME NEW k \in DOMAIN t PROVE f[t[k].id] = t[k].data
      OBVIOUS
    <3>1. t[k].id \in DOMAIN old \ {id}
      BY <1>6, <1>9 DEF IdsOf
    <3> QED BY <1>6, <1>7, <3>1
  <2>2. f = [i \in IdsOf(t) |-> f[i]]
    BY <1>6, <1>9
  <2> HIDE DEF f
  <2>3. /\ \A k \in DOMAIN cfg'.hosts : f[cfg'.hosts[k].id] = cfg'.hosts[k].data
        /\ f = [i \in IdsOf(cfg'.hosts) |-> f[i]]
        /\ cfg'.hosts \in HostLists
    BY <1>1, <2>1, <2>2
  <2>4. \A c \in Config :
          (/\ c.hosts \in HostLists
           /\ f = [i \in IdsOf(c.hosts) |-> f[i]]
           /\ \A k \in DOMAIN c.hosts : f[c.hosts[k].id] = c.hosts[k].data)
            => MapOf(c).hosts = f
    BY MapIs
  <2>5. MapOf(cfg').hosts = f
    BY <1>1, <2>3, <2>4
  <2> QED BY <2>5 DEF MapOf
<1>11. MapOf(cfg) = [hosts |-> old, polling |-> cfg.polling]
  BY DEF MapOf, old
<1>12. MapOf(cfg)' = [hosts |-> f, polling |-> cfg.polling]
  BY <1>1, <1>10 DEF MapOf
<1> QED
  BY <1>11, <1>12 DEF Registry!Drop

(* What the file holds, by its state.                                      *)
LEMMA DurableIs ==
  /\ file.st = "missing" => Durable = {MapOf(Empty)}
  /\ file.st = "whole" => Durable = {MapOf(file.cfg)}
  /\ file.st = "torn" => Durable = {}
  BY DEF Durable

LEMMA MapTyped ==
  ASSUME NEW c \in Config, c.hosts \in HostLists,
         c.polling \in Asked \cup {10} \cup {f.cfg.polling : f \in InitialFiles}
  PROVE  MapOf(c) \in Registry!States
<1>1. MapOf(c).hosts \in Registry!Maps /\ MapOf(c).polling = c.polling
  BY MapFinds
<1>2. MapOf(c) = [hosts |-> MapOf(c).hosts, polling |-> MapOf(c).polling]
  BY DEF MapOf
<1> QED
  BY <1>1, <1>2 DEF Registry!States

LEMMA RegistryInit == Init => Registry!Init
<1> SUFFICES ASSUME Init PROVE Registry!Init
  OBVIOUS
<1>1. ConfigInv
  BY InitInv
<1>2. Empty \in Config /\ Empty.hosts \in HostLists /\ Empty.polling = 10
  BY DEF Empty, Config, HostLists, Unambiguous
<1>3. MapOf(Empty) \in Registry!States
  BY <1>2, MapTyped
<1>4. /\ file.cfg \in Config /\ file.cfg.hosts \in HostLists
      /\ file.st \in {"missing", "whole", "torn"}
  BY <1>1 DEF ConfigInv, TypeOK, File, ListsInv
<1>5. file.cfg.polling \in {f.cfg.polling : f \in InitialFiles}
  BY DEF Init
<1>6. MapOf(file.cfg) \in Registry!States
  BY <1>4, <1>5, MapTyped
<1>7. Durable \in {{}} \cup {{s} : s \in Registry!States}
  BY <1>3, <1>4, <1>6, DurableIs
<1> QED
  BY <1>3, <1>7 DEF Init, Registry!Init

(* The interval is no part of the map.                                     *)
LEMMA SameMap ==
  ASSUME NEW c, NEW d, c.hosts = d.hosts
  PROVE  MapOf(c).hosts = MapOf(d).hosts
<1> DEFINE M(s) == [i \in {s[k].id : k \in DOMAIN s} |->
                      s[CHOOSE k \in DOMAIN s : s[k].id = i].data]
<1>1. MapOf(c).hosts = M(c.hosts) /\ MapOf(d).hosts = M(d.hosts)
  BY DEF MapOf
<1>2. M(c.hosts) = M(d.hosts)
  <2> HIDE DEF M
  <2> QED OBVIOUS
<1> QED
  BY <1>1, <1>2

(* A change of the list is a change of the map, at once.                   *)
LEMMA RequestChanges ==
  ASSUME ConfigInv, NEW c \in Client,
         \/ \E id \in Id, d \in Data : UpsertHost(c, id, d)
         \/ \E id \in Id : RemoveHost(c, id)
         \/ \E n \in Asked : SetPollingInterval(c, n)
  PROVE  Registry!Change
<1>1. cfg \in Config /\ cfg.hosts \in HostLists
  BY DEF ConfigInv, TypeOK, ListsInv
<1>2. up /\ up' = up /\ file' = file
  BY DEF UpsertHost, RemoveHost, SetPollingInterval, Changes
<1>3. Durable' = Durable
  BY <1>2 DEF Durable
<1>4. ASSUME NEW id \in Id, NEW d \in Data, UpsertHost(c, id, d)
      PROVE  Registry!Put(id, d)
  BY <1>1, <1>4, WithHostPuts DEF UpsertHost, Changes
<1>5. ASSUME NEW id \in Id, RemoveHost(c, id)
      PROVE  Registry!Drop(id)
  BY <1>1, <1>5, WithoutHostDrops DEF RemoveHost, Changes
<1>6. ASSUME NEW n \in Asked, SetPollingInterval(c, n)
      PROVE  \E k \in Asked \cup {10} : Registry!SetPolling(k)
  <2> DEFINE k == IF n <= 0 THEN 10 ELSE n
  <2>1. cfg' = [cfg EXCEPT !.polling = k] /\ k \in Asked \cup {10}
    BY <1>6 DEF SetPollingInterval, Changes
  <2> HIDE DEF k
  <2>2. cfg'.hosts = cfg.hosts /\ cfg'.polling = k
    BY <1>1, <2>1 DEF Config
  <2>3. MapOf(cfg').hosts = MapOf(cfg).hosts
    BY <2>2, SameMap
  <2>4. MapOf(cfg)' = [MapOf(cfg) EXCEPT !.polling = k]
    <3> DEFINE m == MapOf(cfg).hosts
    <3>1. MapOf(cfg) = [hosts |-> m, polling |-> cfg.polling]
      BY DEF MapOf
    <3>2. MapOf(cfg)' = [hosts |-> m, polling |-> k]
      BY <2>2, <2>3 DEF MapOf
    <3> QED BY <3>1, <3>2
  <2> QED BY <2>1, <2>4 DEF Registry!SetPolling
<1> QED
  BY <1>2, <1>3, <1>4, <1>5, <1>6 DEF Registry!Change

(* A save tears the durable copy and makes it anew.                        *)
LEMMA SavePersists ==
  ASSUME ConfigInv, NEW c \in Client, SaveStep(c)
  PROVE  \/ Registry!Persist \/ Registry!Tear
         \/ UNCHANGED <<up, MapOf(cfg), Durable>>
<1>1. cfg' = cfg /\ up' = up /\ MapOf(cfg)' = MapOf(cfg)
  BY DEF SaveStep, SaveFails, Truncates, Writes, Acknowledges
<1>2. pc[c] # "idle" => up
  BY ConfigAssumption DEF ConfigInv, SaveInv
<1>3. CASE Truncates(c)
  <2>1. file'.st = "torn"
    BY <1>3 DEF Truncates, ConfigInv, TypeOK, File
  <2>2. Durable' = {}
    BY <2>1 DEF Durable
  <2> QED BY <1>1, <1>2, <1>3, <2>2 DEF Truncates, Registry!Tear
<1>4. CASE Writes(c)
  <2>1. file'.st = "whole" /\ file'.cfg = cfg
    BY <1>4 DEF Writes
  <2>2. Durable' = {MapOf(cfg)}
    BY <1>1, <2>1 DEF Durable
  <2> QED BY <1>1, <1>2, <1>4, <2>2 DEF Writes, Registry!Persist
<1>5. CASE SaveFails(c) \/ Acknowledges(c)
  <2>1. Durable' = Durable
    BY <1>5 DEF SaveFails, Acknowledges, Durable
  <2> QED BY <1>1, <2>1
<1> QED
  BY <1>3, <1>4, <1>5 DEF SaveStep

LEMMA ProcessRestarts ==
  ASSUME ConfigInv, Stop \/ Start
  PROVE  Registry!Stop \/ Registry!Restart
<1>1. Durable' = Durable
  BY DEF Stop, Start, Durable
<1>2. CASE Stop
  <2>1. MapOf(cfg)' = MapOf(cfg)
    BY <1>2 DEF Stop
  <2> QED BY <1>1, <1>2, <2>1 DEF Stop, Registry!Stop
<1>3. CASE Start
  <2>1. file.st \in {"missing", "whole"}
    BY <1>3 DEF Start, ConfigInv, TypeOK, File
  <2>2. cfg' = IF file.st = "missing" THEN Empty ELSE file.cfg
    BY <1>3 DEF Start
  <2>3. MapOf(cfg)' = MapOf(IF file.st = "missing" THEN Empty ELSE file.cfg)
    BY <2>2
  <2>4. MapOf(cfg)' \in Durable
    BY <2>1, <2>3, DurableIs
  <2> QED BY <1>1, <1>3, <2>4 DEF Start, Registry!Restart
<1> QED
  BY <1>2, <1>3

LEMMA RegistryStep ==
  ASSUME ConfigInv, [Next]_vars
  PROVE  [Registry!Next]_<<up, MapOf(cfg), Durable>>
<1>1. CASE \/ UNCHANGED vars \/ Unstartable
           \/ \E c \in Client, id \in Id : RemoveUnknownHost(c, id)
  <2>1. up' = up /\ cfg' = cfg /\ file' = file
    BY <1>1 DEF vars, Unstartable, RemoveUnknownHost
  <2>2. MapOf(cfg)' = MapOf(cfg) /\ Durable' = Durable
    BY <2>1 DEF Durable
  <2> QED BY <2>1, <2>2
<1>2. CASE \E c \in Client : SaveStep(c)
  BY <1>2, SavePersists DEF Registry!Next
<1>3. CASE Stop \/ Start
  BY <1>3, ProcessRestarts DEF Registry!Next
<1>4. ASSUME NEW c \in Client,
             \/ \E id \in Id, d \in Data : UpsertHost(c, id, d)
             \/ \E id \in Id : RemoveHost(c, id)
             \/ \E n \in Asked : SetPollingInterval(c, n)
      PROVE  Registry!Change
  BY <1>4, RequestChanges
<1> QED
  BY <1>1, <1>2, <1>3, <1>4 DEF Next, Registry!Next

(* Every behaviour of the store is one of the registry: a map whose        *)
(* durable copy is a state the map has had, or unreadable.                 *)
THEOREM StoreImplementsRegistry == Spec => ImplementsRegistry
<1>1. Init => Registry!Init
  BY RegistryInit
<1>2. ConfigInv /\ [Next]_vars => [Registry!Next]_<<up, MapOf(cfg), Durable>>
  BY RegistryStep
<1> QED
  BY <1>1, <1>2, Invariance, PTL DEF Spec, ImplementsRegistry, Registry!Spec
=============================================================================
