----------------------------- MODULE HostRegistry -----------------------------
(***************************************************************************)
(* What the host configuration promises: a map from host ids to hosts and  *)
(* a polling interval, of which a durable copy is kept.  The copy may lag  *)
(* behind and may become unreadable, but what a restart brings back is     *)
(* always a state the map has had, never a mixture.                        *)
(***************************************************************************)
CONSTANTS Id, Data, Seconds

VARIABLES
  up,           \* the plugin is running
  current,      \* the map and the interval while it is
  durable       \* what a restart will find: one state, {} if unreadable

Maps == UNION {[S -> Data] : S \in SUBSET Id}

States == [hosts : Maps, polling : Seconds]

Init ==
  /\ up = FALSE
  /\ current \in States
  /\ durable \in {{}} \cup {{s} : s \in States}

Put(id, d) ==
  current' = [current EXCEPT !.hosts =
                [i \in DOMAIN current.hosts \cup {id} |->
                   IF i = id THEN d ELSE current.hosts[i]]]

Drop(id) ==
  current' = [current EXCEPT !.hosts =
                [i \in DOMAIN current.hosts \ {id} |-> current.hosts[i]]]

SetPolling(n) == current' = [current EXCEPT !.polling = n]

Change ==
  /\ up
  /\ \/ \E id \in Id, d \in Data : Put(id, d)
     \/ \E id \in Id : Drop(id)
     \/ \E n \in Seconds : SetPolling(n)
  /\ UNCHANGED <<up, durable>>

Persist == up /\ durable' = {current} /\ UNCHANGED <<up, current>>

Tear == up /\ durable' = {} /\ UNCHANGED <<up, current>>

Stop == up /\ up' = FALSE /\ UNCHANGED <<current, durable>>

Restart ==
  /\ ~up
  /\ up' = TRUE
  /\ current' \in durable
  /\ UNCHANGED durable

Next == Change \/ Persist \/ Tear \/ Stop \/ Restart

Spec == Init /\ [][Next]_<<up, current, durable>>
=============================================================================
