--------------------------- MODULE MCSwitchSession ---------------------------
(***************************************************************************)
(* Small instances of SwitchSession.                                       *)
(***************************************************************************)
EXTENDS SwitchSession, TLC

(* Requests of one kind can be exchanged for each other.                   *)
Exchangeable == Permutations(Slot) \cup Permutations(Job)

(* One name is written in two letter cases, none is an IPv6 literal.       *)
MCFold == [x \in HostText \cup Rest |-> IF x = "A" THEN "a" ELSE x]

MCSame == [h \in HostText |-> h]

FoldedUpstreams == {u \in Upstreams : Folded(u)}

(* Whatever the page can send.                                             *)
AnyRequest == [from : HostText \cup {""}, to : HostText \cup {""},
               selected : SUBSET Rule]

(* A rule with one origin of the host "a", however written.                *)
UpstreamsOnA ==
  {u \in FoldedUpstreams : \E o \in Present(u) : PointsAt(o, "a")}

=============================================================================
