------------------------------ MODULE MCHostPage ------------------------------
(***************************************************************************)
(* A small instance of HostPage: one host is configured.                   *)
(***************************************************************************)
EXTENDS HostPage, TLC

MCInitialHosts == {h :> "d1" : h \in Id}

(* Ids are drawn and compared, never ordered, and so are calls.            *)
Exchangeable == Permutations(Slot) \cup Permutations(Id)
=============================================================================
