---------------------------- MODULE MCHostConfig -----------------------------
(***************************************************************************)
(* A small instance of HostConfig.                                         *)
(***************************************************************************)
EXTENDS HostConfig

(* An interval the code replaces by 10, and one it keeps.                  *)
NegativeOrHalfMinute == {-1, 30}

(* No file, or one written by an earlier version without an interval.      *)
MissingOrOld ==
  {[st |-> "missing", cfg |-> Empty],
   [st |-> "whole", cfg |-> [hosts |-> <<[id |-> "h1", data |-> "tcp"]>>,
                             polling |-> 0]]}
=============================================================================
