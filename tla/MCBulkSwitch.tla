---------------------------- MODULE MCBulkSwitch -----------------------------
(***************************************************************************)
(* Small instances of BulkSwitch.  Hosts are names in two letter cases and *)
(* an IPv6 literal with and without brackets; a rest is a port or a port   *)
(* with a path.                                                            *)
(***************************************************************************)
EXTENDS BulkSwitch

LowerCase(x) == CASE x = "A" -> "a" [] x = "B" -> "b" [] OTHER -> x

MCFold == [x \in HostText \cup Rest |-> LowerCase(x)]

MCBare == [h \in HostText |-> IF h = "[v6]" THEN "v6" ELSE h]

MCBracketed == [h \in HostText |-> IF h = "v6" THEN "[v6]" ELSE h]

Ask(from, to, selected) == [from |-> from, to |-> to, selected |-> selected]

-----------------------------------------------------------------------------
(* Which requests are made.                                                *)

(* From a name to an IPv6 literal, back to the name, which the rule may    *)
(* have in capitals, and to the literal's own bracketed form; and requests *)
(* the handler refuses.                                                    *)
FailoverRequests ==
  {Ask("b", "v6", Rule), Ask("v6", "b", {"r1"}), Ask("v6", "[v6]", {"r1"}),
   Ask("b", "B", Rule), Ask("v6", "b", {}), Ask("", "b", Rule)}

(* The same request, sent twice.                                           *)
SameRequest == {Ask("a", "b", Rule)}

(* Two administrators with the hosts the other way round.                  *)
OpposingRequests == {Ask("a", "b", Rule), Ask("b", "a", Rule)}

-----------------------------------------------------------------------------
(* What the rules hold at the start.                                       *)

(* Anything, but no two origins that differ in letter case only.           *)
FoldedUpstreams == {u \in Upstreams : Folded(u)}
=============================================================================
