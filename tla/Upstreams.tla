------------------------------ MODULE Upstreams ------------------------------
(***************************************************************************)
(* The data of a bulk host switch: the upstream origins of a proxy rule,   *)
(* when two origin texts are the same to the program, and how an origin is *)
(* rewritten from one host to another (switch.go, switchOriginHost).       *)
(*                                                                         *)
(* An origin is written scheme://host:port/path.  The host as written is   *)
(* kept apart from everything else, the "rest", which a switch never       *)
(* changes.  Neither is put together from characters here: what the code   *)
(* does with the text is given by the functions Fold, Bare and Bracketed.  *)
(***************************************************************************)
CONSTANTS
  HostText,     \* hosts as written: names, addresses, bracketed IPv6 literals
  Rest,         \* scheme, port and path of an origin
  Ported,       \* the members of Rest that carry a port
  Fold,         \* letter case folded: strings.ToLower, strings.EqualFold
  Bare,         \* a host without the brackets of an IPv6 literal
  Bracketed     \* a host with the brackets an IPv6 literal needs before a port

ASSUME TextAssumption ==
  /\ "" \notin HostText
  /\ Ported \subseteq Rest
  /\ Fold \in [HostText \cup Rest -> HostText \cup Rest]
  /\ Bare \in [HostText -> HostText]
  /\ Bracketed \in [HostText -> HostText]
  /\ \A h \in HostText : Bare[Bracketed[h]] = Bare[h]
  /\ \A x \in HostText \cup Rest : Fold[Fold[x]] = Fold[x]
  /\ \A x, y \in Rest : Fold[x] = Fold[y] => (x \in Ported <=> y \in Ported)
  /\ \A g, h \in HostText : Fold[g] = Fold[h] =>
       Fold[Bare[g]] = Fold[Bare[h]] /\ Fold[Bracketed[g]] = Fold[Bracketed[h]]

Origin == [host : HostText, rest : Rest]

(* What the listing of a rule says of an origin text: not there, listed    *)
(* under InactiveOrigins, listed under ActiveOrigins.                      *)
Status == {"absent", "inactive", "active"}

Upstreams == [Origin -> Status]

(* Mutant: FALSE is not sent as the store expects it.                      *)
StatusOfUnset(active) == IF active THEN "active" ELSE "unset"

StatusOf(active) == IF active THEN "active" ELSE "inactive"

NoUpstreams == [o \in Origin |-> "absent"]

Present(u) == {o \in Origin : u[o] # "absent"}

ActiveIn(u) == {o \in Origin : u[o] = "active"}

-----------------------------------------------------------------------------

(* The text origins are compared by: the whole origin, lower-cased.        *)
Key(o) == [host |-> Fold[o.host], rest |-> Fold[o.rest]]

(* The origin points at the host: splitHostPort drops the brackets of the  *)
(* origin's host, not those of h.                                          *)
PointsAt(o, h) == Fold[Bare[o.host]] = Fold[h]

(* The origin rewritten to the host, which gets brackets before a port.    *)
SwitchOriginHost(o, to) ==
  [o EXCEPT !.host = IF o.rest \in Ported THEN Bracketed[to] ELSE to]

AtTarget(o, to) == Key(o) = Key(SwitchOriginHost(o, to))

(* Mutant: the listing is not lower-cased.                                 *)
ExistingExact(u, k) == \E o \in Present(u) : o = k

(* existing[newKey] and existingActive[newKey] of a listing.  The listing  *)
(* puts inactive origins last and the last one with a key wins, so a key   *)
(* counts as active only when all its origins are.                         *)
Existing(u, k) == \E o \in Present(u) : Key(o) = k

ExistingActive(u, k) == \A o \in Present(u) : Key(o) = k => u[o] = "active"

Occupied(u, o, to) == Existing(u, Key(SwitchOriginHost(o, to)))

CounterpartActive(u, o, to) == ExistingActive(u, Key(SwitchOriginHost(o, to)))

-----------------------------------------------------------------------------

(* What a rule serves: the ports and paths (up to letter case) some active *)
(* origin of it offers, whatever the host.                                 *)
Served(u) == {Fold[o.rest] : o \in ActiveIn(u)}

(* No two origins of the rule differ in letter case only.                  *)
Folded(u) == \A o, p \in Present(u) : Key(o) = Key(p) => o = p
=============================================================================
