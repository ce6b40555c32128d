------------------------------ MODULE OriginLife ------------------------------
(***************************************************************************)
(* One upstream origin of a proxy rule, as text, over its life: it is      *)
(* written by an administrator or added as a candidate of a scan, labelled *)
(* in the preview of a switch, and switched from host to host, any number  *)
(* of times.                                                               *)
(*                                                                         *)
(* Next to the text that the code reads and writes, "meant" keeps the      *)
(* origin as a record that only Upstreams!SwitchOriginHost changes: what   *)
(* the modules of the bulk switch take an origin to be.                    *)
(***************************************************************************)
EXTENDS OriginText, PortOwners, FiniteSets

CONSTANTS
  HostId,
  Hosts,        \* the configured hosts: [name, endpoint, suggest]
  WrittenHosts, \* hosts as administrators write them in origins
  Schemes, Ports, Paths,    \* the other parts, <<>> among them
  Services, Containers      \* the ports that the hosts publish

Text == Seq(Token)

ASSUME LifeAssumption ==
  /\ \A h \in HostId : /\ Hosts[h] \in [name : Text, endpoint : Text, suggest : Text]
                       /\ Hosts[h].endpoint # <<>>
  /\ WrittenHosts \cup Schemes \cup Ports \cup Paths \subseteq Text
  /\ <<>> \notin WrittenHosts /\ <<>> \in Schemes \cap Ports \cap Paths
  /\ Services \in [HostId -> SUBSET ServicePort]
  /\ Containers \in [HostId -> SUBSET ContainerPort]

VARIABLES
  origin,   \* the text, <<>> while the rule has no origin
  meant,    \* what it is taken to be, {} when that is not known
  putOn,    \* the host the plugin wrote it for last, {} if an administrator
  label     \* the owner the last preview showed, {} if none

vars == <<origin, meant, putOn, label>>

Name(h) == NameOf(Hosts[h])

AddressFor(h) == SuggestedAddress(Hosts[h])

(* Every spelling of a host an origin can get.                             *)
Spellings ==
  (UNION {{Name(h), AddressFor(h)} : h \in HostId}) \cup WrittenHosts

HostTexts == (Spellings \cup {Literal(x) : x \in Spellings}) \ {<<>>}

Meaning == [scheme : Schemes, host : HostTexts, port : Ports, path : Paths]

WithPort(m) == IF m.port = <<>> THEN <<>> ELSE <<":">> \o m.port

TextOf(m) == m.scheme \o m.host \o WithPort(m) \o m.path

(* A text the code can read in one way only: the host is no URL, an IPv6   *)
(* literal has brackets, and :// is nowhere but behind the scheme.         *)
Readable(m) ==
  /\ ~Contains(m.host, "/")
  /\ Contains(m.host, ":") => IsPrefix(<<"[">>, m.host)
  /\ m.scheme = <<>> => Place(<<":", "/", "/">>, m.path) = 0

(* The origin as Upstreams has it; the rest with a mark for the host.      *)
RestOf(m) == m.scheme \o <<"host">> \o WithPort(m) \o m.path

Abstract(m) == [host |-> m.host, rest |-> RestOf(m)]

Unbracketed(x) == IF IsPrefix(<<"[">>, x) THEN SubSeq(x, 2, Len(x) - 1) ELSE x

(* A host is a name or an address, in brackets or not.                     *)
WellSpelled(x) ==
  /\ Unbracketed(x) # <<>>
  /\ ~Contains(Unbracketed(x), "[") /\ ~Contains(Unbracketed(x), "]")
  /\ IsPrefix(<<"[">>, x) => x[Len(x)] = "]"

SchemesEnd ==
  \A s \in Schemes : s = <<>> \/ \E w \in Word : s = <<w, ":", "/", "/">>

IsNumber(p) ==
  \E w \in DOMAIN Number :
    p = <<w>> /\ Lower[w] = w /\ Number[w] \in PortNumber

PortsAreNumbers == \A p \in Ports : p = <<>> \/ IsNumber(p)

PathsBegin == \A p \in Paths : p = <<>> \/ p[1] = "/"

(* Origins and hosts are written the way the code expects them; of a host  *)
(* that is a whole URL nothing is asked.  The proofs assume it, no action  *)
(* does.                                                                   *)
WellWritten ==
  /\ SchemesEnd /\ PortsAreNumbers /\ PathsBegin
  /\ \A x \in HostTexts : ~Contains(x, "/") => WellSpelled(x)

U == INSTANCE Upstreams WITH
  HostText <- HostTexts,
  Rest <- {RestOf(m) : m \in Meaning},
  Ported <- {RestOf(m) : m \in {x \in Meaning : x.port # <<>>}},
  Fold <- [x \in HostTexts \cup {Unbracketed(y) : y \in HostTexts}
             |-> Folded(x)],
  Bare <- [x \in HostTexts |-> Unbracketed(x)],
  Bracketed <- [x \in HostTexts |-> Literal(x)]

TypeOK ==
  /\ origin \in Text
  /\ meant \subseteq Meaning /\ Cardinality(meant) <= 1
  /\ putOn \subseteq HostId
  /\ label \subseteq Owner

Init ==
  /\ origin = <<>>
  /\ meant = {}
  /\ putOn = {}
  /\ label = {}

-----------------------------------------------------------------------------

Becomes(text, m, on) ==
  /\ origin' = text
  /\ meant' = m
  /\ putOn' = on
  /\ label' = {}

AdministratorWrites(m) ==
  /\ m.host \in WrittenHosts
  /\ Becomes(TextOf(m), {m}, {})

(* "Set as upstream" on a candidate of h.                                  *)
CandidateApplied(h, port) ==
  /\ AddressFor(h) # <<>>
  /\ port # <<>>
  /\ Becomes(FormatAddr(AddressFor(h), port),
             {[scheme |-> <<>>, host |-> Literal(AddressFor(h)), port |-> port,
               path |-> <<>>]},
             {h})

(* The two hosts of a request, which may not be equal.                     *)
MayAsk(f, t) == Folded(Name(f)) # Folded(Name(t))

(* The text is rewritten; what is meant moves if it points at the source.  *)
(* It is not followed any further when it can be read in two ways.         *)
Switched(f, t) ==
  /\ MayAsk(f, t)
  /\ Matches(origin, Name(f))
  /\ Becomes(Rewritten(origin, Name(t)),
             {[m EXCEPT !.host = U!SwitchOriginHost(Abstract(m), Name(t)).host] :
                m \in {x \in meant : Readable(x) /\ U!PointsAt(Abstract(x), Name(f))}},
             {t})

(* A preview contacts the source host; either of its lists may fail, which *)
(* leaves that list empty.                                                 *)
Labelled(f) ==
  /\ Matches(origin, Name(f))
  /\ \E services \in {Services[f], {}}, containers \in {Containers[f], {}} :
       LET owners == Owners(OriginPort(origin), services, containers)
       IN  IF owners = {} THEN label' = {} ELSE \E w \in owners : label' = {w}
  /\ UNCHANGED <<origin, meant, putOn>>

Next ==
  \/ \E m \in Meaning : AdministratorWrites(m)
  \/ \E h \in HostId : (\E port \in Ports : CandidateApplied(h, port)) \/ Labelled(h)
  \/ \E f, t \in HostId : Switched(f, t)

Spec == Init /\ [][Next]_vars

-----------------------------------------------------------------------------
(* Properties.                                                             *)

(* However often it is switched, between names, addresses and IPv6         *)
(* literals, the text is exactly the origin whose host was exchanged and   *)
(* whose scheme, port and path were kept.                                  *)
OnlyTheHostChanges == \A m \in meant : origin = TextOf(m)

(* A switch finds an origin by its text exactly when the origin points at  *)
(* the source host.                                                        *)
FoundWhereItPoints ==
  \A m \in meant : Readable(m) =>
    \A f \in HostId : Matches(origin, Name(f)) <=> U!PointsAt(Abstract(m), Name(f))

Valued(port) == IF port = <<>> THEN 0 ELSE Number[port[1]]

(* The scan takes origins apart on its own, and reads the same host and    *)
(* port from them, whatever a switch made of them.                         *)
ScanReadsTheSame ==
  \A m \in meant : Readable(m) /\ (m.port = <<>> => ~Contains(m.host, ":")) =>
    /\ OriginHost(origin) = Folded(m.host)
    /\ OriginPort(origin) = Valued(m.port)

Allowed(h) == {Folded(Name(h)), Folded(AddressFor(h))}

(* What the plugin wrote for a host, as a candidate or by a switch, a scan *)
(* recognises as an origin of that host, unless it had to add brackets.    *)
ScanFindsItsOwn ==
  \A m \in meant, h \in putOn : Readable(m) /\ ~IsPrefix(<<"[">>, m.host) =>
    OriginHost(origin) \in Allowed(h)

Publishes(w, n, h) ==
  \/ w.kind = "service" /\ [svc |-> w.name, port |-> n] \in Services[h]
  \/ w.kind = "container"
       /\ [ctr |-> w.name, port |-> n, task |-> FALSE] \in Containers[h]

(* A label names something that publishes the origin's port on a host the  *)
(* origin points at, also when one of the lists could not be read.         *)
LabelPublishesThePort ==
  \A m \in meant, w \in label : Readable(m) /\ m.port # <<>> =>
    \E h \in HostId : /\ U!PointsAt(Abstract(m), Name(h))
                      /\ Publishes(w, Valued(m.port), h)

(* index.html:192, "Move the upstreams of Zoraxy proxy rules from one      *)
(* Docker host to another": an origin that is a candidate of a host is     *)
(* found by a switch from that host.                                       *)
SwitchFindsCandidates ==
  \A h \in putOn : Matches(origin, Name(h))
=============================================================================
