------------------------------ MODULE OriginText ------------------------------
(***************************************************************************)
(* The texts of upstream origins and Docker endpoints, as far as the code  *)
(* takes them apart and puts them together: switch.go, zoraxyapi.go,       *)
(* handlers.go and dockerclient.go each have their own way.  A text is a   *)
(* sequence of the separators : / [ ] and of words between them; a word is *)
(* a token, never spelled out.  Texts are trimmed.                         *)
(***************************************************************************)
EXTENDS Naturals, Sequences, SequencesExt

CONSTANTS
  Word,         \* names, groups of an address, numbers, schemes
  Lower,        \* letter case folded, of each word
  Number        \* the value of each word that is a decimal number

Separator == {":", "/", "[", "]"}

Token == Word \cup Separator

ASSUME WordAssumption ==
  /\ Word \cap Separator = {}
  /\ Lower \in [Word -> Word]
  /\ DOMAIN Number \subseteq Word
  /\ \A w \in DOMAIN Number : Number[w] \in Nat

Folded(s) == [i \in DOMAIN s |-> IF s[i] \in Word THEN Lower[s[i]] ELSE s[i]]

-----------------------------------------------------------------------------
(* strings.Index and strings.LastIndex; 0 when there is none.              *)

Place(t, s) == SelectInSeq([i \in DOMAIN s |-> SubSeq(s, i, Len(s))],
                           LAMBDA rest : IsPrefix(t, rest))

LastColon(s) == SelectLastInSeq(s, LAMBDA t : t = ":")

Before(s, i) == SubSeq(s, 1, i - 1)

After(s, i) == SubSeq(s, i + 1, Len(s))

-----------------------------------------------------------------------------
(* The three parts of an origin: scheme://, host and port, /path.          *)

Scheme(o) ==
  LET i == Place(<<":", "/", "/">>, o) IN IF i = 0 THEN <<>> ELSE SubSeq(o, 1, i + 2)

PathPlace(o) == Place(<<"/">>, After(o, Len(Scheme(o))))

Path(o) ==
  IF PathPlace(o) = 0 THEN <<>> ELSE After(o, Len(Scheme(o)) + PathPlace(o) - 1)

Authority(o) == SubSeq(o, Len(Scheme(o)) + 1, Len(o) - Len(Path(o)))

(* Mutant: brackets are not looked at.                                     *)
SplitAtLastColon(s) ==
  [host |-> IF LastColon(s) = 0 THEN s ELSE Before(s, LastColon(s)),
   port |-> IF LastColon(s) = 0 THEN <<>> ELSE After(s, LastColon(s)),
   hasPort |-> LastColon(s) # 0]

(* splitHostPort.  A bare IPv6 literal loses its last group to the port.   *)
SplitHostPort(s) ==
  LET close == Place(<<"]">>, s)
      rest == After(s, close)
  IN  CASE ~IsPrefix(<<"[">>, s) /\ LastColon(s) # 0 ->
             [host |-> Before(s, LastColon(s)), port |-> After(s, LastColon(s)),
              hasPort |-> TRUE]
        [] IsPrefix(<<"[">>, s) /\ close # 0 ->
             [host |-> SubSeq(s, 2, close - 1),
              port |-> IF IsPrefix(<<":">>, rest) THEN Tail(rest) ELSE <<>>,
              hasPort |-> IsPrefix(<<":">>, rest)]
        [] OTHER -> [host |-> s, port |-> <<>>, hasPort |-> FALSE]

-----------------------------------------------------------------------------
(* switchOriginHost.                                                       *)

(* An address with a colon gets brackets before a port.                    *)
Literal(h) ==
  IF Contains(h, ":") /\ ~IsPrefix(<<"[">>, h) THEN <<"[">> \o h \o <<"]">> ELSE h

Matches(o, from) ==
  o # <<>> /\ Folded(SplitHostPort(Authority(o)).host) = Folded(from)

(* Mutant: the brackets are forgotten.                                     *)
RewrittenBare(o, to) ==
  LET old == SplitHostPort(Authority(o))
      new == IF old.hasPort THEN to \o <<":">> \o old.port ELSE to
  IN  Scheme(o) \o new \o Path(o)

Rewritten(o, to) ==
  LET old == SplitHostPort(Authority(o))
      new == IF old.hasPort THEN Literal(to) \o <<":">> \o old.port ELSE to
  IN  Scheme(o) \o new \o Path(o)

-----------------------------------------------------------------------------
(* What a scan and the preview read from an origin.                        *)

NormalizeOrigin(o) == Folded(Authority(o))

(* Mutant: the port is kept.                                               *)
OriginHostAndPort(o) == NormalizeOrigin(o)

OriginHost(o) ==
  LET s == NormalizeOrigin(o)
  IN  IF LastColon(s) > 1 THEN Before(s, LastColon(s)) ELSE s

PortNumber == 1..65535

(* Mutant: a path is not cut off.                                          *)
OriginPortOfAll(o) ==
  LET p == After(Folded(o), LastColon(o))
      known == /\ LastColon(o) # 0 /\ Len(p) = 1 /\ p[1] \in DOMAIN Number
               /\ Number[p[1]] \in PortNumber
  IN  IF known THEN Number[p[1]] ELSE 0

(* originPort: where net.SplitHostPort has an answer, it too is what       *)
(* follows the last colon.  0 stands for no port.                          *)
OriginPort(o) ==
  LET s == NormalizeOrigin(o)
      p == After(s, LastColon(s))
      known == /\ LastColon(s) # 0 /\ Len(p) = 1 /\ p[1] \in DOMAIN Number
               /\ Number[p[1]] \in PortNumber
  IN  IF known THEN Number[p[1]] ELSE 0

-----------------------------------------------------------------------------
(* Docker hosts and the origins their candidates become.                   *)

(* handleUpsertHost: a host without a name is named after its endpoint.    *)
NameOf(h) == IF h.name = <<>> THEN h.endpoint ELSE h.name

(* parseEndpoint: a bare host:port, or what url.Parse takes for the host.  *)
HostPort(endpoint) ==
  IF Scheme(endpoint) = <<>> THEN endpoint ELSE Authority(endpoint)

(* net.SplitHostPort, of Go's library: the host, or {} for an error, which *)
(* a missing port and a bare IPv6 literal are.                             *)
DialHost(s) ==
  LET i == LastColon(s)
      host == Before(s, i)
  IN  CASE i = 0 -> {}
        [] i # 0 /\ IsPrefix(<<"[">>, s) ->
             IF s[i - 1] = "]" THEN {SubSeq(s, 2, i - 2)} ELSE {}
        [] OTHER -> IF Contains(host, ":") THEN {} ELSE {host}

IsLocal(h) == Scheme(h.endpoint) = <<"unix", ":", "/", "/">>

(* suggestedAddress: the one set by hand, none for a local socket, else    *)
(* the endpoint's host, or the whole text when it has no port.             *)
SuggestedAddress(h) ==
  LET hp == HostPort(h.endpoint)
      derived == IF DialHost(hp) = {} THEN hp ELSE CHOOSE x \in DialHost(hp) : TRUE
  IN  IF h.suggest # <<>> THEN h.suggest
      ELSE IF IsLocal(h) THEN <<>> ELSE derived

FormatAddr(ip, port) == Literal(ip) \o <<":">> \o port
=============================================================================
