----------------------------- MODULE OriginProofs -----------------------------
(***************************************************************************)
(* That the text of an origin stays the text of a host and a rest, for any *)
(* hosts, schemes, ports and paths that are written the way the code       *)
(* expects them, and however often the origin is switched.                 *)
(***************************************************************************)
EXTENDS OriginLife, SequenceTheorems, FiniteSetTheorems, WellFoundedInduction, TLAPS

-----------------------------------------------------------------------------
(* First and last places.                                                  *)

LEMMA MinIs ==
  ASSUME NEW I \in SUBSET Nat, NEW k \in I, \A i \in I : k <= i
  PROVE  Min(I) = k
<1> DEFINE m == Min(I)
<1>1. m \in I /\ \A y \in I : m <= y
  BY DEF Min
<1> HIDE DEF m
<1>2. m \in Nat /\ k \in Nat /\ m <= k /\ k <= m
  BY <1>1
<1>3. m = k
  BY <1>2
<1> QED
  BY <1>3 DEF m

LEMMA MaxIs ==
  ASSUME NEW I \in SUBSET Nat, NEW k \in I, \A i \in I : i <= k
  PROVE  Max(I) = k
<1> DEFINE m == Max(I)
<1>1. m \in I /\ \A y \in I : m >= y
  BY DEF Max
<1> HIDE DEF m
<1>2. m \in Nat /\ k \in Nat /\ m <= k /\ k <= m
  BY <1>1
<1>3. m = k
  BY <1>2
<1> QED
  BY <1>3 DEF m

LEMMA LeastExists ==
  ASSUME NEW I \in SUBSET Nat, I # {}
  PROVE  \E k \in I : \A i \in I : k <= i
<1> DEFINE Less == {ss \in Nat \X Nat : ss[1] < ss[2]}
<1>1. IsWellFoundedOn(Less, Nat)
  BY NatLessThanWellFounded DEF OpToRel
<1> HIDE DEF Less
<1>2. PICK k \in I : \A i \in I : <<i, k>> \notin Less
  BY <1>1, WFMin
<1>3. \A i \in I : k <= i
  <2> SUFFICES ASSUME NEW i \in I, i < k PROVE FALSE
    OBVIOUS
  <2>1. <<i, k>> \in Less
    BY DEF Less
  <2> QED BY <1>2, <2>1
<1> QED
  BY <1>3

LEMMA GreatestExists ==
  ASSUME NEW n \in Nat, NEW I \in SUBSET (1..n), I # {}
  PROVE  \E k \in I : \A i \in I : i <= k
<1> DEFINE J == {n - i : i \in I}
<1>1. J \in SUBSET Nat /\ J # {}
  <2>1. \A i \in 1..n : n - i \in Nat
    OBVIOUS
  <2> QED BY <2>1
<1>2. PICK l \in J : \A j \in J : l <= j
  BY <1>1, LeastExists
<1>3. PICK k \in I : l = n - k
  BY <1>2
<1>4. ASSUME NEW i \in I PROVE i <= k
  <2>1. n - i \in J
    OBVIOUS
  <2>2. n - k <= n - i
    BY <1>2, <1>3, <2>1
  <2>3. i \in Nat /\ k \in Nat
    OBVIOUS
  <2> QED BY <2>2, <2>3
<1> QED
  BY <1>3, <1>4

-----------------------------------------------------------------------------
(* Separators in a text.                                                   *)

LEMMA PrefixIs ==
  ASSUME NEW t \in Text, NEW s \in Text
  PROVE  IsPrefix(t, s) <=>
           Len(t) <= Len(s) /\ \A i \in 1..Len(t) : t[i] = s[i]
<1>1. Len(t) \in Nat /\ Len(s) \in Nat
  BY DEF Text
<1>2. SubSeq(t, 1, Len(t)) = t
  BY SubSeqFull DEF Text
<1>3. ASSUME Len(t) <= Len(s)
      PROVE  /\ SubSeq(s, 1, Len(t)) \in Text
             /\ Len(SubSeq(s, 1, Len(t))) = Len(t)
             /\ \A i \in 1..Len(t) : SubSeq(s, 1, Len(t))[i] = s[i]
  BY <1>1, <1>3 DEF Text
<1>4. ASSUME Len(t) <= Len(s), \A i \in 1..Len(t) : t[i] = s[i]
      PROVE  t = SubSeq(s, 1, Len(t))
  BY <1>3, <1>4, SeqEqual DEF Text
<1> QED
  BY <1>2, <1>3, <1>4 DEF IsPrefix

LEMMA PrefixOne ==
  ASSUME NEW a \in Token, NEW s \in Text
  PROVE  IsPrefix(<<a>>, s) <=> Len(s) >= 1 /\ s[1] = a
<1>1. <<a>> \in Text /\ Len(<<a>>) = 1 /\ <<a>>[1] = a
  BY DEF Text
<1>2. Len(s) \in Nat
  BY DEF Text
<1> QED
  BY <1>1, <1>2, PrefixIs

Url == <<":", "/", "/">>

LEMMA PrefixUrl ==
  ASSUME NEW s \in Text
  PROVE  IsPrefix(Url, s) <=>
           Len(s) >= 3 /\ s[1] = ":" /\ s[2] = "/" /\ s[3] = "/"
<1>1. /\ Url \in Text /\ Len(Url) = 3
      /\ Url[1] = ":" /\ Url[2] = "/" /\ Url[3] = "/"
  BY DEF Url, Text, Token, Separator
<1>2. Len(s) \in Nat /\ 1..3 = {1, 2, 3}
  BY DEF Text
<1>3. IsPrefix(Url, s) <=> 3 <= Len(s) /\ \A i \in 1..3 : Url[i] = s[i]
  BY <1>1, PrefixIs
<1>4. (\A i \in {1, 2, 3} : Url[i] = s[i])
        <=> s[1] = ":" /\ s[2] = "/" /\ s[3] = "/"
  BY <1>1
<1> QED
  BY <1>2, <1>3, <1>4

(* The rest of a text from a place on.                                     *)
LEMMA RestIs ==
  ASSUME NEW s \in Text, NEW i \in 1..Len(s)
  PROVE  /\ SubSeq(s, i, Len(s)) \in Text
         /\ Len(SubSeq(s, i, Len(s))) = Len(s) - i + 1
         /\ \A j \in 1..Len(s) - i + 1 : SubSeq(s, i, Len(s))[j] = s[i + j - 1]
  BY DEF Text

LEMMA PlaceIs ==
  ASSUME NEW s \in Text, NEW t
  PROVE  LET I == {i \in 1..Len(s) : IsPrefix(t, SubSeq(s, i, Len(s)))}
         IN  Place(t, s) = IF I # {} THEN Min(I) ELSE 0
<1> DEFINE q == [i \in DOMAIN s |-> SubSeq(s, i, Len(s))]
<1>1. DOMAIN s = 1..Len(s) /\ Len(s) \in Nat
  BY DEF Text
<1>2. Len(q) = Len(s) /\ \A i \in 1..Len(s) : q[i] = SubSeq(s, i, Len(s))
  BY <1>1
<1> DEFINE J == {i \in 1..Len(q) : IsPrefix(t, q[i])}
           I == {i \in 1..Len(s) : IsPrefix(t, SubSeq(s, i, Len(s)))}
<1>3. Place(t, s) = IF J # {} THEN Min(J) ELSE 0
  BY DEF Place, SelectInSeq
<1>4. J = I
  BY <1>2
<1> HIDE DEF I, J, q
<1>5. Place(t, s) = IF I # {} THEN Min(I) ELSE 0
  BY <1>3, <1>4
<1> QED
  BY <1>5 DEF I

(* The first place of one separator.                                       *)
LEMMA PlaceOfOne ==
  ASSUME NEW s \in Text, NEW a \in Token
  PROVE  /\ \A k \in 1..Len(s) :
              s[k] = a /\ (\A j \in 1..k - 1 : s[j] # a) => Place(<<a>>, s) = k
         /\ (\A j \in 1..Len(s) : s[j] # a) => Place(<<a>>, s) = 0
<1> DEFINE I == {i \in 1..Len(s) : IsPrefix(<<a>>, SubSeq(s, i, Len(s)))}
<1>1. Place(<<a>>, s) = IF I # {} THEN Min(I) ELSE 0
  BY PlaceIs
<1>2. I = {i \in 1..Len(s) : s[i] = a}
  <2> SUFFICES ASSUME NEW i \in 1..Len(s)
               PROVE  IsPrefix(<<a>>, SubSeq(s, i, Len(s))) <=> s[i] = a
    OBVIOUS
  <2> DEFINE v == SubSeq(s, i, Len(s))
  <2>1. v \in Text /\ Len(v) >= 1 /\ v[1] = s[i]
    BY RestIs DEF Text
  <2> HIDE DEF v
  <2>2. IsPrefix(<<a>>, v) <=> s[i] = a
    BY <2>1, PrefixOne
  <2> QED BY <2>2 DEF v
<1> HIDE DEF I
<1>3. ASSUME NEW k \in 1..Len(s), s[k] = a, \A j \in 1..k - 1 : s[j] # a
      PROVE  Place(<<a>>, s) = k
  <2>1. k \in I /\ I \in SUBSET Nat
    BY <1>2, <1>3 DEF Text
  <2>2. \A i \in I : k <= i
    BY <1>2, <1>3 DEF Text
  <2>3. Min(I) = k
    BY <2>1, <2>2, MinIs
  <2> QED BY <1>1, <2>1, <2>3
<1>4. ASSUME \A j \in 1..Len(s) : s[j] # a
      PROVE  Place(<<a>>, s) = 0
  BY <1>1, <1>2, <1>4
<1> QED
  BY <1>3, <1>4

(* The first place of ://.                                                 *)
LEMMA PlaceOfUrl ==
  ASSUME NEW s \in Text
  PROVE  LET At(i) == i + 2 <= Len(s) /\ s[i] = ":" /\ s[i + 1] = "/" /\ s[i + 2] = "/"
         IN  /\ \A k \in 1..Len(s) :
                  At(k) /\ (\A j \in 1..k - 1 : ~At(j)) => Place(Url, s) = k
             /\ (\A j \in 1..Len(s) : ~At(j)) <=> Place(Url, s) = 0
             /\ Place(Url, s) # 0 => /\ Place(Url, s) \in 1..Len(s)
                                     /\ At(Place(Url, s))
<1> DEFINE At(i) == i + 2 <= Len(s) /\ s[i] = ":" /\ s[i + 1] = "/" /\ s[i + 2] = "/"
           I == {i \in 1..Len(s) : IsPrefix(Url, SubSeq(s, i, Len(s)))}
<1>1. Place(Url, s) = IF I # {} THEN Min(I) ELSE 0
  BY PlaceIs
<1>2. I = {i \in 1..Len(s) : At(i)}
  <2> SUFFICES ASSUME NEW i \in 1..Len(s)
               PROVE  IsPrefix(Url, SubSeq(s, i, Len(s))) <=> At(i)
    OBVIOUS
  <2> DEFINE v == SubSeq(s, i, Len(s))
  <2>1. /\ v \in Text /\ Len(v) = Len(s) - i + 1
        /\ \A j \in 1..Len(s) - i + 1 : v[j] = s[i + j - 1]
    BY RestIs
  <2> HIDE DEF v
  <2>2. IsPrefix(Url, v) <=> Len(v) >= 3 /\ v[1] = ":" /\ v[2] = "/" /\ v[3] = "/"
    BY <2>1, PrefixUrl
  <2>3. Len(s) \in Nat
    BY DEF Text
  <2>4. CASE i + 2 <= Len(s)
    <3>1. v[1] = s[i] /\ v[2] = s[i + 1] /\ v[3] = s[i + 2]
      BY <2>1, <2>3, <2>4
    <3> QED BY <2>1, <2>2, <2>3, <2>4, <3>1 DEF v
  <2>5. CASE i + 2 > Len(s)
    BY <2>1, <2>2, <2>3, <2>5 DEF v
  <2> QED BY <2>3, <2>4, <2>5
<1>3. I \in SUBSET Nat
  OBVIOUS
<1>4. ASSUME NEW k \in 1..Len(s), At(k), \A j \in 1..k - 1 : ~At(j)
      PROVE  Place(Url, s) = k
  <2>1. k \in I
    BY <1>2, <1>4
  <2>2. \A i \in I : k <= i
    BY <1>2, <1>4 DEF Text
  <2> HIDE DEF I
  <2>3. Min(I) = k
    BY <1>3, <2>1, <2>2, MinIs
  <2> QED BY <1>1, <2>1, <2>3
<1> HIDE DEF I
<1>5. ASSUME I # {}
      PROVE  Min(I) \in I
  <2>1. PICK k \in I : \A i \in I : k <= i
    BY <1>3, <1>5, LeastExists
  <2>2. Min(I) = k
    BY <1>3, <2>1, MinIs
  <2> QED BY <2>2
<1>6. I # {} => Place(Url, s) \in I
  BY <1>1, <1>5
<1>7. I = {} => Place(Url, s) = 0
  BY <1>1
<1>8. \A i \in I : i # 0 /\ i \in 1..Len(s) /\ At(i)
  BY <1>2
<1>9. (\A j \in 1..Len(s) : ~At(j)) <=> I = {}
  BY <1>2
<1> HIDE DEF At
<1>10. /\ (\A j \in 1..Len(s) : ~At(j)) <=> Place(Url, s) = 0
       /\ Place(Url, s) # 0 => Place(Url, s) \in 1..Len(s) /\ At(Place(Url, s))
  BY <1>6, <1>7, <1>8, <1>9
<1> QED
  BY <1>4, <1>10 DEF At

LEMMA PlaceRange ==
  ASSUME NEW s \in Text, NEW t
  PROVE  Place(t, s) \in 0..Len(s)
<1> DEFINE I == {i \in 1..Len(s) : IsPrefix(t, SubSeq(s, i, Len(s)))}
<1>1. Place(t, s) = IF I # {} THEN Min(I) ELSE 0
  BY PlaceIs
<1>2. I \in SUBSET Nat /\ I \subseteq 0..Len(s) /\ Len(s) \in Nat
  BY DEF Text
<1> HIDE DEF I
<1>3. ASSUME I # {} PROVE Min(I) \in I
  <2>1. PICK k \in I : \A i \in I : k <= i
    BY <1>2, <1>3, LeastExists
  <2> QED BY <1>2, <2>1, MinIs
<1>4. CASE I = {}
  <2>1. Place(t, s) = 0
    BY <1>1, <1>4
  <2> QED BY <1>2, <2>1
<1>5. CASE I # {}
  <2>1. Place(t, s) \in I
    BY <1>1, <1>3, <1>5
  <2> QED BY <1>2, <2>1
<1> QED
  BY <1>4, <1>5

LEMMA LastColonIs ==
  ASSUME NEW s \in Text
  PROVE  /\ \A k \in 1..Len(s) :
              s[k] = ":" /\ (\A j \in k + 1..Len(s) : s[j] # ":") => LastColon(s) = k
         /\ (\A j \in 1..Len(s) : s[j] # ":") => LastColon(s) = 0
         /\ LastColon(s) \in 0..Len(s)
<1> DEFINE I == {i \in 1..Len(s) : s[i] = ":"}
<1>1. LastColon(s) = IF I # {} THEN Max(I) ELSE 0
  BY DEF LastColon, SelectLastInSeq
<1>2. I \in SUBSET Nat /\ I \in SUBSET (1..Len(s)) /\ Len(s) \in Nat
  BY DEF Text
<1>3. ASSUME NEW k \in 1..Len(s), s[k] = ":", \A j \in k + 1..Len(s) : s[j] # ":"
      PROVE  LastColon(s) = k
  <2>1. k \in I /\ \A i \in I : i <= k
    BY <1>2, <1>3
  <2> HIDE DEF I
  <2>2. Max(I) = k
    BY <1>2, <2>1, MaxIs
  <2> QED BY <1>1, <2>1, <2>2
<1>4. (\A j \in 1..Len(s) : s[j] # ":") => I = {}
  OBVIOUS
<1> HIDE DEF I
<1>5. ASSUME I # {} PROVE Max(I) \in I
  <2>1. PICK k \in I : \A i \in I : i <= k
    BY <1>2, <1>5, GreatestExists
  <2> QED BY <1>2, <2>1, MaxIs
<1>6. LastColon(s) \in 0..Len(s)
  <2>1. CASE I = {}
    <3>1. LastColon(s) = 0
      BY <1>1, <2>1
    <3> QED BY <1>2, <3>1
  <2>2. CASE I # {}
    <3>1. LastColon(s) \in I
      BY <1>1, <1>5, <2>2
    <3>2. LastColon(s) \in 1..Len(s)
      BY <1>2, <3>1
    <3> QED BY <1>2, <3>2
  <2> QED BY <2>1, <2>2
<1>7. (\A j \in 1..Len(s) : s[j] # ":") => LastColon(s) = 0
  BY <1>1, <1>4
<1> QED
  BY <1>3, <1>6, <1>7

-----------------------------------------------------------------------------
(* Parts of a text are texts.                                              *)

LEMMA PartIs ==
  ASSUME NEW s \in Text, NEW i \in Nat \ {0}, NEW j \in Nat, j <= Len(s)
  PROVE  /\ SubSeq(s, i, j) \in Text
         /\ Len(SubSeq(s, i, j)) = IF i <= j THEN j - i + 1 ELSE 0
         /\ \A n \in 1..j - i + 1 : SubSeq(s, i, j)[n] = s[i + n - 1]
<1>1. \A n \in i..j : s[n] \in Token
  BY DEF Text
<1> QED
  BY <1>1, SubSeqProperties DEF Text

LEMMA JoinOf ==
  ASSUME NEW S, NEW s \in Seq(S), NEW t \in Seq(S)
  PROVE  /\ s \o t \in Seq(S)
         /\ Len(s \o t) = Len(s) + Len(t)
         /\ \A i \in 1..Len(s) : (s \o t)[i] = s[i]
         /\ \A i \in 1..Len(t) : (s \o t)[Len(s) + i] = t[i]
  OBVIOUS

LEMMA JoinAssociative ==
  ASSUME NEW x \in Text, NEW y \in Text, NEW z \in Text
  PROVE  (x \o y) \o z = x \o (y \o z)
BY ConcatAssociative DEF Text

LEMMA JoinIs ==
  ASSUME NEW s \in Text, NEW t \in Text
  PROVE  /\ s \o t \in Text
         /\ Len(s \o t) = Len(s) + Len(t)
         /\ \A i \in 1..Len(s) : (s \o t)[i] = s[i]
         /\ \A i \in 1..Len(t) : (s \o t)[Len(s) + i] = t[i]
  BY JoinOf DEF Text

LEMMA FoldedIs ==
  ASSUME NEW s \in Text
  PROVE  /\ Folded(s) \in Text
         /\ Len(Folded(s)) = Len(s)
         /\ \A i \in 1..Len(s) :
              /\ Folded(s)[i] = IF s[i] \in Word THEN Lower[s[i]] ELSE s[i]
              /\ \A c \in Separator : Folded(s)[i] = c <=> s[i] = c
<1>1. DOMAIN s = 1..Len(s) /\ Len(s) \in Nat /\ \A i \in 1..Len(s) : s[i] \in Token
  BY DEF Text
<1>2. \A x \in Token : /\ (IF x \in Word THEN Lower[x] ELSE x) \in Token
                       /\ \A c \in Separator :
                            (IF x \in Word THEN Lower[x] ELSE x) = c <=> x = c
  BY WordAssumption DEF Token
<1>3. Folded(s) \in [1..Len(s) -> Token]
  BY <1>1, <1>2 DEF Folded
<1>4. Folded(s) \in Text /\ Len(Folded(s)) = Len(s)
  BY <1>1, <1>3 DEF Text
<1> QED
  BY <1>1, <1>2, <1>4 DEF Folded

LEMMA LiteralIs ==
  ASSUME NEW h \in Text
  PROVE  Literal(h) \in Text
<1>1. <<"[">> \in Text /\ <<"]">> \in Text
  BY DEF Text, Token, Separator
<1> QED
  BY <1>1, JoinIs DEF Literal

LEMMA PartsTyped ==
  ASSUME NEW o \in Text
  PROVE  /\ Scheme(o) \in Text /\ Path(o) \in Text /\ Authority(o) \in Text
         /\ Len(Scheme(o)) <= Len(o)
<1> DEFINE i == Place(<<":", "/", "/">>, o)
<1>0. Len(o) \in Nat
  BY DEF Text
<1>1. i \in 0..Len(o) /\ (i # 0 => i + 2 <= Len(o))
  BY PlaceRange, PlaceOfUrl DEF Url
<1>2. Scheme(o) = IF i = 0 THEN <<>> ELSE SubSeq(o, 1, i + 2)
  BY DEF Scheme
<1> HIDE DEF i
<1>3. <<>> \in Text /\ Len(<<>>) = 0
  BY DEF Text
<1>4. Scheme(o) \in Text /\ Len(Scheme(o)) \in 0..Len(o)
  <2>1. CASE i = 0
    BY <1>0, <1>2, <1>3, <2>1
  <2>2. CASE i # 0
    BY <1>0, <1>1, <1>2, <2>2, PartIs
  <2> QED BY <2>1, <2>2
<1> DEFINE n == Len(Scheme(o))
           p == PathPlace(o)
<1>5. After(o, n) \in Text /\ Len(After(o, n)) = Len(o) - n
  <2>1. n + 1 \in Nat \ {0} /\ Len(o) <= Len(o)
    BY <1>0, <1>4
  <2>2. After(o, n) = SubSeq(o, n + 1, Len(o))
    BY DEF After
  <2> HIDE DEF n
  <2> QED BY <1>0, <1>4, <2>1, <2>2, PartIs DEF n
<1>6. p \in 0..Len(o) - n
  BY <1>5, PlaceRange DEF PathPlace
<1>7. Path(o) = IF p = 0 THEN <<>> ELSE SubSeq(o, n + p - 1 + 1, Len(o))
  BY DEF Path, After
<1>8. Authority(o) = SubSeq(o, n + 1, Len(o) - Len(Path(o)))
  BY DEF Authority
<1> HIDE DEF n, p
<1>9. n \in 0..Len(o)
  BY <1>4 DEF n
<1>10. Path(o) \in Text /\ Len(Path(o)) \in 0..Len(o)
  <2>1. CASE p = 0
    BY <1>0, <1>3, <1>7, <2>1
  <2>2. CASE p # 0
    <3>1. n + p - 1 + 1 \in Nat \ {0}
      BY <1>0, <1>6, <1>9, <2>2
    <3>2. Path(o) = SubSeq(o, n + p - 1 + 1, Len(o))
      BY <1>7, <2>2
    <3> QED BY <1>0, <1>6, <1>9, <2>2, <3>1, <3>2, PartIs
  <2> QED BY <2>1, <2>2
<1>11. Authority(o) \in Text
  BY <1>0, <1>8, <1>9, <1>10, PartIs
<1> QED
  BY <1>4, <1>10, <1>11, <1>0

LEMMA SplitTyped ==
  ASSUME NEW s \in Text
  PROVE  SplitHostPort(s).host \in Text /\ SplitHostPort(s).port \in Text
<1> DEFINE close == Place(<<"]">>, s)
           rest == After(s, close)
           k == LastColon(s)
<1>1. Len(s) \in Nat /\ close \in 0..Len(s) /\ k \in 0..Len(s) /\ <<>> \in Text
  BY PlaceRange, LastColonIs DEF Text
<1>2. rest \in Text
  <2>1. rest = SubSeq(s, close + 1, Len(s))
    BY DEF After
  <2> HIDE DEF close, rest
  <2> QED BY <1>1, <2>1, PartIs
<1>3. IsPrefix(<<":">>, rest) => Tail(rest) \in Text
  <2>1. <<":">> \in Text /\ Len(<<":">>) = 1
    BY DEF Text, Token, Separator
  <2>2. IsPrefix(<<":">>, rest) => Len(rest) >= 1
    BY <1>2, <2>1, PrefixIs
  <2>3. IsPrefix(<<":">>, rest) => rest # <<>>
    BY <2>2
  <2> QED BY <1>2, <2>3, HeadTailProperties DEF Text
<1>4. k # 0 => Before(s, k) \in Text /\ After(s, k) \in Text
  <2>1. Before(s, k) = SubSeq(s, 1, k - 1) /\ After(s, k) = SubSeq(s, k + 1, Len(s))
    BY DEF Before, After
  <2> HIDE DEF k
  <2> QED BY <1>1, <2>1, PartIs
<1>5. IsPrefix(<<"[">>, s) /\ close # 0 => SubSeq(s, 2, close - 1) \in Text
  <2> HIDE DEF close
  <2> QED BY <1>1, PartIs
<1>6. CASE ~IsPrefix(<<"[">>, s) /\ k # 0
  <2>1. SplitHostPort(s) = [host |-> Before(s, k), port |-> After(s, k), hasPort |-> TRUE]
    BY <1>6 DEF SplitHostPort
  <2> QED BY <1>4, <1>6, <2>1
<1>7. CASE IsPrefix(<<"[">>, s) /\ close # 0
  <2>1. SplitHostPort(s) =
          [host |-> SubSeq(s, 2, close - 1),
           port |-> IF IsPrefix(<<":">>, rest) THEN Tail(rest) ELSE <<>>,
           hasPort |-> IsPrefix(<<":">>, rest)]
    BY <1>7 DEF SplitHostPort
  <2> QED BY <1>1, <1>3, <1>5, <1>7, <2>1
<1>8. CASE /\ ~(~IsPrefix(<<"[">>, s) /\ k # 0)
           /\ ~(IsPrefix(<<"[">>, s) /\ close # 0)
  <2>1. SplitHostPort(s) = [host |-> s, port |-> <<>>, hasPort |-> FALSE]
    BY <1>8 DEF SplitHostPort
  <2> QED BY <1>1, <2>1
<1> QED
  BY <1>6, <1>7, <1>8

LEMMA RewrittenTyped ==
  ASSUME NEW o \in Text, NEW to \in Text
  PROVE  Rewritten(o, to) \in Text
<1> DEFINE old == SplitHostPort(Authority(o))
           new == IF old.hasPort THEN Literal(to) \o <<":">> \o old.port ELSE to
<1>0. <<":">> \in Text
  BY DEF Text, Token, Separator
<1>1. /\ old.port \in Text /\ Scheme(o) \in Text /\ Path(o) \in Text
      /\ <<":">> \in Text /\ Literal(to) \in Text
  BY <1>0, PartsTyped, SplitTyped, LiteralIs
<1> HIDE DEF old
<1>2. new \in Text
  BY <1>1, JoinIs
<1> HIDE DEF new
<1>3. Scheme(o) \o new \o Path(o) \in Text
  BY <1>1, <1>2, JoinIs
<1> QED
  BY <1>3 DEF Rewritten, new, old

LEMMA DialTyped ==
  ASSUME NEW s \in Text
  PROVE  DialHost(s) \subseteq Text
<1> DEFINE i == LastColon(s)
<1>1. Len(s) \in Nat /\ i \in 0..Len(s)
  BY LastColonIs DEF Text
<1>2. Before(s, i) = SubSeq(s, 1, i - 1)
  BY DEF Before
<1>3. DialHost(s) \subseteq
        IF i = 0 THEN {}
        ELSE IF IsPrefix(<<"[">>, s) THEN IF s[i - 1] = "]" THEN {SubSeq(s, 2, i - 2)} ELSE {}
        ELSE {Before(s, i)}
  BY DEF DialHost
<1>4. IsPrefix(<<"[">>, s) => s[1] = "["
  BY PrefixOne DEF Token, Separator
<1>5. i # 0 => s[i] = ":"
  <2> DEFINE I == {j \in 1..Len(s) : s[j] = ":"}
  <2>1. i = IF I # {} THEN Max(I) ELSE 0
    BY DEF LastColon, SelectLastInSeq
  <2>2. I # {} => Max(I) \in I
    <3>1. ASSUME I # {} PROVE \E k \in I : \A j \in I : j <= k
      BY <1>1, <3>1, GreatestExists
    <3>2. I \in SUBSET Nat
      BY <1>1
    <3> HIDE DEF I
    <3> QED BY <3>1, <3>2, MaxIs
  <2> QED BY <2>1, <2>2
<1> HIDE DEF i
<1>6. i # 0 => Before(s, i) \in Text
  BY <1>1, <1>2, PartIs
<1>7. i # 0 /\ IsPrefix(<<"[">>, s) => SubSeq(s, 2, i - 2) \in Text
  <2> SUFFICES ASSUME i # 0, IsPrefix(<<"[">>, s)
               PROVE  SubSeq(s, 2, i - 2) \in Text
    OBVIOUS
  <2>1. i >= 2
    BY <1>1, <1>4, <1>5
  <2> QED BY <1>1, <2>1, PartIs
<1> QED
  BY <1>3, <1>6, <1>7

LEMMA SuggestedTyped ==
  ASSUME NEW h \in HostId
  PROVE  AddressFor(h) \in Text /\ Name(h) \in Text /\ Name(h) # <<>>
<1> DEFINE g == Hosts[h]
           hp == HostPort(g.endpoint)
           derived == IF DialHost(hp) = {} THEN hp ELSE CHOOSE x \in DialHost(hp) : TRUE
<1>1. g.name \in Text /\ g.endpoint \in Text /\ g.suggest \in Text /\ g.endpoint # <<>>
  BY LifeAssumption
<1>2. hp \in Text
  BY <1>1, PartsTyped DEF HostPort
<1>3. derived \in Text
  BY <1>2, DialTyped
<1>4. SuggestedAddress(g) = IF g.suggest # <<>> THEN g.suggest
                            ELSE IF IsLocal(g) THEN <<>> ELSE derived
  BY DEF SuggestedAddress
<1>5. <<>> \in Text
  BY DEF Text
<1> QED
  BY <1>1, <1>3, <1>4, <1>5 DEF AddressFor, Name, NameOf

LEMMA LiteralSome ==
  ASSUME NEW x \in Text, x # <<>>
  PROVE  Literal(x) \in Text \ {<<>>}
<1>1. <<"[">> \in Text /\ <<"]">> \in Text
  BY DEF Text, Token, Separator
<1>2. Len(<<"[">>) = 1 /\ Len(<<"]">>) = 1 /\ Len(x) \in Nat /\ Len(<<>>) = 0
  BY DEF Text
<1>3. Len((<<"[">> \o x) \o <<"]">>) = Len(x) + 2
  BY <1>1, <1>2, JoinIs
<1>4. Literal(x) # <<>>
  BY <1>2, <1>3 DEF Literal
<1> QED
  BY <1>4, LiteralIs

LEMMA HostTextsAre ==
  /\ HostTexts = (Spellings \cup {Literal(x) : x \in Spellings}) \ {<<>>}
  /\ Spellings \subseteq Text
<1>1. WrittenHosts \subseteq Text
  BY LifeAssumption
<1>2. \A h \in HostId : {Name(h), AddressFor(h)} \subseteq Text
  BY SuggestedTyped
<1>3. Spellings \subseteq Text
  BY <1>1, <1>2 DEF Spellings
<1> QED
  BY <1>3 DEF HostTexts

LEMMA HostTextsTyped == HostTexts \subseteq Text \ {<<>>}
  BY HostTextsAre, LiteralIs

LEMMA NamesAreHosts ==
  ASSUME NEW h \in HostId
  PROVE  /\ Name(h) \in HostTexts /\ Literal(Name(h)) \in HostTexts
         /\ AddressFor(h) # <<>> => Literal(AddressFor(h)) \in HostTexts
<1>1. Name(h) \in Text \ {<<>>} /\ AddressFor(h) \in Text
  BY SuggestedTyped
<1>2. Name(h) \in Spellings /\ AddressFor(h) \in Spellings
  BY DEF Spellings
<1>3. /\ Literal(Name(h)) # <<>>
      /\ AddressFor(h) # <<>> => Literal(AddressFor(h)) # <<>>
  BY <1>1, LiteralSome
<1> QED
  BY <1>1, <1>2, <1>3, HostTextsAre

LEMMA TextTyped ==
  ASSUME NEW m \in Meaning
  PROVE  /\ m.scheme \in Text /\ m.host \in Text /\ m.port \in Text /\ m.path \in Text
         /\ m.host # <<>>
         /\ WithPort(m) \in Text /\ m.host \o WithPort(m) \in Text
         /\ TextOf(m) \in Text
<1>1. /\ m.scheme \in Text /\ m.host \in Text \ {<<>>} /\ m.port \in Text
      /\ m.path \in Text
  BY HostTextsTyped, LifeAssumption DEF Meaning
<1>2. <<":">> \in Text /\ <<>> \in Text
  BY DEF Text, Token, Separator
<1>3. WithPort(m) \in Text
  BY <1>1, <1>2, JoinIs DEF WithPort
<1>4. m.host \o WithPort(m) \in Text /\ m.scheme \o m.host \in Text
  BY <1>1, <1>3, JoinIs
<1>5. TextOf(m) \in Text
  BY <1>1, <1>3, <1>4, JoinIs DEF TextOf
<1> QED
  BY <1>1, <1>3, <1>4, <1>5

-----------------------------------------------------------------------------
(* Reading a text that was written as expected.                            *)

(* The parts of a text, by their places.                                   *)
LEMMA TextAt ==
  ASSUME NEW m \in Meaning
  PROVE  LET L == Len(m.scheme)
             H == Len(m.host)
             W == Len(WithPort(m))
             P == Len(m.path)
             o == TextOf(m)
         IN  /\ L \in Nat /\ H \in Nat /\ W \in Nat /\ P \in Nat /\ H >= 1
             /\ o \in Text /\ Len(o) = L + H + W + P
             /\ \A i \in 1..L : o[i] = m.scheme[i]
             /\ \A i \in 1..H : o[L + i] = m.host[i]
             /\ \A i \in 1..W : o[L + H + i] = WithPort(m)[i]
             /\ \A i \in 1..P : o[L + H + W + i] = m.path[i]
<1> DEFINE L == Len(m.scheme)
           H == Len(m.host)
           W == Len(WithPort(m))
           P == Len(m.path)
           a == m.scheme \o m.host
           b == a \o WithPort(m)
           o == b \o m.path
<1>1. /\ m.scheme \in Text /\ m.host \in Text /\ WithPort(m) \in Text
      /\ m.path \in Text /\ m.host # <<>>
  BY TextTyped
<1>2. L \in Nat /\ H \in Nat /\ W \in Nat /\ P \in Nat /\ H >= 1
  BY <1>1 DEF Text
<1>3. /\ a \in Text /\ Len(a) = L + H
      /\ \A i \in 1..L : a[i] = m.scheme[i]
      /\ \A i \in 1..H : a[L + i] = m.host[i]
  BY <1>1, JoinIs
<1> HIDE DEF a
<1>4. /\ b \in Text /\ Len(b) = Len(a) + W
      /\ \A i \in 1..Len(a) : b[i] = a[i]
      /\ \A i \in 1..W : b[Len(a) + i] = WithPort(m)[i]
  BY <1>1, <1>3, JoinIs
<1> HIDE DEF b
<1>5. /\ o \in Text /\ Len(o) = Len(b) + P
      /\ \A i \in 1..Len(b) : o[i] = b[i]
      /\ \A i \in 1..P : o[Len(b) + i] = m.path[i]
  BY <1>1, <1>4, JoinIs
<1> HIDE DEF o, L, H, W, P
<1>6. \A i \in 1..L : o[i] = m.scheme[i]
  BY <1>2, <1>3, <1>4, <1>5
<1>7. \A i \in 1..H : o[L + i] = m.host[i]
  BY <1>2, <1>3, <1>4, <1>5
<1>8. \A i \in 1..W : o[L + H + i] = WithPort(m)[i]
  BY <1>2, <1>3, <1>4, <1>5
<1>9. TextOf(m) = o
  BY DEF TextOf, o, b, a
<1>10. Len(o) = L + H + W + P /\ \A i \in 1..P : o[L + H + W + i] = m.path[i]
  BY <1>2, <1>3, <1>4, <1>5
<1> QED
  BY <1>2, <1>5, <1>6, <1>7, <1>8, <1>9, <1>10 DEF L, H, W, P

LEMMA ContainsIs ==
  ASSUME NEW s \in Text, NEW a
  PROVE  Contains(s, a) <=> \E i \in 1..Len(s) : s[i] = a
  BY DEF Contains

(* A port is one number.                                                   *)
LEMMA PortIs ==
  ASSUME WellWritten, NEW m \in Meaning
  PROVE  \/ m.port = <<>> /\ WithPort(m) = <<>> /\ Len(WithPort(m)) = 0
         \/ \E w \in DOMAIN Number :
              /\ m.port = <<w>> /\ m.port # <<>>
              /\ w \in Word /\ Lower[w] = w /\ Number[w] \in PortNumber
              /\ Len(WithPort(m)) = 2
              /\ WithPort(m)[1] = ":" /\ WithPort(m)[2] = w
<1>1. m.port \in Ports
  BY DEF Meaning
<1>2. CASE m.port = <<>>
  <2>1. Len(<<>>) = 0
    OBVIOUS
  <2> QED BY <1>2, <2>1 DEF WithPort
<1>3. CASE m.port # <<>>
  <2>0. IsNumber(m.port)
    BY <1>1, <1>3 DEF WellWritten, PortsAreNumbers
  <2>1. PICK w \in DOMAIN Number :
          m.port = <<w>> /\ Lower[w] = w /\ Number[w] \in PortNumber
    BY <2>0 DEF IsNumber
  <2>2. w \in Word
    BY WordAssumption
  <2>3. <<":">> \in Text /\ <<w>> \in Text
    BY <2>2 DEF Text, Token, Separator
  <2>4. /\ Len(<<":">>) = 1 /\ Len(<<w>>) = 1
        /\ <<":">>[1] = ":" /\ <<w>>[1] = w
    OBVIOUS
  <2>5. WithPort(m) = <<":">> \o <<w>>
    BY <1>3, <2>1 DEF WithPort
  <2>6. /\ Len(<<":">> \o <<w>>) = 2
        /\ (<<":">> \o <<w>>)[1] = ":" /\ (<<":">> \o <<w>>)[1 + 1] = w
    BY <2>3, <2>4, JoinIs
  <2> QED BY <1>3, <2>1, <2>2, <2>5, <2>6
<1> QED
  BY <1>2, <1>3

(* The host that was written has no slash, and a colon only in brackets.   *)
LEMMA HostIs ==
  ASSUME WellWritten, NEW m \in Meaning, Readable(m)
  PROVE  /\ m.host \in Text /\ Len(m.host) \in Nat /\ Len(m.host) >= 1
         /\ \A i \in 1..Len(m.host) : m.host[i] # "/"
         /\ IF m.host[1] = "["
            THEN /\ Len(m.host) >= 3 /\ m.host[Len(m.host)] = "]"
                 /\ Unbracketed(m.host) = SubSeq(m.host, 2, Len(m.host) - 1)
                 /\ \A i \in 2..Len(m.host) - 1 : m.host[i] # "[" /\ m.host[i] # "]"
            ELSE /\ Unbracketed(m.host) = m.host
                 /\ \A i \in 1..Len(m.host) :
                      m.host[i] # ":" /\ m.host[i] # "[" /\ m.host[i] # "]"
<1> DEFINE h == m.host
           n == Len(h)
<1>1. h \in Text /\ h # <<>> /\ h \in HostTexts
  BY TextTyped DEF Meaning
<1>2. n \in Nat /\ n >= 1
  BY <1>1 DEF Text
<1>3. IsPrefix(<<"[">>, h) <=> h[1] = "["
  BY <1>1, <1>2, PrefixOne DEF Token, Separator
<1>4. WellSpelled(h)
  BY <1>1 DEF WellWritten, Readable
<1>5. \A i \in 1..n : h[i] # "/"
  BY <1>1, ContainsIs DEF Readable
<1>6. CASE h[1] = "["
  <2>1. Unbracketed(h) = SubSeq(h, 2, n - 1)
    BY <1>3, <1>6 DEF Unbracketed
  <2>2. h[n] = "]"
    BY <1>3, <1>4, <1>6 DEF WellSpelled
  <2>3. /\ SubSeq(h, 2, n - 1) \in Text
        /\ Len(SubSeq(h, 2, n - 1)) = IF 2 <= n - 1 THEN n - 2 ELSE 0
        /\ \A i \in 1..n - 2 : SubSeq(h, 2, n - 1)[i] = h[i + 1]
    <3> HIDE DEF n
    <3>1. n - 1 \in Nat /\ n - 1 <= n
      BY <1>2
    <3>2. /\ SubSeq(h, 2, n - 1) \in Text
          /\ Len(SubSeq(h, 2, n - 1)) = IF 2 <= n - 1 THEN (n - 1) - 2 + 1 ELSE 0
          /\ \A i \in 1..(n - 1) - 2 + 1 : SubSeq(h, 2, n - 1)[i] = h[2 + i - 1]
      BY <1>1, <3>1, PartIs DEF n
    <3>3. (n - 1) - 2 + 1 = n - 2 /\ \A i \in 1..n - 2 : 2 + i - 1 = i + 1
      BY <1>2
    <3> QED BY <3>2, <3>3
  <2> DEFINE u == SubSeq(h, 2, n - 1)
  <2>4. /\ u # <<>>
        /\ \A i \in 1..Len(u) : u[i] # "[" /\ u[i] # "]"
    BY <1>4, <2>1, <2>3, ContainsIs DEF WellSpelled
  <2> HIDE DEF u
  <2>5. n >= 3
    <3>1. CASE n - 1 < 2
      <4>1. u = <<>>
        BY <1>2, <3>1, SubSeqEmpty DEF u
      <4> QED BY <2>4, <4>1
    <3> QED BY <1>2, <3>1
  <2>6. \A i \in 2..n - 1 : h[i] # "[" /\ h[i] # "]"
    <3> SUFFICES ASSUME NEW i \in 2..n - 1 PROVE h[i] # "[" /\ h[i] # "]"
      OBVIOUS
    <3>1. i - 1 \in 1..n - 2 /\ i - 1 + 1 = i /\ Len(u) = n - 2
      BY <1>2, <2>3, <2>5 DEF u
    <3>2. u[i - 1] = h[i]
      BY <2>3, <3>1 DEF u
    <3> QED BY <2>4, <3>1, <3>2
  <2> QED BY <1>1, <1>2, <1>5, <1>6, <2>1, <2>2, <2>5, <2>6
<1>7. CASE h[1] # "["
  <2>1. Unbracketed(h) = h
    BY <1>3, <1>7 DEF Unbracketed
  <2>2. \A i \in 1..n : h[i] # "[" /\ h[i] # "]"
    BY <1>1, <1>4, <2>1, ContainsIs DEF WellSpelled
  <2>3. \A i \in 1..n : h[i] # ":"
    BY <1>1, <1>3, <1>7, ContainsIs DEF Readable
  <2> QED BY <1>1, <1>2, <1>5, <1>7, <2>1, <2>2, <2>3
<1> QED
  BY <1>6, <1>7

LEMMA SchemeIs ==
  ASSUME WellWritten, NEW m \in Meaning
  PROVE  \/ m.scheme = <<>> /\ Len(m.scheme) = 0
         \/ /\ Len(m.scheme) = 4 /\ m.scheme[1] \in Word
            /\ m.scheme[2] = ":" /\ m.scheme[3] = "/" /\ m.scheme[4] = "/"
<1>1. m.scheme \in Schemes
  BY DEF Meaning
<1>2. m.scheme = <<>> \/ \E w \in Word : m.scheme = <<w, ":", "/", "/">>
  BY <1>1 DEF WellWritten, SchemesEnd
<1>3. ASSUME NEW w \in Word, m.scheme = <<w, ":", "/", "/">>
      PROVE  /\ Len(m.scheme) = 4 /\ m.scheme[1] \in Word
             /\ m.scheme[2] = ":" /\ m.scheme[3] = "/" /\ m.scheme[4] = "/"
  <2> DEFINE s == <<w, ":", "/", "/">>
  <2>1. Len(s) = 4 /\ s[1] = w /\ s[2] = ":" /\ s[3] = "/" /\ s[4] = "/"
    OBVIOUS
  <2> HIDE DEF s
  <2>2. m.scheme = s
    BY <1>3 DEF s
  <2> QED BY <2>1, <2>2
<1>4. Len(<<>>) = 0
  OBVIOUS
<1> QED
  BY <1>2, <1>3, <1>4

LEMMA PathIs ==
  ASSUME WellWritten, NEW m \in Meaning
  PROVE  \/ m.path = <<>> /\ Len(m.path) = 0
         \/ m.path # <<>> /\ Len(m.path) >= 1 /\ m.path[1] = "/"
<1>1. m.path \in Paths /\ m.path \in Text
  BY TextTyped DEF Meaning
<1>2. m.path = <<>> \/ m.path[1] = "/"
  BY <1>1 DEF WellWritten, PathsBegin
<1>3. m.path # <<>> => Len(m.path) >= 1
  BY <1>1 DEF Text
<1> QED
  BY <1>2, <1>3

(* :// is nowhere in the text, or behind the scheme for the first time.    *)
LEMMA UrlPlace ==
  ASSUME WellWritten, NEW m \in Meaning, Readable(m)
  PROVE  Place(Url, TextOf(m)) = IF m.scheme = <<>> THEN 0 ELSE 2
<1> DEFINE L == Len(m.scheme)
           H == Len(m.host)
           W == Len(WithPort(m))
           P == Len(m.path)
           o == TextOf(m)
           At(i) == i + 2 <= Len(o) /\ o[i] = ":" /\ o[i + 1] = "/" /\ o[i + 2] = "/"
<1>1. /\ L \in Nat /\ H \in Nat /\ W \in Nat /\ P \in Nat /\ H >= 1
      /\ o \in Text /\ Len(o) = L + H + W + P
      /\ \A i \in 1..L : o[i] = m.scheme[i]
      /\ \A i \in 1..H : o[L + i] = m.host[i]
      /\ \A i \in 1..W : o[L + H + i] = WithPort(m)[i]
      /\ \A i \in 1..P : o[L + H + W + i] = m.path[i]
  BY TextAt
<1>2. \A c \in Separator : c \notin Word
  BY WordAssumption
<1>3. CASE m.scheme = <<>>
  <2>1. L = 0
    BY <1>3
  <2>2. /\ \A i \in 1..H : m.host[i] # "/"
        /\ IF m.host[1] = "[" THEN H >= 3 /\ m.host[H] = "]"
           ELSE \A i \in 1..H : m.host[i] # ":"
    BY HostIs
  <2>3. \/ W = 0
        \/ /\ W = 2 /\ WithPort(m)[1] = ":"
           /\ WithPort(m)[2] # "/" /\ WithPort(m)[2] # ":"
    BY <1>2, PortIs DEF Separator
  <2>4. \A i \in 1..P :
          ~(/\ i + 2 <= P /\ m.path[i] = ":"
            /\ m.path[i + 1] = "/" /\ m.path[i + 2] = "/")
    <3>1. Place(Url, m.path) = 0
      BY <1>3 DEF Readable, Url
    <3>2. m.path \in Text
      BY TextTyped
    <3> QED BY <3>1, <3>2, PlaceOfUrl
  <2>5. ASSUME NEW i \in 1..Len(o), At(i) PROVE FALSE
    <3> HIDE DEF o, L, H, W, P
    <3>0. i + 2 <= Len(o) /\ o[i] = ":" /\ o[i + 1] = "/" /\ o[i + 2] = "/"
      BY <2>5
    <3>1. CASE i < H
      <4>1. i + 1 \in 1..H /\ L + (i + 1) = i + 1
        BY <1>1, <2>1, <3>1
      <4> QED BY <1>1, <2>2, <3>0, <4>1
    <3>2. CASE i = H
      <4>1. o[H] = m.host[H]
        <5>1. H \in 1..H /\ L + H = H
          BY <1>1, <2>1
        <5> QED BY <1>1, <5>1
      <4>2. H \in 1..H
        BY <1>1
      <4> QED BY <2>2, <3>0, <3>2, <4>1, <4>2
    <3>3. CASE i > H /\ i <= H + W
      <4>1. W = 2 /\ (i = H + 1 \/ i = H + 2)
        BY <1>1, <2>3, <3>3
      <4>2. o[H + 2] = WithPort(m)[2]
        <5>1. 2 \in 1..W /\ L + H + 2 = H + 2
          BY <1>1, <2>1, <4>1
        <5> QED BY <1>1, <5>1
      <4>3. H + 1 + 1 = H + 2
        BY <1>1
      <4> QED BY <2>3, <3>0, <4>1, <4>2, <4>3
    <3>4. CASE i > H + W
      <4> DEFINE j == i - (H + W)
      <4>1. /\ j \in 1..P /\ j + 2 <= P /\ L + H + W + j = i
            /\ j + 1 \in 1..P /\ L + H + W + (j + 1) = i + 1
            /\ j + 2 \in 1..P /\ L + H + W + (j + 2) = i + 2
        BY <1>1, <2>1, <3>0, <3>4
      <4>2. m.path[j] = o[i] /\ m.path[j + 1] = o[i + 1] /\ m.path[j + 2] = o[i + 2]
        <5> HIDE DEF j
        <5> QED BY <1>1, <4>1
      <4> HIDE DEF j
      <4> QED BY <2>4, <3>0, <4>1, <4>2
    <3> QED BY <1>1, <3>1, <3>2, <3>3, <3>4
  <2> QED BY <1>1, <1>3, <2>5, PlaceOfUrl
<1>4. CASE m.scheme # <<>>
  <2>1. /\ L = 4 /\ m.scheme[1] \in Word
        /\ m.scheme[2] = ":" /\ m.scheme[3] = "/" /\ m.scheme[4] = "/"
    BY <1>4, SchemeIs
  <2>2. \A i \in {1, 2, 3, 4} : o[i] = m.scheme[i]
    <3> HIDE DEF o, L, H, W, P
    <3>1. {1, 2, 3, 4} \subseteq 1..L
      BY <2>1
    <3> QED BY <1>1, <3>1
  <2>3. 2 \in 1..Len(o) /\ 2 + 2 <= Len(o) /\ 2 + 1 = 3 /\ 2 + 2 = 4
    <3> HIDE DEF o, L, H, W, P
    <3> QED BY <1>1, <2>1
  <2>4. At(2)
    BY <2>1, <2>2, <2>3
  <2>5. ~At(1)
    BY <1>2, <2>1, <2>2 DEF Separator
  <2>6. \A j \in 1..2 - 1 : ~At(j)
    BY <2>5
  <2> HIDE DEF o
  <2> QED BY <1>1, <1>4, <2>3, <2>4, <2>6, PlaceOfUrl DEF o
<1> QED
  BY <1>3, <1>4

LEMMA SchemeRead ==
  ASSUME WellWritten, NEW m \in Meaning, Readable(m)
  PROVE  Scheme(TextOf(m)) = m.scheme
<1> DEFINE o == TextOf(m)
<1>1. Scheme(o) = IF Place(Url, o) = 0 THEN <<>> ELSE SubSeq(o, 1, Place(Url, o) + 2)
  BY DEF Scheme, Url
<1>2. CASE m.scheme = <<>>
  BY <1>1, <1>2, UrlPlace
<1>3. CASE m.scheme # <<>>
  <2>1. Scheme(o) = SubSeq(o, 1, 4)
    BY <1>1, <1>3, UrlPlace
  <2>2. Len(m.scheme) = 4 /\ m.scheme \in Text
    BY <1>3, SchemeIs, TextTyped
  <2>3. /\ o \in Text /\ Len(o) >= 4
        /\ \A i \in 1..4 : o[i] = m.scheme[i]
    <3> DEFINE L == Len(m.scheme)
               H == Len(m.host)
               W == Len(WithPort(m))
               P == Len(m.path)
    <3>1. /\ H \in Nat /\ W \in Nat /\ P \in Nat
          /\ o \in Text /\ Len(o) = L + H + W + P
          /\ \A i \in 1..L : o[i] = m.scheme[i]
      BY TextAt
    <3>2. L = 4
      BY <2>2
    <3> HIDE DEF o, L, H, W, P
    <3> QED BY <3>1, <3>2
  <2> HIDE DEF o
  <2>4. /\ SubSeq(o, 1, 4) \in Text /\ Len(SubSeq(o, 1, 4)) = 4
        /\ \A i \in 1..4 : SubSeq(o, 1, 4)[i] = o[i]
    <3>1. /\ SubSeq(o, 1, 4) \in Text /\ Len(SubSeq(o, 1, 4)) = 4 - 1 + 1
          /\ \A i \in 1..4 - 1 + 1 : SubSeq(o, 1, 4)[i] = o[1 + i - 1]
      BY <2>3, PartIs
    <3> QED BY <3>1
  <2>5. SubSeq(o, 1, 4) = m.scheme
    BY <2>2, <2>3, <2>4, SeqEqual DEF Text
  <2> QED BY <2>1, <2>5 DEF o
<1> QED
  BY <1>2, <1>3

(* What is behind the scheme: the host and the port have no slash.         *)
LEMMA PathRead ==
  ASSUME WellWritten, NEW m \in Meaning, Readable(m)
  PROVE  /\ Path(TextOf(m)) = m.path
         /\ Authority(TextOf(m)) = m.host \o WithPort(m)
<1> DEFINE L == Len(m.scheme)
           H == Len(m.host)
           W == Len(WithPort(m))
           P == Len(m.path)
           o == TextOf(m)
           b == SubSeq(o, L + 1, Len(o))
           p == PathPlace(o)
           a == m.host \o WithPort(m)
<1>1. /\ L \in Nat /\ H \in Nat /\ W \in Nat /\ P \in Nat /\ H >= 1
      /\ o \in Text /\ Len(o) = L + H + W + P
      /\ \A i \in 1..L : o[i] = m.scheme[i]
      /\ \A i \in 1..H : o[L + i] = m.host[i]
      /\ \A i \in 1..W : o[L + H + i] = WithPort(m)[i]
      /\ \A i \in 1..P : o[L + H + W + i] = m.path[i]
  BY TextAt
<1>2. Scheme(o) = m.scheme
  BY SchemeRead
<1>3. p = Place(<<"/">>, b)
  BY <1>2 DEF PathPlace, After
<1>4. Path(o) = IF p = 0 THEN <<>> ELSE SubSeq(o, L + p - 1 + 1, Len(o))
  BY <1>2 DEF Path, After
<1>5. Authority(o) = SubSeq(o, L + 1, Len(o) - Len(Path(o)))
  BY <1>2 DEF Authority
<1>6. /\ \A i \in 1..H : m.host[i] # "/"
      /\ \A i \in 1..W : WithPort(m)[i] # "/"
  <2>1. \/ W = 0
        \/ /\ W = 2 /\ WithPort(m)[1] = ":" /\ WithPort(m)[2] \in Word
    BY PortIs
  <2>2. \A c \in Separator : c \notin Word
    BY WordAssumption
  <2>3. \A i \in 1..W : i = 1 \/ i = 2
    <3> HIDE DEF W
    <3> QED BY <2>1
  <2>4. ":" # "/" /\ "/" \notin Word
    BY <2>2 DEF Separator
  <2> HIDE DEF W
  <2>5. \A i \in 1..W : WithPort(m)[i] # "/"
    BY <1>1, <2>1, <2>3, <2>4
  <2> QED BY <2>5, HostIs
<1>7. /\ m.path \in Text /\ m.host \in Text /\ WithPort(m) \in Text
      /\ a \in Text /\ Len(a) = H + W
      /\ \A i \in 1..H : a[i] = m.host[i]
      /\ \A i \in 1..W : a[H + i] = WithPort(m)[i]
  BY TextTyped, JoinIs
<1>8. \/ m.path = <<>> /\ P = 0
      \/ m.path # <<>> /\ P >= 1 /\ m.path[1] = "/"
  BY PathIs
<1> HIDE DEF o, L, H, W, P, a, p
<1>9. /\ b \in Text /\ Len(b) = H + W + P
      /\ \A i \in 1..H + W + P : b[i] = o[L + i]
  <2>1. L + 1 \in Nat \ {0} /\ Len(o) \in Nat /\ Len(o) <= Len(o)
    BY <1>1
  <2>2. /\ b \in Text
        /\ Len(b) = IF L + 1 <= Len(o) THEN Len(o) - (L + 1) + 1 ELSE 0
        /\ \A i \in 1..Len(o) - (L + 1) + 1 : b[i] = o[(L + 1) + i - 1]
    BY <1>1, <2>1, PartIs
  <2>3. /\ L + 1 <= Len(o) /\ Len(o) - (L + 1) + 1 = H + W + P
        /\ \A i \in 1..H + W + P : (L + 1) + i - 1 = L + i
    BY <1>1
  <2> HIDE DEF b
  <2> QED BY <2>2, <2>3
<1> HIDE DEF b
<1>10. \A i \in 1..H + W : b[i] = a[i] /\ b[i] # "/"
  <2> SUFFICES ASSUME NEW i \in 1..H + W PROVE b[i] = a[i] /\ b[i] # "/"
    OBVIOUS
  <2>1. b[i] = o[L + i]
    BY <1>1, <1>9
  <2>2. CASE i <= H
    BY <1>1, <1>6, <1>7, <2>1, <2>2
  <2>3. CASE i > H
    <3> DEFINE j == i - H
    <3>0. L \in Nat /\ H \in Nat /\ W \in Nat
      BY <1>1
    <3>1. j \in 1..W /\ H + j = i /\ L + H + j = L + i
      BY <3>0, <2>3
    <3> HIDE DEF j
    <3>2. o[L + H + j] = WithPort(m)[j] /\ a[H + j] = WithPort(m)[j]
      BY <1>1, <1>7, <3>1
    <3>3. WithPort(m)[j] # "/"
      BY <1>6, <3>1
    <3> QED BY <2>1, <3>1, <3>2, <3>3
  <2> QED BY <1>1, <2>2, <2>3
<1>11. Path(o) = m.path
  <2>1. CASE m.path = <<>>
    <3>1. \A i \in 1..Len(b) : b[i] # "/"
      BY <1>1, <1>8, <1>9, <1>10, <2>1
    <3>2. p = 0
      BY <1>3, <1>9, <3>1, PlaceOfOne DEF Token, Separator
    <3> QED BY <1>4, <2>1, <3>2
  <2>2. CASE m.path # <<>>
    <3>1. P >= 1 /\ m.path[1] = "/"
      BY <1>8, <2>2
    <3> DEFINE k == H + W + 1
    <3>2. /\ k \in 1..Len(b) /\ k - 1 = H + W /\ L + k = L + H + W + 1
          /\ 1 \in 1..P /\ k \in 1..H + W + P
      BY <1>1, <1>9, <3>1
    <3>3. b[k] = "/"
      <4> HIDE DEF k
      <4> QED BY <1>1, <1>9, <3>1, <3>2
    <3>4. \A j \in 1..k - 1 : b[j] # "/"
      BY <1>10, <3>2
    <3>5. p = k
      <4> HIDE DEF k
      <4> QED BY <1>3, <1>9, <3>2, <3>3, <3>4, PlaceOfOne DEF Token, Separator
    <3> DEFINE n == L + H + W + 1
    <3>6. n \in Nat \ {0} /\ L + p - 1 + 1 = n /\ p # 0 /\ Len(o) \in Nat /\ n <= Len(o)
      BY <1>1, <3>1, <3>5
    <3>7. Path(o) = SubSeq(o, n, Len(o))
      BY <1>4, <3>6
    <3>8. /\ SubSeq(o, n, Len(o)) \in Text
          /\ Len(SubSeq(o, n, Len(o))) = Len(o) - n + 1
          /\ \A i \in 1..Len(o) - n + 1 : SubSeq(o, n, Len(o))[i] = o[n + i - 1]
      <4> HIDE DEF n
      <4>1. Len(o) <= Len(o)
        BY <3>6
      <4> QED BY <1>1, <3>6, <4>1, PartIs
    <3>9. /\ Len(o) - n + 1 = P
          /\ \A i \in 1..P : n + i - 1 = L + H + W + i
      BY <1>1
    <3> HIDE DEF n
    <3>10. \A i \in 1..P : SubSeq(o, n, Len(o))[i] = m.path[i]
      BY <1>1, <3>8, <3>9
    <3>11. SubSeq(o, n, Len(o)) = m.path
      <4>1. Len(m.path) = P
        BY DEF P
      <4> DEFINE v == SubSeq(o, n, Len(o))
      <4>2. v \in Text /\ Len(v) = Len(m.path) /\ \A i \in 1..Len(v) : v[i] = m.path[i]
        BY <3>8, <3>9, <3>10, <4>1
      <4> HIDE DEF v
      <4>3. v = m.path
        BY <1>7, <4>2, SeqEqual DEF Text
      <4> QED BY <4>3 DEF v
    <3> QED BY <3>7, <3>11
  <2> QED BY <2>1, <2>2
<1>12. Authority(o) = a
  <2> DEFINE n == Len(o) - P
             v == SubSeq(o, L + 1, n)
  <2>1. n \in Nat /\ n <= Len(o) /\ n = L + H + W /\ L + 1 \in Nat \ {0} /\ L + 1 <= n
    BY <1>1
  <2>2. Authority(o) = v
    BY <1>5, <1>11 DEF P
  <2> HIDE DEF n
  <2>3. /\ v \in Text /\ Len(v) = n - (L + 1) + 1
        /\ \A i \in 1..n - (L + 1) + 1 : v[i] = o[(L + 1) + i - 1]
    BY <1>1, <2>1, PartIs
  <2>4. /\ n - (L + 1) + 1 = H + W
        /\ \A i \in 1..H + W : (L + 1) + i - 1 = L + i
    BY <1>1, <2>1
  <2> HIDE DEF v
  <2>5. \A i \in 1..H + W : v[i] = o[L + i] /\ o[L + i] = b[i]
    BY <1>1, <1>9, <2>3, <2>4
  <2>6. \A i \in 1..H + W : v[i] = a[i]
    BY <1>10, <2>5
  <2>7. v = a
    BY <1>7, <2>3, <2>4, <2>6, SeqEqual DEF Text
  <2> QED BY <2>2, <2>7
<1> QED
  BY <1>11, <1>12 DEF o, a

(* The places of the host and the port.                                    *)
LEMMA AuthorityAt ==
  ASSUME NEW m \in Meaning
  PROVE  LET a == m.host \o WithPort(m)
             H == Len(m.host)
             W == Len(WithPort(m))
         IN  /\ a \in Text /\ H \in Nat /\ W \in Nat /\ H >= 1 /\ Len(a) = H + W
             /\ \A i \in 1..H : a[i] = m.host[i]
             /\ \A i \in 1..W : a[H + i] = WithPort(m)[i]
             /\ SubSeq(a, 1, H) = m.host
             /\ SubSeq(a, H + 1, H + W) = WithPort(m)
             /\ \A i, j \in 1..H : SubSeq(a, i, j) = SubSeq(m.host, i, j)
<1> DEFINE a == m.host \o WithPort(m)
           H == Len(m.host)
           W == Len(WithPort(m))
<1>1. /\ m.host \in Text /\ WithPort(m) \in Text /\ a \in Text
      /\ H \in Nat /\ W \in Nat /\ H >= 1 /\ Len(a) = H + W
      /\ \A i \in 1..H : a[i] = m.host[i]
      /\ \A i \in 1..W : a[H + i] = WithPort(m)[i]
  <2>1. m.host \in Text /\ WithPort(m) \in Text /\ m.host # <<>>
    BY TextTyped
  <2> QED BY <2>1, JoinIs DEF Text
<1>2. \A i, j \in 1..H : SubSeq(a, i, j) = SubSeq(m.host, i, j)
  BY <1>1, SubSeqOfConcat1 DEF Text
<1>3. SubSeq(a, 1, H) = m.host
  <2>1. SubSeq(m.host, 1, H) = m.host
    BY <1>1, SubSeqFull DEF Text
  <2>2. 1 \in 1..H /\ H \in 1..H
    BY <1>1
  <2> HIDE DEF a, H
  <2> QED BY <1>2, <2>1, <2>2
<1>4. SubSeq(a, H + 1, H + W) = WithPort(m)
  <2> DEFINE v == SubSeq(a, H + 1, H + W)
  <2>0. Len(WithPort(m)) = W
    OBVIOUS
  <2> HIDE DEF H, W, a
  <2>1. /\ v \in Text
        /\ Len(v) = IF H + 1 <= H + W THEN (H + W) - (H + 1) + 1 ELSE 0
        /\ \A i \in 1..(H + W) - (H + 1) + 1 : v[i] = a[(H + 1) + i - 1]
    <3>1. H + 1 \in Nat \ {0} /\ H + W \in Nat /\ H + W <= Len(a)
      BY <1>1
    <3> QED BY <1>1, <3>1, PartIs
  <2>2. /\ (H + W) - (H + 1) + 1 = W
        /\ \A i \in 1..W : (H + 1) + i - 1 = H + i
        /\ (IF H + 1 <= H + W THEN (H + W) - (H + 1) + 1 ELSE 0) = W
    BY <1>1
  <2> HIDE DEF v
  <2>3. Len(v) = W /\ \A i \in 1..W : v[i] = WithPort(m)[i]
    BY <1>1, <2>1, <2>2
  <2>4. v = WithPort(m)
    BY <1>1, <2>0, <2>1, <2>3, SeqEqual DEF Text
  <2> QED BY <2>4 DEF v
<1> QED
  BY <1>1, <1>2, <1>3, <1>4

LEMMA SplitRead ==
  ASSUME WellWritten, NEW m \in Meaning, Readable(m)
  PROVE  SplitHostPort(m.host \o WithPort(m)) =
           [host |-> Unbracketed(m.host), port |-> m.port, hasPort |-> m.port # <<>>]
<1> DEFINE a == m.host \o WithPort(m)
           H == Len(m.host)
           W == Len(WithPort(m))
           close == Place(<<"]">>, a)
           rest == After(a, close)
           k == LastColon(a)
<1>1. /\ a \in Text /\ H \in Nat /\ W \in Nat /\ H >= 1 /\ Len(a) = H + W
      /\ \A i \in 1..H : a[i] = m.host[i]
      /\ \A i \in 1..W : a[H + i] = WithPort(m)[i]
      /\ SubSeq(a, 1, H) = m.host
      /\ SubSeq(a, H + 1, H + W) = WithPort(m)
      /\ \A i, j \in 1..H : SubSeq(a, i, j) = SubSeq(m.host, i, j)
  BY AuthorityAt
<1>2. \A c \in Separator : c \notin Word
  BY WordAssumption
<1>3. IsPrefix(<<"[">>, a) <=> m.host[1] = "["
  <2> HIDE DEF a, H, W
  <2>1. Len(a) >= 1 /\ a[1] = m.host[1]
    BY <1>1
  <2> QED BY <1>1, <2>1, PrefixOne DEF Token, Separator
<1>4. ASSUME m.port = <<>>
      PROVE  /\ a = m.host /\ WithPort(m) = <<>> /\ W = 0
             /\ ~IsPrefix(<<":">>, <<>>)
  <2>1. m.host \in Text /\ WithPort(m) = <<>> /\ W = 0
    BY <1>4, TextTyped, PortIs
  <2>2. m.host \o <<>> = m.host
    BY <2>1, ConcatEmptySeq DEF Text
  <2>3. <<>> \in Text /\ Len(<<>>) = 0
    BY DEF Text
  <2>4. ~IsPrefix(<<":">>, <<>>)
    BY <2>3, PrefixOne DEF Token, Separator
  <2> QED BY <2>1, <2>2, <2>4
<1>5. ASSUME m.port # <<>>
      PROVE  /\ W = 2 /\ WithPort(m)[1] = ":"
             /\ WithPort(m)[2] \notin Separator
             /\ m.port \in Text /\ Len(m.port) = 1 /\ m.port[1] = WithPort(m)[2]
  <2>1. PICK w \in Word : /\ m.port = <<w>> /\ W = 2
                          /\ WithPort(m)[1] = ":" /\ WithPort(m)[2] = w
    BY <1>5, PortIs
  <2>2. Len(<<w>>) = 1 /\ <<w>>[1] = w /\ w \notin Separator
    BY <1>2
  <2>3. m.port \in Text
    BY TextTyped
  <2> QED BY <2>1, <2>2, <2>3
<1>6. CASE m.host[1] # "["
  <2>1. /\ Unbracketed(m.host) = m.host
        /\ \A i \in 1..H : m.host[i] # ":"
    BY <1>6, HostIs
  <2>2. CASE m.port = <<>>
    <3>1. \A i \in 1..Len(a) : a[i] # ":"
      BY <1>4, <2>1, <2>2
    <3>2. k = 0
      BY <1>1, <3>1, LastColonIs
    <3>3. SplitHostPort(a) = [host |-> a, port |-> <<>>, hasPort |-> FALSE]
      BY <1>3, <1>6, <3>2 DEF SplitHostPort
    <3>4. a = Unbracketed(m.host)
      BY <1>4, <2>1, <2>2
    <3>5. SplitHostPort(a) =
            [host |-> Unbracketed(m.host), port |-> <<>>, hasPort |-> FALSE]
      <4> HIDE DEF a
      <4> QED BY <3>3, <3>4
    <3>6. [host |-> Unbracketed(m.host), port |-> <<>>, hasPort |-> FALSE] =
          [host |-> Unbracketed(m.host), port |-> m.port, hasPort |-> m.port # <<>>]
      BY <2>2
    <3> QED BY <3>5, <3>6
  <2>3. CASE m.port # <<>>
    <3>1. H + 1 \in 1..Len(a) /\ Len(a) = H + 2 /\ 1 \in 1..W /\ 2 \in 1..W
      <4> HIDE DEF a, H, W
      <4>1. W = 2
        BY <1>5, <2>3
      <4> QED BY <1>1, <4>1
    <3>2. a[H + 1] = ":" /\ a[H + 2] = WithPort(m)[2] /\ a[H + 2] # ":"
      <4>1. WithPort(m)[2] # ":"
        BY <1>5, <2>3 DEF Separator
      <4> HIDE DEF a, H, W
      <4> QED BY <1>1, <1>5, <2>3, <3>1, <4>1
    <3>3. \A j \in H + 1 + 1..Len(a) : a[j] # ":"
      <4> HIDE DEF a, H, W
      <4>1. \A j \in H + 1 + 1..Len(a) : j = H + 2
        BY <1>1, <3>1
      <4> QED BY <3>2, <4>1
    <3>4. k = H + 1
      <4> HIDE DEF a, H, W
      <4> QED BY <1>1, <3>1, <3>2, <3>3, LastColonIs
    <3>5. Before(a, k) = m.host
      <4>1. H + 1 - 1 = H
        BY <1>1
      <4> QED BY <1>1, <3>4, <4>1 DEF Before
    <3>6. After(a, k) = m.port
      <4> DEFINE v == SubSeq(a, H + 2, H + 2)
      <4>1. After(a, k) = v
        <5>1. H + 1 + 1 = H + 2
          BY <1>1
        <5> QED BY <3>1, <3>4, <5>1 DEF After
      <4>2. /\ v \in Text /\ Len(v) = 1 /\ v[1] = a[H + 2]
        <5> HIDE DEF a, H, W
        <5> DEFINE n == H + 2
        <5>1. n \in Nat \ {0} /\ n <= Len(a)
          BY <1>1, <3>1
        <5>2. n - n + 1 = 1 /\ n + 1 - 1 = n /\ n <= n
          BY <1>1
        <5> HIDE DEF n
        <5>3. /\ SubSeq(a, n, n) \in Text
              /\ Len(SubSeq(a, n, n)) = IF n <= n THEN n - n + 1 ELSE 0
              /\ \A i \in 1..n - n + 1 : SubSeq(a, n, n)[i] = a[n + i - 1]
          BY <1>1, <5>1, PartIs
        <5>4. /\ SubSeq(a, n, n) \in Text /\ Len(SubSeq(a, n, n)) = 1
              /\ SubSeq(a, n, n)[1] = a[n]
          <6>1. 1 \in 1..n - n + 1
            BY <5>2
          <6> QED BY <5>2, <5>3, <6>1
        <5> QED BY <5>4 DEF n
      <4> HIDE DEF v, a
      <4>3. \A i \in 1..Len(v) : v[i] = m.port[i]
        BY <1>5, <2>3, <3>2, <4>2
      <4>4. v = m.port
        BY <1>5, <2>3, <4>2, <4>3, SeqEqual DEF Text
      <4> QED BY <4>1, <4>4
    <3>7. k # 0
      BY <1>1, <3>4
    <3>8. SplitHostPort(a) = [host |-> Before(a, k), port |-> After(a, k), hasPort |-> TRUE]
      BY <1>3, <1>6, <3>7 DEF SplitHostPort
    <3> QED BY <2>1, <2>3, <3>5, <3>6, <3>8
  <2> QED BY <2>2, <2>3
<1>7. CASE m.host[1] = "["
  <2>1. /\ H >= 3 /\ m.host[H] = "]"
        /\ Unbracketed(m.host) = SubSeq(m.host, 2, H - 1)
        /\ \A i \in 2..H - 1 : m.host[i] # "]"
    BY <1>7, HostIs
  <2>2. close = H
    <3> HIDE DEF a, H, W
    <3>1. H \in 1..Len(a) /\ a[H] = "]"
      BY <1>1, <2>1
    <3>2. \A j \in 1..H - 1 : a[j] # "]"
      <4> SUFFICES ASSUME NEW j \in 1..H - 1 PROVE a[j] # "]"
        OBVIOUS
      <4>1. a[j] = m.host[j]
        BY <1>1
      <4>2. j = 1 \/ j \in 2..H - 1
        BY <1>1
      <4> QED BY <1>7, <2>1, <4>1, <4>2
    <3> QED BY <1>1, <3>1, <3>2, PlaceOfOne DEF Token, Separator
  <2>3. SubSeq(a, 2, close - 1) = Unbracketed(m.host)
    <3> HIDE DEF a, H, W
    <3>1. 2 \in 1..H /\ H - 1 \in 1..H
      BY <1>1, <2>1
    <3> QED BY <1>1, <2>1, <2>2, <3>1
  <2>4. rest = WithPort(m)
    BY <1>1, <2>2 DEF After
  <2>5. close # 0
    BY <1>1, <2>2
  <2>6. SplitHostPort(a) =
          [host |-> SubSeq(a, 2, close - 1),
           port |-> IF IsPrefix(<<":">>, rest) THEN Tail(rest) ELSE <<>>,
           hasPort |-> IsPrefix(<<":">>, rest)]
    BY <1>3, <1>7, <2>5 DEF SplitHostPort
  <2>7. CASE m.port = <<>>
    <3>1. ~IsPrefix(<<":">>, rest)
      BY <1>4, <2>4, <2>7
    <3>2. SplitHostPort(a) =
            [host |-> Unbracketed(m.host), port |-> <<>>, hasPort |-> FALSE]
      <4> HIDE DEF a, rest, close
      <4>1. IsPrefix(<<":">>, rest) = FALSE
        BY <3>1 DEF IsPrefix
      <4> QED BY <2>3, <2>6, <4>1
    <3>3. [host |-> Unbracketed(m.host), port |-> <<>>, hasPort |-> FALSE] =
          [host |-> Unbracketed(m.host), port |-> m.port, hasPort |-> m.port # <<>>]
      BY <2>7
    <3> QED BY <3>2, <3>3
  <2>8. CASE m.port # <<>>
    <3>1. WithPort(m) \in Text /\ WithPort(m) # <<>>
      BY <1>5, <2>8, TextTyped
    <3>2. IsPrefix(<<":">>, WithPort(m))
      BY <1>5, <2>8, <3>1, PrefixOne DEF Token, Separator
    <3>3. Tail(WithPort(m)) = m.port
      <4> DEFINE t == Tail(WithPort(m))
      <4>1. /\ t \in Text /\ Len(t) = W - 1
            /\ \A i \in 1..Len(t) : t[i] = WithPort(m)[i + 1]
        BY <3>1, HeadTailProperties DEF Text
      <4> HIDE DEF t, W
      <4>2. Len(t) = 1 /\ t[1] = WithPort(m)[2]
        BY <1>5, <2>8, <4>1
      <4>3. \A i \in 1..Len(t) : t[i] = m.port[i]
        BY <1>5, <2>8, <4>2
      <4>4. t = m.port
        BY <1>5, <2>8, <4>1, <4>2, <4>3, SeqEqual DEF Text
      <4> QED BY <4>4 DEF t
    <3> QED BY <2>3, <2>4, <2>6, <2>8, <3>2, <3>3
  <2> QED BY <2>7, <2>8
<1> QED
  BY <1>6, <1>7

-----------------------------------------------------------------------------
(* What a switch and a scan make of a text they read.                      *)

LEMMA PointsIs ==
  ASSUME NEW m \in Meaning, NEW f \in HostId
  PROVE  U!PointsAt(Abstract(m), Name(f)) <=>
           Folded(Unbracketed(m.host)) = Folded(Name(f))
<1>1. m.host \in HostTexts /\ Name(f) \in HostTexts
  BY NamesAreHosts DEF Meaning
<1>2. Abstract(m).host = m.host
  BY DEF Abstract
<1> QED
  BY <1>1, <1>2 DEF U!PointsAt

(* A switch finds the text where the record points.                        *)
LEMMA MatchesRead ==
  ASSUME WellWritten, NEW m \in Meaning, Readable(m), NEW f \in HostId
  PROVE  Matches(TextOf(m), Name(f)) <=> U!PointsAt(Abstract(m), Name(f))
<1>1. TextOf(m) # <<>>
  <2> DEFINE L == Len(m.scheme)
             H == Len(m.host)
             W == Len(WithPort(m))
             P == Len(m.path)
  <2>1. /\ L \in Nat /\ H \in Nat /\ W \in Nat /\ P \in Nat /\ H >= 1
        /\ Len(TextOf(m)) = L + H + W + P
    BY TextAt
  <2> HIDE DEF L, H, W, P
  <2>2. Len(TextOf(m)) # 0 /\ Len(<<>>) = 0
    BY <2>1
  <2> QED BY <2>2
<1>2. SplitHostPort(Authority(TextOf(m))).host = Unbracketed(m.host)
  <2>1. Authority(TextOf(m)) = m.host \o WithPort(m)
    BY PathRead
  <2> DEFINE whole == SplitHostPort(m.host \o WithPort(m))
             parts == [host |-> Unbracketed(m.host), port |-> m.port,
                       hasPort |-> m.port # <<>>]
  <2>2. whole.host = Unbracketed(m.host)
    <3>1. whole = parts
      BY SplitRead
    <3>2. parts.host = Unbracketed(m.host)
      OBVIOUS
    <3> HIDE DEF whole, parts
    <3> QED BY <3>1, <3>2
  <2> QED BY <2>1, <2>2
<1> QED
  BY <1>1, <1>2, PointsIs DEF Matches

(* Whether an origin has a port is seen from its rest.                     *)
LEMMA RestAt ==
  ASSUME WellWritten, NEW m \in Meaning
  PROVE  LET r == RestOf(m)
         IN  \E l \in {0, 4} :
               /\ Len(r) \in Nat
               /\ l = 4 => r[2] = ":" /\ r[3] = "/"
               /\ m.port # <<>> => /\ Len(r) >= l + 3 /\ r[l + 2] = ":"
                                   /\ r[l + 3] \in Word
               /\ m.port = <<>> => Len(r) = l + 1 \/ r[l + 2] = "/"
<1> DEFINE S == Token \cup {"host"}
           h == <<"host">>
           L == Len(m.scheme)
           W == Len(WithPort(m))
           P == Len(m.path)
           a == m.scheme \o h
           b == a \o WithPort(m)
           r == b \o m.path
<1>1. /\ m.scheme \in Seq(S) /\ WithPort(m) \in Seq(S) /\ m.path \in Seq(S)
      /\ h \in Seq(S) /\ Len(h) = 1
  <2>1. /\ m.scheme \in Seq(Token) /\ WithPort(m) \in Seq(Token)
        /\ m.path \in Seq(Token)
    BY TextTyped DEF Text
  <2>2. Token \subseteq S /\ "host" \in S
    OBVIOUS
  <2> HIDE DEF S
  <2>3. h \in Seq(S) /\ Len(h) = 1
    BY <2>2
  <2> QED BY <2>1, <2>2, <2>3, SeqMonotonic
<1> HIDE DEF S, h
<1>2. L \in Nat /\ W \in Nat /\ P \in Nat
  BY <1>1
<1>3. /\ a \in Seq(S) /\ Len(a) = L + 1
      /\ \A i \in 1..L : a[i] = m.scheme[i]
  BY <1>1, JoinOf
<1> HIDE DEF a
<1>4. /\ b \in Seq(S) /\ Len(b) = Len(a) + W
      /\ \A i \in 1..Len(a) : b[i] = a[i]
      /\ \A i \in 1..W : b[Len(a) + i] = WithPort(m)[i]
  <2> DEFINE y == WithPort(m)
  <2>1. a \in Seq(S) /\ y \in Seq(S)
    BY <1>1, <1>3
  <2> HIDE DEF y
  <2>2. /\ a \o y \in Seq(S) /\ Len(a \o y) = Len(a) + Len(y)
        /\ \A i \in 1..Len(a) : (a \o y)[i] = a[i]
        /\ \A i \in 1..Len(y) : (a \o y)[Len(a) + i] = y[i]
    BY <2>1, JoinOf
  <2> QED BY <2>2 DEF y
<1> HIDE DEF b
<1>5. /\ r \in Seq(S) /\ Len(r) = Len(b) + P
      /\ \A i \in 1..Len(b) : r[i] = b[i]
      /\ \A i \in 1..P : r[Len(b) + i] = m.path[i]
  <2> DEFINE y == m.path
  <2>1. b \in Seq(S) /\ y \in Seq(S)
    BY <1>1, <1>4
  <2> HIDE DEF y
  <2>2. /\ b \o y \in Seq(S) /\ Len(b \o y) = Len(b) + Len(y)
        /\ \A i \in 1..Len(b) : (b \o y)[i] = b[i]
        /\ \A i \in 1..Len(y) : (b \o y)[Len(b) + i] = y[i]
    BY <2>1, JoinOf
  <2> QED BY <2>2 DEF y
<1> HIDE DEF r, L, W, P
<1>6. L = 0 \/ (L = 4 /\ m.scheme[2] = ":" /\ m.scheme[3] = "/")
  BY SchemeIs DEF L
<1>7. \/ m.port = <<>> /\ W = 0
      \/ /\ m.port # <<>> /\ W = 2 /\ WithPort(m)[1] = ":"
         /\ WithPort(m)[2] \in Word
  BY PortIs DEF W
<1>8. P = 0 \/ (P >= 1 /\ m.path[1] = "/")
  BY PathIs DEF P
<1>9. \A i \in 1..L : r[i] = m.scheme[i]
  BY <1>2, <1>3, <1>4, <1>5
<1>10. L = 4 => r[2] = ":" /\ r[3] = "/"
  <2>1. L = 4 => 2 \in 1..L /\ 3 \in 1..L
    OBVIOUS
  <2> QED BY <1>6, <1>9, <2>1
<1>11. m.port # <<>> => /\ Len(r) >= L + 3 /\ r[L + 2] = ":" /\ r[L + 3] \in Word
  <2> SUFFICES ASSUME m.port # <<>>
               PROVE  Len(r) >= L + 3 /\ r[L + 2] = ":" /\ r[L + 3] \in Word
    OBVIOUS
  <2>1. W = 2
    BY <1>7
  <2>2. /\ 1 \in 1..W /\ 2 \in 1..W /\ Len(a) + 1 = L + 2 /\ Len(a) + 2 = L + 3
        /\ L + 2 \in 1..Len(b) /\ L + 3 \in 1..Len(b)
    BY <1>2, <1>3, <1>4, <2>1
  <2>3. b[L + 2] = WithPort(m)[1] /\ b[L + 3] = WithPort(m)[2]
    BY <1>4, <2>2
  <2> QED BY <1>2, <1>3, <1>4, <1>5, <1>7, <2>1, <2>2, <2>3
<1>12. m.port = <<>> => Len(r) = L + 1 \/ r[L + 2] = "/"
  <2> SUFFICES ASSUME m.port = <<>>
               PROVE  Len(r) = L + 1 \/ r[L + 2] = "/"
    OBVIOUS
  <2>1. W = 0 /\ Len(b) = L + 1
    BY <1>2, <1>3, <1>4, <1>7
  <2>2. CASE P = 0
    BY <1>2, <1>5, <2>1, <2>2
  <2>3. CASE P >= 1
    <3>1. 1 \in 1..P /\ Len(b) + 1 = L + 2
      BY <1>2, <2>1, <2>3
    <3> QED BY <1>5, <1>8, <2>3, <3>1
  <2> QED BY <1>8, <2>2, <2>3
<1>13. RestOf(m) = r
  BY DEF RestOf, r, b, a, h
<1>14. L \in {0, 4} /\ Len(r) \in Nat
  BY <1>2, <1>3, <1>4, <1>5, <1>6
<1> QED
  BY <1>10, <1>11, <1>12, <1>13, <1>14

LEMMA RestTells ==
  ASSUME WellWritten, NEW m \in Meaning, NEW x \in Meaning, RestOf(m) = RestOf(x)
  PROVE  m.port = <<>> <=> x.port = <<>>
<1>1. \A c \in Separator : c \notin Word
  BY WordAssumption
<1>2. "/" \notin Word /\ ":" \notin Word
  BY <1>1 DEF Separator
<1>3. ASSUME NEW p \in Meaning, NEW q \in Meaning, RestOf(p) = RestOf(q),
             p.port = <<>>, q.port # <<>>
      PROVE  FALSE
  <2> DEFINE r == RestOf(p)
  <2>1. PICK l \in {0, 4} :
          /\ Len(r) \in Nat
          /\ l = 4 => r[2] = ":" /\ r[3] = "/"
          /\ Len(r) = l + 1 \/ r[l + 2] = "/"
    BY <1>3, RestAt
  <2>2. PICK n \in {0, 4} :
          /\ n = 4 => r[2] = ":" /\ r[3] = "/"
          /\ Len(r) >= n + 3 /\ r[n + 2] = ":" /\ r[n + 3] \in Word
    BY <1>3, RestAt
  <2> HIDE DEF r
  <2>3. CASE l = 0
    <3>1. r[2] = ":"
      BY <2>2
    <3> QED BY <2>1, <2>2, <2>3, <3>1
  <2>4. CASE l = 4
    <3>1. n = 4
      BY <1>2, <2>1, <2>2, <2>4
    <3> QED BY <2>1, <2>2, <2>4, <3>1
  <2> QED BY <2>3, <2>4
<1> QED
  BY <1>3

(* The text with another host: what a switch from f to t makes of it.      *)
Moved(m, t) ==
  [m EXCEPT !.host = U!SwitchOriginHost(Abstract(m), Name(t)).host]

LEMMA MovedIs ==
  ASSUME NEW m \in Meaning, NEW t \in HostId
  PROVE  /\ Moved(m, t) \in Meaning
         /\ Moved(m, t) = [m EXCEPT !.host = Moved(m, t).host]
         /\ Moved(m, t).host \in {Name(t), Literal(Name(t))}
         /\ WellWritten =>
              Moved(m, t).host = IF m.port = <<>> THEN Name(t) ELSE Literal(Name(t))
<1> DEFINE R == {RestOf(y) : y \in {x \in Meaning : x.port # <<>>}}
           h == IF RestOf(m) \in R THEN Literal(Name(t)) ELSE Name(t)
<1>1. Name(t) \in HostTexts /\ Literal(Name(t)) \in HostTexts
  BY NamesAreHosts
<1>2. U!SwitchOriginHost(Abstract(m), Name(t)).host = h
  BY <1>1 DEF U!SwitchOriginHost, Abstract
<1>3. WellWritten => (RestOf(m) \in R <=> m.port # <<>>)
  BY RestTells
<1> HIDE DEF R
<1>4. Moved(m, t) = [m EXCEPT !.host = h]
  BY <1>2 DEF Moved
<1>5. h \in {Name(t), Literal(Name(t))}
  OBVIOUS
<1> HIDE DEF h
<1>6. Moved(m, t) \in Meaning /\ Moved(m, t).host = h
  BY <1>1, <1>4, <1>5 DEF Meaning
<1>7. WellWritten => h = IF m.port = <<>> THEN Name(t) ELSE Literal(Name(t))
  BY <1>3 DEF h
<1> QED
  BY <1>4, <1>5, <1>6, <1>7

LEMMA SwitchRead ==
  ASSUME WellWritten, NEW m \in Meaning, Readable(m), NEW t \in HostId
  PROVE  Rewritten(TextOf(m), Name(t)) = TextOf(Moved(m, t))
<1> DEFINE to == Name(t)
           n == Moved(m, t)
           old == SplitHostPort(Authority(TextOf(m)))
           new == IF old.hasPort THEN Literal(to) \o <<":">> \o old.port ELSE to
<1>1. n \in Meaning /\ n = [m EXCEPT !.host = n.host]
  BY MovedIs
<1>2. /\ n.scheme = m.scheme /\ n.port = m.port /\ n.path = m.path
  BY <1>1 DEF Meaning
<1>3. n.host = IF m.port = <<>> THEN to ELSE Literal(to)
  BY MovedIs
<1>4. WithPort(n) = WithPort(m)
  BY <1>2 DEF WithPort
<1>5. /\ Scheme(TextOf(m)) = m.scheme /\ Path(TextOf(m)) = m.path
      /\ Authority(TextOf(m)) = m.host \o WithPort(m)
  BY SchemeRead, PathRead
<1>6. old = [host |-> Unbracketed(m.host), port |-> m.port, hasPort |-> m.port # <<>>]
  BY <1>5, SplitRead
<1>7. /\ m.scheme \in Text /\ m.port \in Text /\ m.path \in Text
      /\ WithPort(n) \in Text /\ n.host \in Text
  BY <1>1, TextTyped
<1>8. new = n.host \o WithPort(n)
  <2>1. old.hasPort = (m.port # <<>>) /\ old.port = m.port
    BY <1>6
  <2> HIDE DEF old, n, to
  <2>2. CASE m.port = <<>>
    <3>1. new = to /\ n.host = to /\ WithPort(n) = <<>>
      BY <1>2, <1>3, <2>1, <2>2 DEF WithPort
    <3>2. n.host \o <<>> = n.host
      BY <1>7, ConcatEmptySeq DEF Text
    <3> QED BY <3>1, <3>2
  <2>3. CASE m.port # <<>>
    <3>1. /\ new = Literal(to) \o <<":">> \o m.port /\ n.host = Literal(to)
          /\ WithPort(n) = <<":">> \o m.port
      BY <1>2, <1>3, <2>1, <2>3 DEF WithPort
    <3>2. <<":">> \in Text
      BY DEF Text, Token, Separator
    <3>3. (n.host \o <<":">>) \o m.port = n.host \o (<<":">> \o m.port)
      BY <1>7, <3>2, JoinAssociative
    <3> QED BY <3>1, <3>3
  <2> QED BY <2>2, <2>3
<1>9. Rewritten(TextOf(m), to) = m.scheme \o new \o m.path
  BY <1>5 DEF Rewritten
<1> HIDE DEF n, new, to
<1>10. m.scheme \o (n.host \o WithPort(n)) = (m.scheme \o n.host) \o WithPort(n)
  BY <1>7, JoinAssociative
<1>11. TextOf(n) = n.scheme \o n.host \o WithPort(n) \o n.path
  BY DEF TextOf
<1>12. Rewritten(TextOf(m), to) = TextOf(n)
  BY <1>2, <1>8, <1>9, <1>10, <1>11
<1> QED
  BY <1>12 DEF n, to

(* A scan reads the same host and port.                                    *)
LEMMA ScanRead ==
  ASSUME WellWritten, NEW m \in Meaning, Readable(m),
         m.port = <<>> => ~Contains(m.host, ":")
  PROVE  /\ OriginHost(TextOf(m)) = Folded(m.host)
         /\ OriginPort(TextOf(m)) = Valued(m.port)
<1> DEFINE a == m.host \o WithPort(m)
           H == Len(m.host)
           W == Len(WithPort(m))
           s == Folded(a)
           k == LastColon(s)
           p == After(s, k)
<1>1. /\ a \in Text /\ H \in Nat /\ W \in Nat /\ H >= 1 /\ Len(a) = H + W
      /\ \A i \in 1..H : a[i] = m.host[i]
      /\ \A i \in 1..W : a[H + i] = WithPort(m)[i]
  BY AuthorityAt
<1>2. m.host \in Text /\ Len(m.host) = H /\ WithPort(m) \in Text
  BY TextTyped
<1>3. /\ s \in Text /\ Len(s) = Len(a)
      /\ \A i \in 1..Len(a) :
           /\ s[i] = IF a[i] \in Word THEN Lower[a[i]] ELSE a[i]
           /\ \A c \in Separator : s[i] = c <=> a[i] = c
  BY <1>1, FoldedIs
<1>4. /\ Folded(m.host) \in Text /\ Len(Folded(m.host)) = H
      /\ \A i \in 1..H :
           Folded(m.host)[i] = IF m.host[i] \in Word THEN Lower[m.host[i]] ELSE m.host[i]
  BY <1>2, FoldedIs
<1>5. NormalizeOrigin(TextOf(m)) = s
  BY PathRead DEF NormalizeOrigin
<1>6. OriginHost(TextOf(m)) = IF k > 1 THEN Before(s, k) ELSE s
  BY <1>5 DEF OriginHost
<1>7. OriginPort(TextOf(m)) =
        IF /\ k # 0 /\ Len(p) = 1 /\ p[1] \in DOMAIN Number
           /\ Number[p[1]] \in PortNumber
        THEN Number[p[1]] ELSE 0
  BY <1>5 DEF OriginPort
<1>8. ":" \in Separator /\ \A c \in Separator : c \notin Word
  BY WordAssumption DEF Separator
<1>9. CASE m.port = <<>>
  <2>1. a = m.host
    <3>1. WithPort(m) = <<>>
      BY <1>9 DEF WithPort
    <3>2. m.host \o <<>> = m.host
      BY <1>2, ConcatEmptySeq DEF Text
    <3> QED BY <3>1, <3>2
  <2>2. \A i \in 1..Len(a) : a[i] # ":"
    BY <1>2, <1>9, <2>1, ContainsIs
  <2> HIDE DEF a
  <2>3. \A i \in 1..Len(s) : s[i] # ":"
    BY <1>3, <1>8, <2>2
  <2>4. k = 0
    BY <1>3, <2>3, LastColonIs
  <2>5. OriginHost(TextOf(m)) = s /\ OriginPort(TextOf(m)) = 0
    BY <1>6, <1>7, <2>4
  <2> QED BY <1>9, <2>1, <2>5 DEF Valued
<1>10. CASE m.port # <<>>
  <2>1. PICK w \in DOMAIN Number :
          /\ m.port = <<w>> /\ w \in Word /\ Lower[w] = w /\ Number[w] \in PortNumber
          /\ W = 2 /\ WithPort(m)[1] = ":" /\ WithPort(m)[2] = w
    BY <1>10, PortIs
  <2> HIDE DEF a, H, W
  <2>2. /\ H + 1 \in 1..Len(a) /\ H + 2 \in 1..Len(a) /\ Len(a) = H + 2
        /\ 1 \in 1..W /\ 2 \in 1..W
    BY <1>1, <2>1
  <2>3. a[H + 1] = ":" /\ a[H + 2] = w
    BY <1>1, <2>1, <2>2
  <2> HIDE DEF s
  <2>4. s[H + 1] = ":" /\ s[H + 2] = w /\ w # ":"
    BY <1>3, <1>8, <2>1, <2>2, <2>3
  <2>5. k = H + 1
    <3>1. \A j \in H + 1 + 1..Len(s) : s[j] # ":"
      <4>1. \A j \in H + 1 + 1..Len(s) : j = H + 2
        BY <1>1, <1>3, <2>2
      <4> QED BY <2>4, <4>1
    <3> QED BY <1>3, <2>2, <2>4, <3>1, LastColonIs
  <2>6. Before(s, k) = Folded(m.host)
    <3> DEFINE v == SubSeq(s, 1, H)
    <3>1. Before(s, k) = v
      <4> HIDE DEF k
      <4>1. k - 1 = H
        BY <1>1, <2>5
      <4> QED BY <4>1 DEF Before
    <3>2. v \in Text /\ Len(v) = H /\ \A i \in 1..H : v[i] = s[i]
      <4>1. 1 \in Nat \ {0} /\ H <= Len(s) /\ 1 <= H /\ H - 1 + 1 = H
            /\ \A i \in 1..H : 1 + i - 1 = i
        BY <1>1, <1>3
      <4>2. /\ v \in Text /\ Len(v) = IF 1 <= H THEN H - 1 + 1 ELSE 0
            /\ \A i \in 1..H - 1 + 1 : v[i] = s[1 + i - 1]
        BY <1>1, <1>3, <4>1, PartIs
      <4> HIDE DEF v
      <4> QED BY <4>1, <4>2
    <3> HIDE DEF v
    <3>3. \A i \in 1..H : v[i] = Folded(m.host)[i]
      <4> SUFFICES ASSUME NEW i \in 1..H PROVE v[i] = Folded(m.host)[i]
        OBVIOUS
      <4>1. i \in 1..Len(a)
        BY <1>1
      <4> QED BY <1>1, <1>3, <1>4, <3>2, <4>1
    <3>4. v = Folded(m.host)
      BY <1>4, <3>2, <3>3, SeqEqual DEF Text
    <3> QED BY <3>1, <3>4
  <2>7. Len(p) = 1 /\ p[1] = w
    <3> DEFINE n == H + 2
    <3>1. /\ n \in Nat \ {0} /\ n <= Len(s) /\ H + 1 + 1 = n /\ Len(s) = n
          /\ n - n + 1 = 1 /\ n + 1 - 1 = n /\ n <= n
      BY <1>1, <1>3, <2>2
    <3>2. p = SubSeq(s, n, n)
      BY <2>5, <3>1 DEF After
    <3>3. s[n] = w
      BY <2>4
    <3> HIDE DEF n, p
    <3>4. /\ Len(SubSeq(s, n, n)) = IF n <= n THEN n - n + 1 ELSE 0
          /\ \A i \in 1..n - n + 1 : SubSeq(s, n, n)[i] = s[n + i - 1]
      BY <1>3, <3>1, PartIs
    <3>5. 1 \in 1..n - n + 1
      BY <3>1
    <3>6. Len(SubSeq(s, n, n)) = 1 /\ SubSeq(s, n, n)[1] = s[n]
      BY <3>1, <3>4, <3>5
    <3> QED BY <3>2, <3>3, <3>6
  <2>8. k > 1 /\ k # 0
    BY <1>1, <2>5
  <2> HIDE DEF k, p
  <2>9. OriginHost(TextOf(m)) = Folded(m.host) /\ OriginPort(TextOf(m)) = Number[w]
    BY <1>6, <1>7, <2>1, <2>6, <2>7, <2>8
  <2>10. Valued(m.port) = Number[w]
    <3>1. <<w>>[1] = w
      OBVIOUS
    <3> QED BY <1>10, <2>1, <3>1 DEF Valued
  <2> QED BY <2>9, <2>10
<1> QED
  BY <1>9, <1>10

-----------------------------------------------------------------------------
(* Types.                                                                  *)

(* What is meant is one origin or not known, and a label names one owner.  *)
TypeInv ==
  /\ origin \in Text
  /\ meant = {} \/ \E m \in Meaning : meant = {m}
  /\ putOn \subseteq HostId
  /\ label = {} \/ \E w \in Owner : label = {w}

(* The origin that a candidate of h becomes.                               *)
CandidateOf(h, port) ==
  [scheme |-> <<>>, host |-> Literal(AddressFor(h)), port |-> port, path |-> <<>>]

LEMMA CandidateIs ==
  ASSUME NEW h \in HostId, NEW port \in Ports, AddressFor(h) # <<>>, port # <<>>
  PROVE  /\ CandidateOf(h, port) \in Meaning
         /\ FormatAddr(AddressFor(h), port) = TextOf(CandidateOf(h, port))
<1> DEFINE m == CandidateOf(h, port)
<1>1. Literal(AddressFor(h)) \in HostTexts
  BY NamesAreHosts
<1>2. <<>> \in Schemes /\ <<>> \in Paths
  BY LifeAssumption
<1>3. /\ m.scheme = <<>> /\ m.host = Literal(AddressFor(h))
      /\ m.port = port /\ m.path = <<>>
  BY DEF CandidateOf
<1>4. m \in Meaning
  BY <1>1, <1>2 DEF CandidateOf, Meaning
<1>5. WithPort(m) = <<":">> \o port
  BY <1>3 DEF WithPort
<1>6. m.host \in Text /\ WithPort(m) \in Text /\ m.host \o WithPort(m) \in Text
  BY <1>4, TextTyped
<1>7. port \in Text /\ <<":">> \in Text /\ <<>> \in Text
  BY LifeAssumption DEF Text, Token, Separator
<1> HIDE DEF m
<1>8. TextOf(m) = ((<<>> \o m.host) \o WithPort(m)) \o <<>>
  BY <1>3 DEF TextOf
<1>9. TextOf(m) = m.host \o WithPort(m)
  <2>1. <<>> \o m.host = m.host
    BY <1>6, ConcatEmptySeq DEF Text
  <2>2. (m.host \o WithPort(m)) \o <<>> = m.host \o WithPort(m)
    BY <1>6, ConcatEmptySeq DEF Text
  <2> QED BY <1>8, <2>1, <2>2
<1>10. FormatAddr(AddressFor(h), port) = (m.host \o <<":">>) \o port
  BY <1>3 DEF FormatAddr
<1>11. (m.host \o <<":">>) \o port = m.host \o (<<":">> \o port)
  BY <1>6, <1>7, JoinAssociative
<1> QED
  BY <1>4, <1>5, <1>9, <1>10, <1>11 DEF m

LEMMA OwnersAre ==
  ASSUME NEW f \in HostId, NEW n,
         NEW services \in {Services[f], {}}, NEW containers \in {Containers[f], {}},
         NEW w \in Owners(n, services, containers)
  PROVE  w \in Owner /\ Publishes(w, n, f)
<1>1. Services[f] \subseteq ServicePort /\ Containers[f] \subseteq ContainerPort
  BY LifeAssumption
<1>2. \/ \E s \in Services[f] : s.port = n /\ w = OriginOwner("service", s.svc)
      \/ \E c \in Containers[f] :
           c.port = n /\ ~c.task /\ w = OriginOwner("container", c.ctr)
  BY DEF Owners
<1>3. ASSUME NEW s \in Services[f], s.port = n, w = OriginOwner("service", s.svc)
      PROVE  w \in Owner /\ Publishes(w, n, f)
  <2>1. s.svc \in Svc /\ s = [svc |-> s.svc, port |-> s.port]
    BY <1>1, <1>3 DEF ServicePort
  <2>2. w.kind = "service" /\ w.name = s.svc /\ w \in Owner
    BY <1>3, <2>1 DEF OriginOwner, Owner
  <2> QED BY <1>3, <2>1, <2>2 DEF Publishes
<1>4. ASSUME NEW c \in Containers[f], c.port = n, ~c.task,
             w = OriginOwner("container", c.ctr)
      PROVE  w \in Owner /\ Publishes(w, n, f)
  <2>1. /\ c.ctr \in Ctr /\ c.task = FALSE
        /\ c = [ctr |-> c.ctr, port |-> c.port, task |-> c.task]
    BY <1>1, <1>4 DEF ContainerPort
  <2>2. w.kind = "container" /\ w.name = c.ctr /\ w \in Owner
    BY <1>4, <2>1 DEF OriginOwner, Owner
  <2> QED BY <1>4, <2>1, <2>2 DEF Publishes
<1> QED
  BY <1>2, <1>3, <1>4

LEMMA InitTyped == Init => TypeInv
<1>1. <<>> \in Text
  BY DEF Text
<1> QED
  BY <1>1 DEF Init, TypeInv

LEMMA StepTyped ==
  ASSUME TypeInv, [Next]_vars
  PROVE  TypeInv'
<1>1. ASSUME NEW m \in Meaning, AdministratorWrites(m) PROVE TypeInv'
  BY <1>1, TextTyped DEF AdministratorWrites, Becomes, TypeInv
<1>2. ASSUME NEW h \in HostId, NEW port \in Ports, CandidateApplied(h, port)
      PROVE  TypeInv'
  <2>1. Becomes(FormatAddr(AddressFor(h), port), {CandidateOf(h, port)}, {h})
        /\ AddressFor(h) # <<>> /\ port # <<>>
    BY <1>2 DEF CandidateApplied, CandidateOf
  <2>2. CandidateOf(h, port) \in Meaning
        /\ FormatAddr(AddressFor(h), port) = TextOf(CandidateOf(h, port))
    BY <2>1, CandidateIs
  <2> QED BY <2>1, <2>2, TextTyped DEF Becomes, TypeInv
<1>3. ASSUME NEW f \in HostId, NEW t \in HostId, Switched(f, t) PROVE TypeInv'
  <2>1. /\ origin' = Rewritten(origin, Name(t)) /\ putOn' = {t} /\ label' = {}
        /\ meant' = {Moved(m, t) : m \in
             {x \in meant : Readable(x) /\ U!PointsAt(Abstract(x), Name(f))}}
    BY <1>3 DEF Switched, Becomes, Moved
  <2>2. origin' \in Text
    BY <2>1, RewrittenTyped, SuggestedTyped DEF TypeInv
  <2>3. meant' = {} \/ \E m \in Meaning : meant' = {Moved(m, t)}
    BY <2>1 DEF TypeInv
  <2>4. \A m \in Meaning : Moved(m, t) \in Meaning
    BY MovedIs
  <2> QED BY <2>1, <2>2, <2>3, <2>4 DEF TypeInv
<1>4. ASSUME NEW f \in HostId, Labelled(f) PROVE TypeInv'
  <2>1. /\ UNCHANGED <<origin, meant, putOn>>
        /\ \E services \in {Services[f], {}}, containers \in {Containers[f], {}} :
             \/ label' = {}
             \/ \E w \in Owners(OriginPort(origin), services, containers) : label' = {w}
    BY <1>4 DEF Labelled
  <2>2. label' = {} \/ \E w \in Owner : label' = {w}
    BY <2>1, OwnersAre
  <2> QED BY <2>1, <2>2 DEF TypeInv
<1>5. CASE UNCHANGED vars
  BY <1>5 DEF vars, TypeInv
<1> QED
  BY <1>1, <1>2, <1>3, <1>4, <1>5 DEF Next

(* Whatever the hosts, schemes and paths look like, an origin stays a text *)
(* of separators and words, and means at most one record of the bulk       *)
(* switch, whose host is one of the spellings a host can have.             *)
THEOREM OriginTyped == Spec => []TypeOK
<1>1. Init => TypeInv
  BY InitTyped
<1>2. TypeInv /\ [Next]_vars => TypeInv'
  BY StepTyped
<1>3. TypeInv => TypeOK
  <2>1. \A m : Cardinality({m}) = 1
    BY FS_Singleton
  <2>2. Cardinality({}) = 0
    BY FS_EmptySet
  <2>3. ASSUME TypeInv PROVE Cardinality(meant) <= 1
    <3>1. Cardinality(meant) = 0 \/ Cardinality(meant) = 1
      BY <2>1, <2>2, <2>3 DEF TypeInv
    <3> QED BY <3>1
  <2> QED BY <2>3 DEF TypeInv, TypeOK
<1> QED
  BY <1>1, <1>2, <1>3, PTL DEF Spec

-----------------------------------------------------------------------------
(* What the text keeps, when everything is written the way the code        *)
(* expects it.                                                             *)

TextInv == TypeInv /\ OnlyTheHostChanges

LEMMA InitText == Init => TextInv
  BY InitTyped DEF Init, TextInv, OnlyTheHostChanges

LEMMA StepText ==
  ASSUME WellWritten, TextInv, [Next]_vars
  PROVE  TextInv'
<1>1. TypeInv'
  BY StepTyped DEF TextInv
<1>2. ASSUME NEW m \in Meaning, AdministratorWrites(m) PROVE OnlyTheHostChanges'
  <2>1. origin' = TextOf(m) /\ meant' = {m}
    BY <1>2 DEF AdministratorWrites, Becomes
  <2> QED BY <2>1 DEF OnlyTheHostChanges
<1>3. ASSUME NEW h \in HostId, NEW port \in Ports, CandidateApplied(h, port)
      PROVE  OnlyTheHostChanges'
  <2>1. /\ origin' = FormatAddr(AddressFor(h), port) /\ meant' = {CandidateOf(h, port)}
        /\ AddressFor(h) # <<>> /\ port # <<>>
    BY <1>3 DEF CandidateApplied, CandidateOf, Becomes
  <2>2. FormatAddr(AddressFor(h), port) = TextOf(CandidateOf(h, port))
    BY <2>1, CandidateIs
  <2> QED BY <2>1, <2>2 DEF OnlyTheHostChanges
<1>4. ASSUME NEW f \in HostId, NEW t \in HostId, Switched(f, t)
      PROVE  OnlyTheHostChanges'
  <2>1. /\ origin' = Rewritten(origin, Name(t))
        /\ meant' = {Moved(m, t) : m \in
             {x \in meant : Readable(x) /\ U!PointsAt(Abstract(x), Name(f))}}
    BY <1>4 DEF Switched, Becomes, Moved
  <2>2. \A m \in meant : m \in Meaning /\ origin = TextOf(m)
    BY DEF TextInv, TypeInv, OnlyTheHostChanges
  <2>3. \A m \in meant : Readable(m) => origin' = TextOf(Moved(m, t))
    BY <2>1, <2>2, SwitchRead
  <2> QED BY <2>1, <2>3 DEF OnlyTheHostChanges
<1>5. ASSUME NEW f \in HostId, Labelled(f) PROVE OnlyTheHostChanges'
  BY <1>5 DEF Labelled, TextInv, OnlyTheHostChanges
<1>6. CASE UNCHANGED vars
  <2>1. origin' = origin /\ meant' = meant
    BY <1>6 DEF vars
  <2> QED BY <1>1, <2>1 DEF TextInv, OnlyTheHostChanges
<1> QED
  BY <1>1, <1>2, <1>3, <1>4, <1>5, <1>6 DEF Next, TextInv

LEMMA TextStays ==
  ASSUME WellWritten
  PROVE  Spec => []TextInv
<1>1. TextInv /\ [Next]_vars => TextInv'
  BY StepText
<1> QED
  BY <1>1, InitText, PTL DEF Spec

LEMMA TextReadAs ==
  ASSUME TextInv, NEW m \in meant
  PROVE  m \in Meaning /\ origin = TextOf(m)
BY DEF TextInv, TypeInv, OnlyTheHostChanges

(* For any hosts and parts written as the code expects them, and after any *)
(* number of switches, the text is the origin with its host exchanged and  *)
(* everything else kept.                                                   *)
THEOREM SwitchKeepsTheText ==
  ASSUME WellWritten
  PROVE  Spec => []OnlyTheHostChanges
<1>1. TextInv => OnlyTheHostChanges
  BY DEF TextInv
<1> QED
  BY <1>1, TextStays, PTL

(* A switch, which compares texts, finds an origin exactly when the record *)
(* that the bulk switch takes it for points at the source host.            *)
THEOREM SwitchFindsByText ==
  ASSUME WellWritten
  PROVE  Spec => []FoundWhereItPoints
<1>1. TextInv => FoundWhereItPoints
  BY TextReadAs, MatchesRead DEF FoundWhereItPoints
<1> QED
  BY <1>1, TextStays, PTL

(* A scan, which takes origins apart in a way of its own, reads the host   *)
(* and the port of that record.                                            *)
THEOREM ScanReadsTheRecord ==
  ASSUME WellWritten
  PROVE  Spec => []ScanReadsTheSame
<1>1. TextInv => ScanReadsTheSame
  BY TextReadAs, ScanRead DEF ScanReadsTheSame
<1> QED
  BY <1>1, TextStays, PTL

(* The host that the plugin wrote last is the name or the address of the   *)
(* host it was written for, with the brackets of a literal.                *)
WrittenFor(x, h) ==
  x \in {Name(h), Literal(Name(h)), Literal(AddressFor(h))}

OwnInv == \A m \in meant, h \in putOn : WrittenFor(m.host, h)

LEMMA StepOwn ==
  ASSUME TypeInv, OwnInv, [Next]_vars
  PROVE  OwnInv'
<1>1. ASSUME NEW m \in Meaning, AdministratorWrites(m) PROVE OwnInv'
  BY <1>1 DEF AdministratorWrites, Becomes, OwnInv
<1>2. ASSUME NEW h \in HostId, NEW port \in Ports, CandidateApplied(h, port)
      PROVE  OwnInv'
  <2>1. meant' = {CandidateOf(h, port)} /\ putOn' = {h}
    BY <1>2 DEF CandidateApplied, CandidateOf, Becomes
  <2>2. WrittenFor(CandidateOf(h, port).host, h)
    BY DEF CandidateOf, WrittenFor
  <2> QED BY <2>1, <2>2 DEF OwnInv
<1>3. ASSUME NEW f \in HostId, NEW t \in HostId, Switched(f, t) PROVE OwnInv'
  <2>1. /\ putOn' = {t}
        /\ meant' = {Moved(m, t) : m \in
             {x \in meant : Readable(x) /\ U!PointsAt(Abstract(x), Name(f))}}
    BY <1>3 DEF Switched, Becomes, Moved
  <2>2. \A m \in meant : WrittenFor(Moved(m, t).host, t)
    BY MovedIs DEF TypeInv, WrittenFor
  <2> QED BY <2>1, <2>2 DEF OwnInv
<1>4. ASSUME NEW f \in HostId, Labelled(f) PROVE OwnInv'
  BY <1>4 DEF Labelled, OwnInv
<1>5. CASE UNCHANGED vars
  BY <1>5 DEF vars, OwnInv
<1> QED
  BY <1>1, <1>2, <1>3, <1>4, <1>5 DEF Next

(* A spelling that got brackets begins with one.                           *)
LEMMA LiteralBegins ==
  ASSUME NEW x \in Text
  PROVE  Literal(x) = x \/ IsPrefix(<<"[">>, Literal(x))
<1>1. <<"[">> \in Text /\ <<"]">> \in Text /\ <<"[">> \o x \in Text
  BY JoinIs DEF Text, Token, Separator
<1>2. CASE Literal(x) = (<<"[">> \o x) \o <<"]">>
  <2> DEFINE y == (<<"[">> \o x) \o <<"]">>
  <2>1. Len(<<"[">>) = 1 /\ <<"[">>[1] = "[" /\ Len(<<"]">>) = 1 /\ Len(x) \in Nat
    BY DEF Text
  <2>2. 1 \in 1..Len(<<"[">>) /\ 1 \in 1..Len(<<"[">> \o x)
    BY <1>1, <2>1, JoinIs
  <2>3. y \in Text /\ Len(y) >= 1 /\ y[1] = "["
    BY <1>1, <2>1, <2>2, JoinIs
  <2> HIDE DEF y
  <2>4. IsPrefix(<<"[">>, y)
    <3>1. "[" \in Token
      BY DEF Token, Separator
    <3> QED BY <2>3, <3>1, PrefixOne
  <2> QED BY <1>2, <2>4 DEF y
<1> QED
  BY <1>2 DEF Literal

(* A scan recognises what the plugin wrote for a host as an origin of that *)
(* host, if no brackets were needed: whatever the name of the host, and    *)
(* whether it was a candidate or a switch that wrote it.                   *)
THEOREM ScanKnowsItsOwn ==
  ASSUME WellWritten
  PROVE  Spec => []ScanFindsItsOwn
<1> DEFINE Inv == TextInv /\ OwnInv
<1>1. Init => Inv
  BY InitText DEF Init, OwnInv
<1>2. Inv /\ [Next]_vars => Inv'
  BY StepText, StepOwn DEF TextInv
<1>3. Inv => ScanFindsItsOwn
  <2> SUFFICES ASSUME Inv, NEW m \in meant, NEW h \in putOn,
                      Readable(m), ~IsPrefix(<<"[">>, m.host)
               PROVE  OriginHost(origin) \in Allowed(h)
    BY DEF ScanFindsItsOwn
  <2>1. m \in Meaning /\ h \in HostId /\ origin = TextOf(m)
    BY DEF TextInv, TypeInv, OnlyTheHostChanges
  <2>2. OriginHost(origin) = Folded(m.host)
    BY <2>1, ScanRead DEF Readable
  <2>3. Name(h) \in Text /\ AddressFor(h) \in Text
    BY <2>1, SuggestedTyped
  <2>4. m.host \in {Name(h), AddressFor(h)}
    BY <2>3, LiteralBegins DEF OwnInv, WrittenFor
  <2> QED BY <2>2, <2>4 DEF Allowed
<1> QED
  BY <1>1, <1>2, <1>3, PTL DEF Spec

LEMMA StepLabel ==
  ASSUME WellWritten, TextInv, LabelPublishesThePort, [Next]_vars
  PROVE  LabelPublishesThePort'
<1>1. ASSUME label' = {} PROVE LabelPublishesThePort'
  BY <1>1 DEF LabelPublishesThePort
<1>2. ASSUME NEW m \in Meaning, AdministratorWrites(m) PROVE label' = {}
  BY <1>2 DEF AdministratorWrites, Becomes
<1>3. ASSUME NEW h \in HostId, NEW port \in Ports, CandidateApplied(h, port)
      PROVE  label' = {}
  BY <1>3 DEF CandidateApplied, Becomes
<1>4. ASSUME NEW f \in HostId, NEW t \in HostId, Switched(f, t) PROVE label' = {}
  BY <1>4 DEF Switched, Becomes
<1>5. ASSUME NEW f \in HostId, Labelled(f) PROVE LabelPublishesThePort'
  <2>1. /\ Matches(origin, Name(f)) /\ UNCHANGED <<origin, meant, putOn>>
        /\ \E services \in {Services[f], {}}, containers \in {Containers[f], {}} :
             \/ label' = {}
             \/ \E w \in Owners(OriginPort(origin), services, containers) : label' = {w}
    BY <1>5 DEF Labelled
  <2>2. \A w \in label' : Publishes(w, OriginPort(origin), f)
    BY <2>1, OwnersAre
  <2>3. ASSUME NEW m \in meant, Readable(m), m.port # <<>>
        PROVE  /\ U!PointsAt(Abstract(m), Name(f))
               /\ OriginPort(origin) = Valued(m.port)
    <3>1. m \in Meaning /\ origin = TextOf(m)
      BY DEF TextInv, TypeInv, OnlyTheHostChanges
    <3> QED BY <2>1, <2>3, <3>1, MatchesRead, ScanRead
  <2>4. \A m \in meant, w \in label' : Readable(m) /\ m.port # <<>> =>
          \E h \in HostId : /\ U!PointsAt(Abstract(m), Name(h))
                            /\ Publishes(w, Valued(m.port), h)
    BY <2>2, <2>3
  <2> QED BY <2>1, <2>4 DEF LabelPublishesThePort
<1>6. CASE UNCHANGED vars
  BY <1>6 DEF vars, LabelPublishesThePort
<1> QED
  BY <1>1, <1>2, <1>3, <1>4, <1>5, <1>6 DEF Next

(* Whatever the hosts publish, and with either list of a host unreadable,  *)
(* the owner a preview shows next to an origin publishes the origin's port *)
(* on a host the origin points at.                                         *)
THEOREM LabelIsTrue ==
  ASSUME WellWritten
  PROVE  Spec => []LabelPublishesThePort
<1> DEFINE Inv == TextInv /\ LabelPublishesThePort
<1>1. Init => Inv
  BY InitText DEF Init, LabelPublishesThePort
<1>2. Inv /\ [Next]_vars => Inv'
  BY StepText, StepLabel
<1> QED
  BY <1>1, <1>2, PTL DEF Spec
=============================================================================
