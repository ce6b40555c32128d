---------------------------- MODULE HostPageProofs ----------------------------
(***************************************************************************)
(* Theorems about HostPage, for any numbers of hosts, calls and other      *)
(* users: its types, how a page can come to a foreign CSRF token, that a   *)
(* save overwrites no host but the one its fields were filled from, which  *)
(* refusals the user is told of, and when the list is up to date.          *)
(***************************************************************************)
EXTENDS HostPage, TLAPS

USE SessionAssumption, PageAssumption

-----------------------------------------------------------------------------
(* The registry.                                                           *)

(* A map of hosts has a domain of ids and values that are hosts' data.     *)
LEMMA MapsAre ==
  \A f : f \in Registry!Maps <=>
           \E S \in SUBSET Id : f \in [S -> Data]
  BY DEF Registry!Maps

(* Storing a host gives a map, with this host's data changed and no other. *)
LEMMA PutIs ==
  ASSUME current \in Registry!States, NEW id \in Id, NEW d \in Data,
         Registry!Put(id, d)
  PROVE  /\ current' \in Registry!States
         /\ DOMAIN current'.hosts = DOMAIN current.hosts \cup {id}
         /\ \A i \in DOMAIN current.hosts :
              i # id => current'.hosts[i] = current.hosts[i]
<1> DEFINE new == [i \in DOMAIN current.hosts \cup {id} |->
                     IF i = id THEN d ELSE current.hosts[i]]
<1>1. /\ current.hosts \in Registry!Maps
      /\ current' = [hosts |-> new, polling |-> current.polling]
  BY DEF Registry!States, Registry!Put
<1>2. PICK S \in SUBSET Id : current.hosts \in [S -> Data]
  BY <1>1, MapsAre
<1>3. new \in [S \cup {id} -> Data]
  BY <1>2
<1>4. new \in Registry!Maps
  BY <1>3, MapsAre
<1>5. current' \in Registry!States
  BY <1>1, <1>4 DEF Registry!States
<1> QED
  BY <1>1, <1>2, <1>5

(* Removing a host gives a map, with the other hosts as they were.         *)
LEMMA DropIs ==
  ASSUME current \in Registry!States, NEW id, Registry!Drop(id)
  PROVE  /\ current' \in Registry!States
         /\ DOMAIN current'.hosts = DOMAIN current.hosts \ {id}
<1> DEFINE new == [i \in DOMAIN current.hosts \ {id} |-> current.hosts[i]]
<1>1. /\ current.hosts \in Registry!Maps
      /\ current' = [hosts |-> new, polling |-> current.polling]
  BY DEF Registry!States, Registry!Drop
<1>2. PICK S \in SUBSET Id : current.hosts \in [S -> Data]
  BY <1>1, MapsAre
<1>3. new \in [S \ {id} -> Data]
  BY <1>2
<1>4. new \in Registry!Maps
  BY <1>3, MapsAre
<1>5. current' \in Registry!States
  BY <1>1, <1>4 DEF Registry!States
<1> QED
  BY <1>1, <1>5

-----------------------------------------------------------------------------
(* Types.                                                                  *)

LEMMA NoCallTyped ==
  /\ NoCall \in Call
  /\ ListCall \in Call
<1>1. NoHosts \in Registry!Maps
  <2>1. NoHosts \in [{} -> Data]
    BY DEF NoHosts
  <2> QED BY <2>1, MapsAre
<1>2. (CHOOSE d \in Data : TRUE) \in Data
  OBVIOUS
<1>3. NoCall \in Call
  BY <1>1, <1>2 DEF NoCall, Call, IdOrNone, Answer
<1> QED
  BY <1>3 DEF ListCall, Call

(* Every step of the token keeps its type; the others leave it alone.      *)
LEMMA TokenTyped ==
  ASSUME TokenTypeOK,
         \/ ServePage \/ GetCSRFNotes \/ GetCSRFReads \/ OtherSessionNotes
         \/ LoadCSRF \/ UNCHANGED tokenVars
  PROVE  TokenTypeOK'
  BY DEF TokenTypeOK, ServePage, CSRFOfPage, GetCSRFNotes, GetCSRFReads,
         OtherSessionNotes, LoadCSRF, tokenVars, NoteCSRF, Header

LEMMA InitTyped == Init => PageTypeOK
<1> SUFFICES ASSUME Init PROVE PageTypeOK
  OBVIOUS
<1>1. TokenTypeOK
  BY DEF Init, TokenInit, TokenTypeOK
<1>2. current \in Registry!States
  BY DEF Init, Registry!States
<1>3. DOMAIN current.hosts \subseteq Id
  <2>1. PICK S \in SUBSET Id : current.hosts \in [S -> Data]
    BY <1>2, MapsAre DEF Registry!States
  <2> QED BY <2>1
<1>4. list \in Registry!Maps
  BY NoCallTyped DEF Init, NoCall, Call
<1>5. call \in [Slot -> Call]
  BY NoCallTyped DEF Init
<1>6. editor \in Editor
  BY DEF Init, Editor, AddEditor, IdOrNone
<1>7. calls \in 0..MaxCalls /\ others \in 0..MaxOthers
  BY PageAssumption DEF Init
<1>8. /\ {intact, bare, behind} \subseteq BOOLEAN /\ told \subseteq Answer
      /\ version \in Nat /\ newest \in Nat
  BY DEF Init
<1>9. DOMAIN current.hosts \subseteq drawn /\ drawn \subseteq Id
  BY <1>3 DEF Init
<1> QED
  BY <1>1, <1>2, <1>4, <1>5, <1>6, <1>7, <1>8, <1>9 DEF PageTypeOK

(* A call of the page takes another typed value; nothing else is needed.   *)
LEMMA BecomesTyped ==
  ASSUME call \in [Slot -> Call], NEW s \in Slot, NEW c \in Call, Becomes(s, c)
  PROVE  call' \in [Slot -> Call]
  BY DEF Becomes

LEMMA AnswersTyped ==
  ASSUME call \in [Slot -> Call], NEW s \in Slot,
         NEW ans \in Answer, NEW id \in IdOrNone,
         Answers(s, ans, id)
  PROVE  call' \in [Slot -> Call]
  BY NoCallTyped DEF Answers, Becomes, Call, Answer

LEMMA PressedTyped ==
  ASSUME PageTypeOK, NEW s \in Slot, NEW c \in Call, Presses(s, c)
  PROVE  PageTypeOK'
<1>1. [c EXCEPT !.st = "sent", !.token = token] \in Call
  BY DEF PageTypeOK, TokenTypeOK, Call
<1>2. call' \in [Slot -> Call]
  BY <1>1 DEF PageTypeOK, Presses
<1>3. calls' \in 0..MaxCalls
  BY PageAssumption DEF PageTypeOK, Presses
<1>4. TokenTypeOK'
  BY TokenTyped DEF PageTypeOK, Presses
<1> QED
  BY <1>2, <1>3, <1>4 DEF PageTypeOK, Presses, registryVars, pageVars

(* The steps of the user.                                                  *)
LEMMA UserTyped == PageTypeOK /\ UserStep => PageTypeOK'
<1> SUFFICES ASSUME PageTypeOK, UserStep PROVE PageTypeOK'
  OBVIOUS
<1> USE DEF PageTypeOK
<1>1. CASE \/ OpenAdd \/ Cancel \/ \E h \in Id : OpenEdit(h)
  <2>1. intact' \in BOOLEAN
    BY <1>1 DEF OpenAdd, Cancel, OpenEdit
  <2>4. editor' \in Editor
    <3>1. ASSUME OpenAdd PROVE editor' \in Editor
      BY <3>1 DEF OpenAdd, AddEditor, Editor, IdOrNone
    <3>2. ASSUME Cancel PROVE editor' \in Editor
      BY <3>2 DEF Cancel, Editor, IdOrNone
    <3>3. ASSUME NEW h \in Id, OpenEdit(h) PROVE editor' \in Editor
      BY <3>3 DEF OpenEdit, Editor, IdOrNone
    <3> QED BY <1>1, <3>1, <3>2, <3>3
  <2>2. TokenTypeOK'
    BY <1>1, TokenTyped DEF OpenAdd, Cancel, OpenEdit
  <2>3. UNCHANGED <<registryVars, list, newest, call, told, bare, behind, calls,
                        others>>
    BY <1>1 DEF OpenAdd, Cancel, OpenEdit
  <2> QED
    BY <2>1, <2>2, <2>3, <2>4 DEF registryVars
<1>2. ASSUME NEW s \in Slot, NEW d \in Data, PressSave(s, d)
      PROVE  PageTypeOK'
  <2>1. [NoCall EXCEPT !.kind = "save", !.id = editor.id, !.data = d,
                       !.shows = editor.shows, !.intact = intact] \in Call
    BY NoCallTyped DEF Call, Editor
  <2> QED BY <1>2, <2>1, PressedTyped DEF PressSave
<1>3. ASSUME NEW s \in Slot, NEW h \in Id, PressRemove(s, h)
      PROVE  PageTypeOK'
  <2>1. [NoCall EXCEPT !.kind = "remove", !.id = h] \in Call
    BY NoCallTyped DEF Call, IdOrNone
  <2> QED BY <1>3, <2>1, PressedTyped DEF PressRemove
<1> QED
  BY <1>1, <1>2, <1>3 DEF UserStep

(* The steps that change the registry keep the ids it knows among the ids  *)
(* that were drawn.                                                        *)
RegistryTyped ==
  /\ current \in Registry!States
  /\ DOMAIN current.hosts \subseteq drawn /\ drawn \subseteq Id
  /\ version \in Nat

LEMMA PutTyped ==
  ASSUME RegistryTyped, NEW id \in Id, NEW d \in Data, Registry!Put(id, d),
         drawn' = drawn \cup {id}, Changed
  PROVE  RegistryTyped'
  BY PutIs DEF RegistryTyped, Changed

LEMMA DropTyped ==
  ASSUME RegistryTyped, NEW id, Registry!Drop(id), UNCHANGED drawn, Changed
  PROVE  RegistryTyped'
  BY DropIs DEF RegistryTyped, Changed

(* The steps of a call.                                                    *)
LEMMA CallTyped ==
  ASSUME PageTypeOK, NEW s \in Slot, CallStep(s) PROVE PageTypeOK'
<1> USE DEF PageTypeOK
<1>0. RegistryTyped
  BY DEF RegistryTyped
<1>1. CASE NotLetThrough(s) \/ AnsweredElsewhere(s)
  <2>1. call' \in [Slot -> Call]
    BY <1>1, AnswersTyped DEF NotLetThrough, AnsweredElsewhere, IdOrNone, Answer
  <2>2. TokenTypeOK'
    BY <1>1, TokenTyped DEF NotLetThrough, AnsweredElsewhere
  <2> QED
    BY <1>1, <2>1, <2>2 DEF NotLetThrough, AnsweredElsewhere, registryVars, pageVars
<1>2. CASE HandleUpsertHost(s)
  <2> DEFINE Puts(id) == Registry!Put(id, call[s].data) /\ drawn' = drawn \cup {id}
             Answered == \E ans \in Answer, i \in IdOrNone : Answers(s, ans, i)
  <2>1. (UNCHANGED <<current, drawn>> \/ \E id \in Id : Puts(id)) /\ Answered
    <3>1. ASSUME Answers(s, "error", None) PROVE Answered
      BY <3>1 DEF IdOrNone, Answer
    <3>2. ASSUME NEW id \in IF call[s].id = None THEN Id \ drawn ELSE {call[s].id},
                 \/ Answers(s, "host", id)
                 \/ \E a \in {"error", "other"} : Answers(s, a, None)
          PROVE  id \in Id /\ Answered
      BY <3>2 DEF Call, IdOrNone, Answer
    <3> QED BY <1>2, <3>1, <3>2 DEF HandleUpsertHost
  <2>2. call[s].data \in Data
    BY DEF Call
  <2>3. RegistryTyped'
    <3>1. CASE UNCHANGED <<current, drawn>>
      BY <1>0, <1>2, <3>1 DEF HandleUpsertHost, RegistryTyped, Changed
    <3> QED
      BY <1>0, <1>2, <2>1, <2>2, <3>1, PutTyped DEF HandleUpsertHost
  <2>4. call' \in [Slot -> Call]
    BY <2>1, AnswersTyped
  <2>5. TokenTypeOK'
    BY <1>2, TokenTyped DEF HandleUpsertHost
  <2> QED
    BY <1>2, <2>3, <2>4, <2>5 DEF HandleUpsertHost, RegistryTyped, pageVars
<1>3. CASE HandleRemoveHost(s)
  <2>1. RegistryTyped'
    BY <1>0, <1>3, DropTyped DEF HandleRemoveHost
  <2>2. call' \in [Slot -> Call]
    BY <1>3, AnswersTyped DEF HandleRemoveHost, IdOrNone, Answer
  <2>3. TokenTypeOK'
    BY <1>3, TokenTyped DEF HandleRemoveHost
  <2> QED
    BY <1>3, <2>1, <2>2, <2>3 DEF HandleRemoveHost, RegistryTyped, pageVars
<1>4. CASE HandleGetConfig(s)
  <2>1. [NoCall EXCEPT !.st = "listed", !.snap = current.hosts, !.at = version]
          \in Call
    BY NoCallTyped DEF Call, Registry!States
  <2>2. call' \in [Slot -> Call]
    BY <1>4, <2>1, BecomesTyped DEF HandleGetConfig
  <2>3. TokenTypeOK'
    BY <1>4 DEF HandleGetConfig, TokenTypeOK, NoteCSRF, Header
  <2> QED
    BY <1>4, <2>2, <2>3 DEF HandleGetConfig, registryVars, pageVars
<1>5. CASE ReadSaved(s)
  <2>1. editor' \in Editor
    BY <1>5 DEF ReadSaved, Editor, Call
  <2>2. call' \in [Slot -> Call]
    BY <1>5, NoCallTyped, BecomesTyped DEF ReadSaved
  <2>3. TokenTypeOK'
    BY <1>5, TokenTyped DEF ReadSaved
  <2>4. told' \subseteq Answer
    BY <1>5 DEF ReadSaved, Call
  <2> QED
    BY <1>5, <2>1, <2>2, <2>3, <2>4 DEF ReadSaved, registryVars
<1>6. CASE ReadSaveFailed(s) \/ ReadRemoved(s) \/ CallFails(s)
  <2>1. call' \in [Slot -> Call]
    BY <1>6, NoCallTyped, BecomesTyped DEF ReadSaveFailed, ReadRemoved, CallFails
  <2>2. TokenTypeOK'
    BY <1>6, TokenTyped DEF ReadSaveFailed, ReadRemoved, CallFails
  <2> QED
    BY <1>6, <2>1, <2>2
       DEF ReadSaveFailed, ReadRemoved, CallFails, registryVars, pageVars
<1>7. CASE ReadConfig(s)
  <2>1. call' \in [Slot -> Call]
    BY <1>7, NoCallTyped, BecomesTyped DEF ReadConfig
  <2>2. TokenTypeOK'
    BY <1>7, TokenTyped DEF ReadConfig
  <2>3. /\ list' \in Registry!Maps
        /\ newest' \in Nat
        /\ behind' \in BOOLEAN
    BY <1>7 DEF ReadConfig, Call
  <2> QED
    BY <1>7, <2>1, <2>2, <2>3 DEF ReadConfig, registryVars
<1> QED
  BY <1>1, <1>2, <1>3, <1>4, <1>5, <1>6, <1>7 DEF CallStep

LEMMA OtherTyped == PageTypeOK /\ OthersChange => PageTypeOK'
<1> SUFFICES ASSUME PageTypeOK, OthersChange PROVE PageTypeOK'
  OBVIOUS
<1> USE DEF PageTypeOK
<1>1. RegistryTyped
  BY DEF RegistryTyped
<1>2. RegistryTyped'
  <2>1. CASE \E id \in Id, d \in Data :
               Registry!Put(id, d) /\ drawn' = drawn \cup {id}
    BY <1>1, <2>1, PutTyped DEF OthersChange
  <2>2. CASE \E id \in DOMAIN current.hosts :
               Registry!Drop(id) /\ UNCHANGED drawn
    BY <1>1, <2>2, DropTyped DEF OthersChange
  <2> QED
    BY <2>1, <2>2 DEF OthersChange
<1>3. TokenTypeOK'
  BY TokenTyped DEF OthersChange
<1>4. others' \in 0..MaxOthers
  BY PageAssumption DEF OthersChange
<1> QED
  BY <1>2, <1>3, <1>4 DEF RegistryTyped, OthersChange

LEMMA LoadTyped == PageTypeOK /\ (LoadStep \/ OtherSession) => PageTypeOK'
<1> SUFFICES ASSUME PageTypeOK, LoadStep \/ OtherSession PROVE PageTypeOK'
  OBVIOUS
<1> USE DEF PageTypeOK
<1>1. CASE OtherSession \/ ServePage \/ GetCSRFNotes \/ GetCSRFReads
  <2>1. TokenTypeOK'
    BY <1>1, TokenTyped DEF OtherSession
  <2>2. UNCHANGED <<registryVars, pageVars, call, calls, others>>
    BY <1>1 DEF OtherSession, LoadStep, PageLoaded, LoadCSRF, ServePage,
                GetCSRFNotes, GetCSRFReads, OtherSessionNotes
  <2> QED BY <2>1, <2>2 DEF registryVars, pageVars
<1>2. ASSUME NEW s \in Slot, PageLoaded(s) PROVE PageTypeOK'
  <2>1. TokenTypeOK'
    BY <1>2, TokenTyped DEF PageLoaded
  <2>2. call' \in [Slot -> Call]
    BY <1>2, NoCallTyped, BecomesTyped DEF PageLoaded
  <2> QED BY <1>2, <2>1, <2>2 DEF PageLoaded, registryVars, pageVars
<1> QED
  BY <1>1, <1>2 DEF LoadStep

LEMMA NextTyped == PageTypeOK /\ [Next]_vars => PageTypeOK'
<1> SUFFICES ASSUME PageTypeOK, [Next]_vars PROVE PageTypeOK'
  OBVIOUS
<1>1. CASE UNCHANGED vars
  <2>1. TokenTypeOK'
    BY <1>1, TokenTyped DEF PageTypeOK, vars
  <2> QED BY <1>1, <2>1 DEF PageTypeOK, vars, registryVars, pageVars
<1> QED
  BY <1>1, UserTyped, CallTyped, OtherTyped, LoadTyped DEF Next

(* A page's calls, its editor and the registry stay what they are declared *)
(* to be; in particular every host has an id that was drawn or known.      *)
THEOREM PageTypes == Spec => []PageTypeOK
<1>1. Init => PageTypeOK
  BY InitTyped
<1>2. PageTypeOK /\ [Next]_vars => PageTypeOK'
  BY NextTyped
<1> QED
  BY <1>1, <1>2, PTL DEF Spec

-----------------------------------------------------------------------------
(* The token.                                                              *)

(* What the page has not yet read is its own as well, unless crossed.      *)
Foreign(t) == t \notin {Own, None}

TokenInv ==
  /\ load # "loaded" => ~Foreign(token)
  /\ load = "noted" /\ Foreign(noted) => crossed
  /\ load = "answered" /\ Foreign(fetched) => crossed
  /\ TokenIsOwn

LEMMA TokenStep ==
  ASSUME TokenInv, [Next]_vars PROVE TokenInv'
<1> USE DEF TokenInv, TokenIsOwn, Foreign
<1>1. CASE ServePage \/ GetCSRFNotes \/ GetCSRFReads \/ LoadCSRF
  BY <1>1 DEF ServePage, CSRFOfPage, GetCSRFNotes, GetCSRFReads, LoadCSRF,
              NoteCSRF, Header
<1>2. CASE OtherSessionNotes
  BY <1>2 DEF OtherSessionNotes, NoteCSRF
<1>3. CASE \E s \in Slot : HandleGetConfig(s)
  BY <1>3 DEF HandleGetConfig, NoteCSRF, Header
<1>4. CASE UNCHANGED tokenVars
  BY <1>4 DEF tokenVars
<1>5. ASSUME NEW s \in Slot, CallStep(s), ~HandleGetConfig(s)
      PROVE  UNCHANGED tokenVars
  BY <1>5 DEF CallStep, NotLetThrough, AnsweredElsewhere, HandleUpsertHost,
              HandleRemoveHost, ReadSaved, ReadSaveFailed, ReadRemoved,
              ReadConfig, CallFails
<1>6. ASSUME UserStep PROVE UNCHANGED tokenVars
  BY <1>6 DEF UserStep, OpenAdd, OpenEdit, Cancel, PressSave, PressRemove, Presses
<1>7. ASSUME OthersChange PROVE UNCHANGED tokenVars
  BY <1>7 DEF OthersChange
<1> QED
  BY <1>1, <1>2, <1>3, <1>4, <1>5, <1>6, <1>7
     DEF Next, LoadStep, PageLoaded, OtherSession, vars

(* However sessions and requests interleave, and whatever token a cached   *)
(* copy of the page holds, a page has another session's token only if its  *)
(* own header was missing or the other's request came between the note and *)
(* the read of handleGetCSRF.                                              *)
THEOREM TokenStaysOwn == Spec => []TokenIsOwn
<1>1. Init => TokenInv
  BY SessionAssumption DEF Init, TokenInit, TokenInv, TokenIsOwn, Foreign
<1>2. TokenInv /\ [Next]_vars => TokenInv'
  BY TokenStep
<1>3. TokenInv => TokenIsOwn
  BY DEF TokenInv
<1> QED
  BY <1>1, <1>2, <1>3, PTL DEF Spec

-----------------------------------------------------------------------------
(* What a save overwrites.                                                 *)

(* An untouched editor saves the host it shows, and so does its call until *)
(* the plugin has handled it.                                              *)
EditorInv ==
  /\ intact => editor.id = editor.shows
  /\ \A s \in Slot :
       call[s].kind = "save" /\ call[s].st = "sent" /\ call[s].intact =>
         call[s].id = call[s].shows

LEMMA EditorInit == Init => EditorInv
  BY DEF Init, EditorInv, AddEditor, NoCall

(* A call that is given up, answered or goes on to load is no save on its  *)
(* way any more.                                                           *)
LEMMA OtherCallKeeps ==
  ASSUME PageTypeOK, EditorInv, NEW s \in Slot, NEW c, Becomes(s, c),
         c.st # "sent", intact' => editor'.id = editor'.shows
  PROVE  EditorInv'
  BY DEF PageTypeOK, EditorInv, Becomes

LEMMA EditorStep ==
  ASSUME PageTypeOK, EditorInv, [Next]_vars PROVE EditorInv'
<1>1. CASE \/ OpenAdd \/ Cancel \/ \E h \in Id : OpenEdit(h)
  <2>1. UNCHANGED call
    BY <1>1 DEF OpenAdd, Cancel, OpenEdit
  <2>2. intact' => editor'.id = editor'.shows
    <3>1. ASSUME OpenAdd PROVE editor'.id = editor'.shows
      BY <3>1 DEF OpenAdd, AddEditor
    <3>2. ASSUME Cancel PROVE intact' = FALSE
      BY <3>2 DEF Cancel
    <3>3. ASSUME NEW h \in Id, OpenEdit(h) PROVE editor'.id = editor'.shows
      BY <3>3 DEF OpenEdit
    <3> QED BY <1>1, <3>1, <3>2, <3>3
  <2> QED BY <2>1, <2>2 DEF EditorInv
<1>2. ASSUME NEW s \in Slot, NEW d \in Data, PressSave(s, d) PROVE EditorInv'
  <2> DEFINE c == [NoCall EXCEPT !.kind = "save", !.id = editor.id, !.data = d,
                                 !.shows = editor.shows, !.intact = intact]
             sent == [c EXCEPT !.st = "sent", !.token = token]
  <2>1. /\ call' = [call EXCEPT ![s] = sent]
        /\ UNCHANGED <<editor, intact>>
    BY <1>2 DEF PressSave, Presses, pageVars
  <2>2. sent.id = editor.id /\ sent.shows = editor.shows /\ sent.intact = intact
    BY DEF NoCall
  <2> HIDE DEF sent
  <2> QED BY <2>1, <2>2 DEF EditorInv, PageTypeOK
<1>3. ASSUME NEW s \in Slot, NEW h \in Id, PressRemove(s, h) PROVE EditorInv'
  <2> DEFINE c == [NoCall EXCEPT !.kind = "remove", !.id = h]
             sent == [c EXCEPT !.st = "sent", !.token = token]
  <2>1. /\ call' = [call EXCEPT ![s] = sent]
        /\ UNCHANGED <<editor, intact>>
    BY <1>3 DEF PressRemove, Presses, pageVars
  <2>2. sent.kind = "remove"
    BY DEF NoCall
  <2> HIDE DEF sent
  <2> QED BY <2>1, <2>2 DEF EditorInv, PageTypeOK
<1>4. ASSUME NEW s \in Slot, CallStep(s) PROVE EditorInv'
  <2>1. intact' => editor'.id = editor'.shows
    BY <1>4 DEF EditorInv, CallStep, NotLetThrough, AnsweredElsewhere,
         HandleUpsertHost, HandleRemoveHost, HandleGetConfig, ReadSaved, ReadSaveFailed,
         ReadRemoved, ReadConfig, CallFails, pageVars
  <2>2. \E c : Becomes(s, c) /\ c.st # "sent"
    <3>1. NoCall.st # "sent" /\ ListCall.st # "sent"
      BY DEF NoCall, ListCall
    <3>2. ASSUME NEW ans, NEW id, Answers(s, ans, id)
          PROVE  \E c : Becomes(s, c) /\ c.st # "sent"
      <4> DEFINE c == [NoCall EXCEPT !.st = "answered", !.kind = call[s].kind,
                                     !.ans = ans, !.id = id]
      <4>1. Becomes(s, c)
        BY <3>2 DEF Answers
      <4>2. c.st = "answered"
        BY DEF NoCall
      <4> HIDE DEF c
      <4> QED BY <4>1, <4>2
    <3>3. ASSUME HandleGetConfig(s)
          PROVE  \E c : Becomes(s, c) /\ c.st # "sent"
      <4> DEFINE c == [NoCall EXCEPT !.st = "listed", !.snap = current.hosts,
                                     !.at = version]
      <4>1. Becomes(s, c)
        BY <3>3 DEF HandleGetConfig
      <4>2. c.st = "listed"
        BY DEF NoCall
      <4> HIDE DEF c
      <4> QED BY <4>1, <4>2
    <3> QED
      BY <1>4, <3>1, <3>2, <3>3
         DEF CallStep, NotLetThrough, AnsweredElsewhere, HandleUpsertHost,
             HandleRemoveHost, ReadSaved, ReadSaveFailed, ReadRemoved, ReadConfig, CallFails
  <2> QED BY <2>1, <2>2, OtherCallKeeps
<1>5. ASSUME NEW s \in Slot, PageLoaded(s) PROVE EditorInv'
  <2>1. Becomes(s, ListCall) /\ UNCHANGED <<editor, intact>>
    BY <1>5 DEF PageLoaded, pageVars
  <2>2. ListCall.st # "sent"
    BY DEF NoCall, ListCall
  <2> QED BY <2>1, <2>2, OtherCallKeeps DEF EditorInv
<1>6. CASE UNCHANGED <<editor, intact, call>>
  BY <1>6 DEF EditorInv
<1> QED
  BY <1>1, <1>2, <1>3, <1>4, <1>5, <1>6
     DEF Next, LoadStep, OtherSession, OthersChange, UserStep, vars, pageVars

(* The step that overwrites is the handler's, for the id that was asked    *)
(* for: an id that is drawn names no host.                                 *)
LEMMA OverwritesAsked ==
  ASSUME PageTypeOK, [Next]_vars, NEW s \in Slot, NEW id \in Id, Overwrites(s, id)
  PROVE  call[s].id = id
<1>1. call'[s] # call[s]
  BY DEF Overwrites
<1>2. current' # current
  BY DEF Overwrites
<1>3. HandleUpsertHost(s)
  <2>1. ~(UserStep \/ LoadStep \/ OtherSession)
    BY <1>2 DEF UserStep, OpenAdd, OpenEdit, Cancel, PressSave, PressRemove,
         Presses, LoadStep, PageLoaded, OtherSession, registryVars
  <2>2. ~OthersChange /\ ~UNCHANGED vars
    BY <1>1 DEF OthersChange, vars
  <2>3. PICK t \in Slot : CallStep(t)
    BY <2>1, <2>2 DEF Next
  <2>4. HandleUpsertHost(t) \/ HandleRemoveHost(t)
    BY <1>2, <2>3 DEF CallStep, NotLetThrough, AnsweredElsewhere,
         HandleGetConfig, ReadSaved, ReadSaveFailed, ReadRemoved, ReadConfig, CallFails, registryVars
  <2>5. \E c : call' = [call EXCEPT ![t] = c]
    BY <2>4 DEF HandleUpsertHost, HandleRemoveHost, Answers, Becomes
  <2>6. t = s
    BY <1>1, <2>5 DEF PageTypeOK
  <2> QED
    BY <2>4, <2>6 DEF HandleRemoveHost, Overwrites
<1>4. PICK i \in IF call[s].id = None THEN Id \ drawn ELSE {call[s].id} :
        Registry!Put(i, call[s].data)
  BY <1>2, <1>3 DEF HandleUpsertHost
<1>5. i \in Id /\ call[s].data \in Data
  BY <1>4 DEF PageTypeOK, Call, IdOrNone
<1>6. i = id
  BY <1>4, <1>5, PutIs DEF PageTypeOK, Overwrites
<1>7. id \in drawn
  BY DEF PageTypeOK, Overwrites
<1> QED
  BY <1>4, <1>6, <1>7

(* For any number of calls under way, hosts and other users: a save from   *)
(* an editor that no answer has touched overwrites the host its fields     *)
(* were filled from, or none.                                              *)
THEOREM EditedHostOnly == Spec => OnlyTheEditedHostChanges
<1>1. Init => PageTypeOK /\ EditorInv
  BY InitTyped, EditorInit
<1>2. PageTypeOK /\ EditorInv /\ [Next]_vars => PageTypeOK' /\ EditorInv'
  BY NextTyped, EditorStep
<1>3. PageTypeOK /\ EditorInv /\ [Next]_vars =>
        [\A s \in Slot, id \in Id :
           Overwrites(s, id) /\ call[s].intact => call[s].shows = id]_vars
  BY OverwritesAsked DEF EditorInv, Overwrites
<1> QED
  BY <1>1, <1>2, <1>3, PTL DEF Spec, OnlyTheEditedHostChanges

-----------------------------------------------------------------------------
(* What the user is told.                                                  *)

Spoilt == bare \/ crossed

(* A call without the page's own token, and Zoraxy's refusal, need a       *)
(* spoilt page.                                                            *)
Backed(c, spoilt) ==
  /\ c.st = "sent" /\ c.token # Own => spoilt
  /\ c.st = "answered" /\ c.ans = "refused" => spoilt

(* A request that was not made yet was not crossed.                        *)
CrossedInv == load \in {"closed", "served"} => ~crossed

TellInv ==
  /\ CrossedInv
  /\ \A s \in Slot : Backed(call[s], Spoilt)
  /\ "error" \notin told
  /\ "refused" \in told => Spoilt

LEMMA TellInit == Init => TellInv
  BY DEF Init, TokenInit, TellInv, CrossedInv, Backed, NoCall

(* The steps that leave the token alone, but for HandleGetConfig.          *)
LEMMA TokenAlone ==
  ASSUME [Next]_vars
  PROVE  \/ ServePage \/ GetCSRFNotes \/ GetCSRFReads \/ LoadCSRF
         \/ OtherSessionNotes \/ UNCHANGED <<load, crossed>>
<1>1. ASSUME NEW s \in Slot, CallStep(s)
      PROVE  UNCHANGED <<load, crossed>>
  BY <1>1 DEF CallStep, NotLetThrough, AnsweredElsewhere, HandleUpsertHost,
              HandleRemoveHost, HandleGetConfig, ReadSaved, ReadSaveFailed,
              ReadRemoved, ReadConfig, CallFails, tokenVars
<1>2. ASSUME UserStep \/ OthersChange \/ UNCHANGED vars
      PROVE  UNCHANGED <<load, crossed>>
  BY <1>2 DEF UserStep, OpenAdd, OpenEdit, Cancel, PressSave, PressRemove,
              Presses, OthersChange, vars, tokenVars
<1> QED
  BY <1>1, <1>2 DEF Next, LoadStep, PageLoaded, OtherSession

(* A page that was crossed stays so.                                       *)
LEMMA CrossedStep ==
  ASSUME CrossedInv, [Next]_vars PROVE CrossedInv' /\ (crossed => crossed')
<1> USE DEF CrossedInv
<1>1. CASE ServePage
  BY <1>1 DEF ServePage
<1>2. CASE GetCSRFNotes
  BY <1>2 DEF GetCSRFNotes
<1>3. CASE GetCSRFReads \/ LoadCSRF
  BY <1>3 DEF GetCSRFReads, LoadCSRF
<1>4. CASE OtherSessionNotes
  BY <1>4 DEF OtherSessionNotes
<1>5. CASE UNCHANGED <<load, crossed>>
  BY <1>5
<1> QED
  BY <1>1, <1>2, <1>3, <1>4, <1>5, TokenAlone

(* A page that has sent a call without a token has.                        *)
LEMMA BareStep ==
  ASSUME [Next]_vars, bare PROVE bare'
<1>1. ASSUME NEW s \in Slot, CallStep(s) PROVE UNCHANGED bare
  BY <1>1 DEF CallStep, NotLetThrough, AnsweredElsewhere, HandleUpsertHost,
              HandleRemoveHost, HandleGetConfig, ReadSaved, ReadSaveFailed,
              ReadRemoved, ReadConfig, CallFails, pageVars
<1>2. ASSUME OthersChange \/ LoadStep \/ OtherSession \/ UNCHANGED vars
      PROVE  UNCHANGED bare
  BY <1>2 DEF OthersChange, LoadStep, PageLoaded, OtherSession, vars, pageVars
<1>3. ASSUME UserStep PROVE bare'
  BY <1>3 DEF UserStep, OpenAdd, OpenEdit, Cancel, PressSave, PressRemove,
              Presses
<1> QED
  BY <1>1, <1>2, <1>3 DEF Next

(* A call is pressed with the token the page has, or it is noted.          *)
LEMMA PressedBacked ==
  ASSUME TokenInv, token = None => bare', crossed => crossed',
         NEW c, c.st = "sent", c.token = token
  PROVE  Backed(c, Spoilt')
  BY DEF TokenInv, TokenIsOwn, Spoilt, Backed

(* What becomes of the calls in a step: none changes, one is pressed, or   *)
(* one goes on.                                                            *)
LEMMA TellCalls ==
  ASSUME PageTypeOK, TokenInv, TellInv, [Next]_vars, crossed => crossed',
         Spoilt => Spoilt'
  PROVE  \A s \in Slot : Backed(call[s], Spoilt)'
<1>0. /\ \A s \in Slot : Backed(call[s], Spoilt')
      /\ call \in [Slot -> Call]
  BY DEF TellInv, Backed, PageTypeOK
<1>1. ASSUME NEW s \in Slot, NEW c, Becomes(s, c), Backed(c, Spoilt')
      PROVE  \A t \in Slot : Backed(call'[t], Spoilt')
  BY <1>0, <1>1 DEF Becomes
<1>2. ASSUME NEW s \in Slot, NEW c, Presses(s, c), NEW sent,
             sent = [c EXCEPT !.st = "sent", !.token = token],
             sent.st = "sent", sent.token = token
      PROVE  \A t \in Slot : Backed(call'[t], Spoilt')
  <2>1. Backed(sent, Spoilt')
    BY <1>2, PressedBacked DEF Presses
  <2>2. Becomes(s, sent)
    BY <1>2 DEF Presses, Becomes
  <2> QED
    BY <1>1, <2>1, <2>2
<1>3. CASE UserStep
  <2>1. CASE UNCHANGED call
    BY <1>0, <2>1
  <2>2. ASSUME NEW s \in Slot, NEW d \in Data, PressSave(s, d)
        PROVE  \A t \in Slot : Backed(call'[t], Spoilt')
    <3> DEFINE c == [NoCall EXCEPT !.kind = "save", !.id = editor.id, !.data = d,
                                   !.shows = editor.shows, !.intact = intact]
               sent == [c EXCEPT !.st = "sent", !.token = token]
    <3>1. sent.st = "sent" /\ sent.token = token
      BY DEF NoCall
    <3>2. Presses(s, c)
      BY <2>2 DEF PressSave
    <3>3. sent = [c EXCEPT !.st = "sent", !.token = token]
      OBVIOUS
    <3> HIDE DEF c, sent
    <3> QED
      BY <1>2, <3>1, <3>2, <3>3
  <2>3. ASSUME NEW s \in Slot, NEW h \in Id, PressRemove(s, h)
        PROVE  \A t \in Slot : Backed(call'[t], Spoilt')
    <3> DEFINE c == [NoCall EXCEPT !.kind = "remove", !.id = h]
               sent == [c EXCEPT !.st = "sent", !.token = token]
    <3>1. sent.st = "sent" /\ sent.token = token
      BY DEF NoCall
    <3>2. Presses(s, c)
      BY <2>3 DEF PressRemove
    <3>3. sent = [c EXCEPT !.st = "sent", !.token = token]
      OBVIOUS
    <3> HIDE DEF c, sent
    <3> QED
      BY <1>2, <3>1, <3>2, <3>3
  <2> QED
    BY <1>3, <2>1, <2>2, <2>3 DEF UserStep, OpenAdd, OpenEdit, Cancel
<1>4. ASSUME NEW s \in Slot, CallStep(s)
      PROVE  \A t \in Slot : Backed(call'[t], Spoilt')
  <2>1. ASSUME NEW ans, NEW id, Answers(s, ans, id),
               ans # "refused" \/ Spoilt'
        PROVE  \A t \in Slot : Backed(call'[t], Spoilt')
    <3> DEFINE c == [NoCall EXCEPT !.st = "answered", !.kind = call[s].kind,
                                   !.ans = ans, !.id = id]
    <3>1. c.st = "answered" /\ c.ans = ans /\ Becomes(s, c)
      BY <2>1 DEF NoCall, Answers
    <3> HIDE DEF c
    <3> QED
      BY <1>1, <2>1, <3>1 DEF Backed
  <2>2. CASE NotLetThrough(s)
    BY <1>0, <2>1, <2>2 DEF NotLetThrough, Backed
  <2>3. CASE \/ AnsweredElsewhere(s) \/ HandleUpsertHost(s)
             \/ HandleRemoveHost(s)
    BY <2>1, <2>3 DEF AnsweredElsewhere, HandleUpsertHost, HandleRemoveHost
  <2>4. CASE HandleGetConfig(s)
    <3> DEFINE c == [NoCall EXCEPT !.st = "listed", !.snap = current.hosts,
                                   !.at = version]
    <3>1. c.st = "listed" /\ Becomes(s, c)
      BY <2>4 DEF NoCall, HandleGetConfig
    <3> HIDE DEF c
    <3> QED
      BY <1>1, <3>1 DEF Backed
  <2>5. CASE \/ ReadSaved(s) \/ ReadSaveFailed(s) \/ ReadRemoved(s)
             \/ ReadConfig(s) \/ CallFails(s)
    <3>1. Becomes(s, NoCall) \/ Becomes(s, ListCall)
      BY <2>5 DEF ReadSaved, ReadSaveFailed, ReadRemoved, ReadConfig, CallFails
    <3>2. Backed(NoCall, Spoilt') /\ Backed(ListCall, Spoilt')
      BY DEF NoCall, ListCall, Backed
    <3> QED
      BY <1>1, <3>1, <3>2
  <2> QED
    BY <1>4, <2>2, <2>3, <2>4, <2>5 DEF CallStep
<1>5. ASSUME NEW s \in Slot, PageLoaded(s)
      PROVE  \A t \in Slot : Backed(call'[t], Spoilt')
  <2>1. Becomes(s, ListCall) /\ Backed(ListCall, Spoilt')
    BY <1>5 DEF PageLoaded, NoCall, ListCall, Backed
  <2> QED
    BY <1>1, <2>1
<1>6. CASE UNCHANGED call
  BY <1>0, <1>6
<1>7. \A s \in Slot : Backed(call'[s], Spoilt')
  BY <1>3, <1>4, <1>5, <1>6
     DEF Next, LoadStep, OtherSession, OthersChange, vars
<1> QED
  BY <1>7

LEMMA TellStep ==
  ASSUME PageTypeOK, TokenInv, TellInv, [Next]_vars PROVE TellInv'
<1>1. CrossedInv' /\ (crossed => crossed') /\ (Spoilt => Spoilt')
  BY CrossedStep, BareStep DEF TellInv, Spoilt
<1>2. \A s \in Slot : Backed(call[s], Spoilt)'
  BY <1>1, TellCalls
<1>3. "error" \notin told' /\ ("refused" \in told' => Spoilt')
  <2>1. ASSUME NEW s \in Slot, ReadSaved(s)
        PROVE  "error" \notin told' /\ ("refused" \in told' => Spoilt')
    <3>1. /\ call[s].ans # "error"
          /\ told' = told \cup ({call[s].ans} \ {"host"})
      BY <2>1 DEF ReadSaved
    <3>2. call[s].ans = "refused" => Spoilt
      BY <2>1 DEF ReadSaved, TellInv, Backed
    <3> QED
      BY <1>1, <3>1, <3>2 DEF TellInv
  <2>2. ASSUME NEW s \in Slot, CallStep(s), ~ReadSaved(s) PROVE UNCHANGED told
    BY <2>2 DEF CallStep, NotLetThrough, AnsweredElsewhere, HandleUpsertHost,
                HandleRemoveHost, HandleGetConfig, ReadSaveFailed, ReadRemoved,
                ReadConfig, CallFails, pageVars
  <2>3. ASSUME \/ UserStep \/ OthersChange \/ LoadStep \/ OtherSession
               \/ UNCHANGED vars
        PROVE  UNCHANGED told
    BY <2>3 DEF UserStep, OpenAdd, OpenEdit, Cancel, PressSave, PressRemove,
                Presses, OthersChange, LoadStep, PageLoaded, OtherSession, vars,
                pageVars
  <2> QED
    BY <1>1, <2>1, <2>2, <2>3 DEF Next, TellInv
<1> QED
  BY <1>1, <1>2, <1>3 DEF TellInv

(* saveHost: however saves, answers, sessions and programs that answer     *)
(* for the plugin interleave, an error of the plugin is never shown as     *)
(* "Host saved", and Zoraxy's 403 only on a page that sent a call without  *)
(* a token, or whose request for one was crossed.                          *)
THEOREM RefusalsStayTold == Spec => []RefusalsAreTold
<1>1. Init => PageTypeOK /\ TokenInv /\ TellInv
  BY InitTyped, TellInit, SessionAssumption
     DEF Init, TokenInit, TokenInv, TokenIsOwn, Foreign
<1>2. PageTypeOK /\ TokenInv /\ TellInv /\ [Next]_vars =>
        PageTypeOK' /\ TokenInv' /\ TellInv'
  BY NextTyped, TokenStep, TellStep
<1>3. TellInv => RefusalsAreTold
  BY DEF TellInv, Spoilt, RefusalsAreTold
<1> QED
  BY <1>1, <1>2, <1>3, PTL DEF Spec

-----------------------------------------------------------------------------
(* The list on the page.                                                   *)

(* What was loaded of the latest version is what there is.                 *)
UpToDate(c, v, hosts) ==
  c.st = "listed" => c.at <= v /\ (c.at = v => c.snap = hosts)

(* The call will load the list there is by then, or has.                   *)
Reloads(c, v) ==
  c.st \in {"answered", "loading"} \/ (c.st = "listed" /\ c.at = v)

(* A list that is not behind is the one there is, or a call is under way   *)
(* that will replace it.                                                   *)
ListInv ==
  /\ newest <= version
  /\ \A s \in Slot : UpToDate(call[s], version, current.hosts)
  /\ ~behind => \/ newest = version /\ list = current.hosts
                \/ \E s \in Slot : Reloads(call[s], version)

LEMMA ListInit == Init => ListInv
  BY DEF Init, ListInv, UpToDate, NoCall

(* What was up to date before the registry changed is so, or is older.     *)
LEMMA ChangeKeeps ==
  ASSUME PageTypeOK, Changed, NEW s \in Slot,
         UpToDate(call[s], version, current.hosts)
  PROVE  UpToDate(call[s], version', current'.hosts)
<1>1. call[s].at \in Nat /\ version \in Nat
  BY DEF PageTypeOK, Call
<1>2. CASE current' = current
  BY <1>2 DEF Changed, UpToDate
<1>3. CASE current' # current
  BY <1>1, <1>3 DEF Changed, UpToDate
<1> QED
  BY <1>2, <1>3

(* A call of the page moves on and the registry stays.                     *)
LEMMA QuietCall ==
  ASSUME PageTypeOK, ListInv, NEW s \in Slot, NEW c, Becomes(s, c),
         UNCHANGED <<current, version, list, newest>>,
         UpToDate(c, version, current.hosts),
         \/ behind'
         \/ /\ UNCHANGED behind
            /\ Reloads(call[s], version) => Reloads(c, version)
  PROVE  ListInv'
<1>1. /\ call'[s] = c /\ \A t \in Slot \ {s} : call'[t] = call[t]
  BY DEF Becomes, PageTypeOK
<1>2. \A t \in Slot : UpToDate(call'[t], version', current'.hosts)
  BY <1>1 DEF ListInv
<1>3. ~behind' => \/ newest' = version' /\ list' = current'.hosts
                  \/ \E t \in Slot : Reloads(call'[t], version')
  <2> SUFFICES ASSUME ~behind', ~(newest = version /\ list = current.hosts)
               PROVE  \E t \in Slot : Reloads(call'[t], version')
    OBVIOUS
  <2>1. PICK t \in Slot : Reloads(call[t], version)
    BY DEF ListInv
  <2> QED
    BY <1>1, <2>1
<1> QED
  BY <1>2, <1>3 DEF ListInv

(* The plugin handles a save or a removal: the page loads the list when    *)
(* the answer comes.                                                       *)
LEMMA HandledKeepsList ==
  ASSUME PageTypeOK, ListInv, NEW s \in Slot, NEW ans, NEW id,
         Answers(s, ans, id), Changed, UNCHANGED <<list, newest, behind>>
  PROVE  ListInv'
<1> DEFINE c == [NoCall EXCEPT !.st = "answered", !.kind = call[s].kind,
                               !.ans = ans, !.id = id]
<1>1. c.st = "answered" /\ Becomes(s, c)
  BY DEF NoCall, Answers
<1> HIDE DEF c
<1>2. /\ call'[s] = c /\ \A t \in Slot \ {s} : call'[t] = call[t]
  BY <1>1 DEF Becomes, PageTypeOK
<1>3. \A t \in Slot : UpToDate(call[t], version', current'.hosts)
  BY ChangeKeeps DEF ListInv
<1>4. \A t \in Slot : UpToDate(call'[t], version', current'.hosts)
  <2>1. UpToDate(c, version', current'.hosts)
    BY <1>1 DEF UpToDate
  <2> QED
    BY <1>2, <1>3, <2>1
<1>5. Reloads(call'[s], version')
  BY <1>1, <1>2 DEF Reloads
<1>6. newest' <= version'
  BY DEF ListInv, Changed, PageTypeOK
<1> QED
  BY <1>4, <1>5, <1>6 DEF ListInv

(* The answer with the list comes, the latest one or an older one.         *)
LEMMA ReadConfigKeepsList ==
  ASSUME PageTypeOK, ListInv, NEW s \in Slot, ReadConfig(s)
  PROVE  ListInv'
<1>1. /\ call'[s] = NoCall /\ \A t \in Slot \ {s} : call'[t] = call[t]
      /\ UNCHANGED <<current, version>>
      /\ call[s].st = "listed" /\ list' = call[s].snap
  BY DEF ReadConfig, Becomes, PageTypeOK, registryVars
<1>2. /\ call[s].at \in Nat /\ newest \in Nat /\ version \in Nat
      /\ newest' = IF call[s].at > newest THEN call[s].at ELSE newest
      /\ behind' = (call[s].at < newest \/ (behind /\ call[s].at # version))
  BY DEF ReadConfig, PageTypeOK, Call
<1>3. /\ call[s].at <= version
      /\ call[s].at = version => call[s].snap = current.hosts
  BY <1>1 DEF ListInv, UpToDate
<1>4. newest' <= version'
  BY <1>1, <1>2, <1>3 DEF ListInv
<1>5. \A t \in Slot : UpToDate(call'[t], version', current'.hosts)
  <2>1. UpToDate(NoCall, version', current'.hosts)
    BY DEF NoCall, UpToDate
  <2> QED
    BY <1>1, <2>1 DEF ListInv
<1>6. ASSUME ~behind'
      PROVE  \/ newest' = version' /\ list' = current'.hosts
             \/ \E t \in Slot : Reloads(call'[t], version')
  <2>1. CASE call[s].at = version
    BY <1>1, <1>2, <1>3, <2>1 DEF ListInv
  <2>2. CASE call[s].at # version
    <3>0. ~behind /\ ~(call[s].at < newest)
      BY <1>2, <1>6, <2>2, Zenon
    <3>1. ~behind /\ newest # version
      BY <1>2, <1>3, <2>2, <3>0
    <3>2. PICK t \in Slot : Reloads(call[t], version)
      BY <3>1 DEF ListInv
    <3>3. t # s
      BY <1>1, <2>2, <3>2 DEF Reloads
    <3> QED
      BY <1>1, <3>2, <3>3
  <2> QED
    BY <2>1, <2>2
<1> QED
  BY <1>4, <1>5, <1>6 DEF ListInv

LEMMA CallKeepsList ==
  ASSUME PageTypeOK, ListInv, NEW s \in Slot, CallStep(s)
  PROVE  ListInv'
<1>1. CASE NotLetThrough(s) \/ AnsweredElsewhere(s)
  <2>1. PICK ans : Answers(s, ans, None)
    BY <1>1 DEF NotLetThrough, AnsweredElsewhere
  <2> DEFINE c == [NoCall EXCEPT !.st = "answered", !.kind = call[s].kind,
                                 !.ans = ans, !.id = None]
  <2>2. c.st = "answered" /\ Becomes(s, c)
    BY <2>1 DEF NoCall, Answers
  <2> HIDE DEF c
  <2>3. UpToDate(c, version, current.hosts) /\ Reloads(c, version)
    BY <2>2 DEF UpToDate, Reloads
  <2>4. UNCHANGED <<current, version, list, newest, behind>>
    BY <1>1 DEF NotLetThrough, AnsweredElsewhere, registryVars, pageVars
  <2> QED
    BY <2>2, <2>3, <2>4, QuietCall
<1>2. CASE HandleUpsertHost(s)
  BY <1>2, HandledKeepsList DEF HandleUpsertHost, pageVars
<1>3. CASE HandleRemoveHost(s)
  BY <1>3, HandledKeepsList DEF HandleRemoveHost, pageVars
<1>4. CASE HandleGetConfig(s)
  <2> DEFINE c == [NoCall EXCEPT !.st = "listed", !.snap = current.hosts,
                                 !.at = version]
  <2>1. /\ c.st = "listed" /\ c.at = version /\ c.snap = current.hosts
        /\ Becomes(s, c)
    BY <1>4 DEF NoCall, HandleGetConfig
  <2> HIDE DEF c
  <2>2. UpToDate(c, version, current.hosts) /\ Reloads(c, version)
    BY <2>1 DEF UpToDate, Reloads, PageTypeOK
  <2>3. UNCHANGED <<current, version, list, newest, behind>>
    BY <1>4 DEF HandleGetConfig, registryVars, pageVars
  <2> QED
    BY <2>1, <2>2, <2>3, QuietCall
<1>5. CASE ReadSaved(s) \/ ReadRemoved(s)
  <2>1. UpToDate(ListCall, version, current.hosts) /\ Reloads(ListCall, version)
    BY DEF ListCall, NoCall, UpToDate, Reloads
  <2>2. /\ Becomes(s, ListCall)
        /\ UNCHANGED <<current, version, list, newest, behind>>
    BY <1>5 DEF ReadSaved, ReadRemoved, registryVars, pageVars
  <2> QED
    BY <2>1, <2>2, QuietCall
<1>6. CASE ReadSaveFailed(s) \/ CallFails(s)
  <2>1. UpToDate(NoCall, version, current.hosts)
    BY DEF NoCall, UpToDate
  <2>2. /\ Becomes(s, NoCall) /\ behind'
        /\ UNCHANGED <<current, version, list, newest>>
    BY <1>6 DEF ReadSaveFailed, CallFails, registryVars
  <2> QED
    BY <2>1, <2>2, QuietCall
<1>7. CASE ReadConfig(s)
  BY <1>7, ReadConfigKeepsList
<1> QED
  BY <1>1, <1>2, <1>3, <1>4, <1>5, <1>6, <1>7 DEF CallStep

LEMMA ListStep ==
  ASSUME PageTypeOK, ListInv, [Next]_vars PROVE ListInv'
<1>1. CASE UNCHANGED <<current, version, list, newest, behind, call>>
  BY <1>1 DEF ListInv
<1>2. ASSUME NEW s \in Slot, NEW c, call[s].st = "free", Becomes(s, c),
             c.st \in {"sent", "loading"},
             UNCHANGED <<current, version, list, newest, behind>>
      PROVE  ListInv'
  <2>1. UpToDate(c, version, current.hosts) /\ ~Reloads(call[s], version)
    BY <1>2 DEF UpToDate, Reloads
  <2> QED
    BY <1>2, <2>1, QuietCall
<1>3. ASSUME NEW s \in Slot, NEW d \in Data, PressSave(s, d) PROVE ListInv'
  <2> DEFINE c == [[NoCall EXCEPT !.kind = "save", !.id = editor.id,
                                  !.data = d, !.shows = editor.shows,
                                  !.intact = intact]
                     EXCEPT !.st = "sent", !.token = token]
  <2>1. c.st = "sent"
    BY DEF NoCall
  <2>2. /\ Becomes(s, c) /\ call[s].st = "free"
        /\ UNCHANGED <<current, version, list, newest, behind>>
    BY <1>3 DEF PressSave, Presses, Becomes, registryVars, pageVars
  <2> HIDE DEF c
  <2> QED
    BY <1>2, <2>1, <2>2
<1>4. ASSUME NEW s \in Slot, NEW h \in Id, PressRemove(s, h) PROVE ListInv'
  <2> DEFINE c == [[NoCall EXCEPT !.kind = "remove", !.id = h]
                     EXCEPT !.st = "sent", !.token = token]
  <2>1. c.st = "sent"
    BY DEF NoCall
  <2>2. /\ Becomes(s, c) /\ call[s].st = "free"
        /\ UNCHANGED <<current, version, list, newest, behind>>
    BY <1>4 DEF PressRemove, Presses, Becomes, registryVars, pageVars
  <2> HIDE DEF c
  <2> QED
    BY <1>2, <2>1, <2>2
<1>5. CASE OpenAdd \/ Cancel \/ \E h \in Id : OpenEdit(h)
  BY <1>1, <1>5 DEF OpenAdd, Cancel, OpenEdit, registryVars
<1>6. CASE OthersChange
  <2>1. \A s \in Slot : UpToDate(call'[s], version', current'.hosts)
    BY <1>6, ChangeKeeps DEF OthersChange, ListInv
  <2>2. behind' /\ newest' <= version'
    BY <1>6 DEF OthersChange, ListInv, Changed, PageTypeOK
  <2> QED
    BY <2>1, <2>2 DEF ListInv
<1>7. ASSUME NEW s \in Slot, PageLoaded(s) PROVE ListInv'
  <2>1. /\ Becomes(s, ListCall) /\ call[s].st = "free"
        /\ UNCHANGED <<current, version, list, newest, behind>>
    BY <1>7 DEF PageLoaded, registryVars, pageVars
  <2>2. ListCall.st = "loading"
    BY DEF ListCall, NoCall
  <2> QED
    BY <1>2, <2>1, <2>2
<1>8. CASE OtherSession \/ UNCHANGED vars
  BY <1>1, <1>8 DEF OtherSession, vars, registryVars, pageVars
<1>9. CASE LoadStep
  BY <1>1, <1>7, <1>9 DEF LoadStep, registryVars, pageVars
<1> QED
  BY <1>3, <1>4, <1>5, <1>6, <1>8, <1>9, CallKeepsList
     DEF Next, UserStep

(* loadConfig: for any number of calls under way, lost and overtaking      *)
(* answers and changes by others, the page lists the hosts there are once  *)
(* no call is under way, but for the cases ListIsCurrent names.            *)
THEOREM ListStaysCurrent == Spec => []ListIsCurrent
<1>1. Init => PageTypeOK /\ ListInv
  BY InitTyped, ListInit
<1>2. PageTypeOK /\ ListInv /\ [Next]_vars => PageTypeOK' /\ ListInv'
  BY NextTyped, ListStep
<1>3. ListInv => ListIsCurrent
  BY DEF ListInv, ListIsCurrent, Idle, Reloads
<1> QED
  BY <1>1, <1>2, <1>3, PTL DEF Spec
=============================================================================
