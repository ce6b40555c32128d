------------------------------- MODULE HostPage -------------------------------
(***************************************************************************)
(* The page's part that edits the list of Docker hosts (web/index.html):   *)
(* one editor for adding and editing, whose host id (editingId) is set by  *)
(* the buttons that open it and by the answers of saves; and the list,     *)
(* loaded anew after every save and removal.  Nothing keeps the user from  *)
(* going on while calls are under way, so answers come in any order.       *)
(*                                                                         *)
(* The host configuration is the map HostRegistry.tla promises.  Other     *)
(* users change it too.  A reloaded page is a new page: what its           *)
(* predecessor sent counts as another user's.  Confirmation boxes, the     *)
(* reachability check and the polling interval are left out.               *)
(***************************************************************************)
EXTENDS CsrfToken, Naturals

CONSTANTS
  Id, Data,      \* host ids, and what the fields of the editor may hold
  Slot,          \* calls of the page under way at once
  InitialHosts,  \* the maps the registry may hold when the page is opened
  MaxCalls,      \* bound: calls the user makes
  MaxOthers      \* bound: changes by other users

VARIABLES
  current,  \* the host configuration, see HostRegistry.tla
  version,  \* how often it was changed
  drawn,    \* the ids in use so far: newHostID draws others
  list,     \* the hosts on the page
  newest,   \* the latest version of the configuration it has shown
  editor,   \* what it would save, see Editor
  intact,   \* nothing but the user has changed the editor since it was opened
  call,     \* the page's calls
  told,     \* answers that were shown as "Host saved", but for the right one
  bare,     \* the page has sent a call without a token
  behind,   \* a reload was lost or overtaken: see ListIsCurrent
  calls, others

registryVars == <<current, version, drawn>>
pageVars == <<list, newest, editor, intact, told, bare, behind>>
vars == <<tokenVars, registryVars, pageVars, call, calls, others>>

Registry == INSTANCE HostRegistry WITH
  Seconds <- {10}, up <- TRUE, durable <- {}

ASSUME PageAssumption ==
  /\ Data # {} /\ None \notin Id
  /\ InitialHosts \subseteq Registry!Maps
  /\ MaxCalls \in Nat /\ MaxOthers \in Nat

IdOrNone == Id \cup {None}

NoHosts == [i \in {} |-> None]

(* editingId, and the host whose data filled the fields.  The label is     *)
(* "Edit host" if there is one, "Add Docker host" if not.  The user may    *)
(* fold the editor up and out at any time, so that is left out.            *)
Editor == [id : IdOrNone, shows : IdOrNone]

(* "host", with an id, and "error" are the plugin's, in JSON; "refused" is *)
(* the 403 of Zoraxy; "other" is no JSON either: the page of an error on   *)
(* the way, or of the login once the session is over.                      *)
Answer == {"none", "host", "error", "refused", "other"}

Call == [st : {"free", "sent", "answered", "loading", "listed"},
         kind : {"save", "remove", "list"},
         id : IdOrNone, data : Data, shows : IdOrNone, intact : BOOLEAN,
         token : Session \cup {None},
         ans : Answer,
         snap : Registry!Maps, at : Nat]

AddEditor == [id |-> None, shows |-> None]

NoCall ==
  [st |-> "free", kind |-> "list", id |-> None, data |-> CHOOSE d \in Data : TRUE,
   shows |-> None, intact |-> FALSE, token |-> None, ans |-> "none",
   snap |-> NoHosts, at |-> 0]

ListCall == [NoCall EXCEPT !.st = "loading"]

PageTypeOK ==
  /\ TokenTypeOK
  /\ current \in Registry!States
  /\ DOMAIN current.hosts \subseteq drawn /\ drawn \subseteq Id
  /\ list \in Registry!Maps
  /\ editor \in Editor
  /\ call \in [Slot -> Call]
  /\ told \subseteq Answer
  /\ {intact, bare, behind} \subseteq BOOLEAN
  /\ calls \in 0..MaxCalls /\ others \in 0..MaxOthers
  /\ version \in Nat /\ newest \in Nat

Init ==
  /\ TokenInit
  /\ current \in [hosts : InitialHosts, polling : {10}]
  /\ version = 0
  /\ drawn = DOMAIN current.hosts
  /\ list = NoHosts
  /\ newest = 0
  /\ editor = AddEditor
  /\ intact = TRUE
  /\ call = [s \in Slot |-> NoCall]
  /\ told = {}
  /\ bare = FALSE
  /\ behind = TRUE
  /\ calls = 0 /\ others = 0

-----------------------------------------------------------------------------
(* The user.                                                               *)

(* Mutant: editingId keeps its value.                                      *)
OpenAddKeepingId ==
  /\ load # "closed"
  /\ editor' = [id |-> editor.id, shows |-> None]
  /\ intact' = TRUE
  /\ UNCHANGED <<tokenVars, registryVars, list, newest, call, told, bare, behind,
                 calls, others>>

(* openEditor(null), openEditor(h)                                         *)
OpenAdd ==
  /\ load # "closed"
  /\ editor' = AddEditor
  /\ intact' = TRUE
  /\ UNCHANGED <<tokenVars, registryVars, list, newest, call, told, bare, behind,
                 calls, others>>

OpenEdit(h) ==
  /\ h \in DOMAIN list
  /\ editor' = [id |-> h, shows |-> h]
  /\ intact' = TRUE
  /\ UNCHANGED <<tokenVars, registryVars, list, newest, call, told, bare, behind,
                 calls, others>>

(* The button is hidden while the label is that of an addition.            *)
Cancel ==
  /\ editor.shows # None
  /\ editor' = [editor EXCEPT !.id = None]
  /\ intact' = FALSE
  /\ UNCHANGED <<tokenVars, registryVars, list, newest, call, told, bare, behind,
                 calls, others>>

Presses(s, c) ==
  /\ load # "closed"
  /\ call[s].st = "free"
  /\ calls < MaxCalls
  /\ calls' = calls + 1
  /\ call' = [call EXCEPT ![s] = [c EXCEPT !.st = "sent", !.token = token]]
  /\ bare' = (bare \/ token = None)
  /\ UNCHANGED <<tokenVars, registryVars, list, newest, editor, intact, told,
                 behind, others>>

(* saveHost; the button stays enabled.                                     *)
PressSave(s, d) ==
  Presses(s, [NoCall EXCEPT !.kind = "save", !.id = editor.id, !.data = d,
                            !.shows = editor.shows, !.intact = intact])

PressRemove(s, h) ==
  /\ h \in DOMAIN list
  /\ Presses(s, [NoCall EXCEPT !.kind = "remove", !.id = h])

-----------------------------------------------------------------------------
(* Zoraxy and the plugin.                                                  *)

Changed == version' = IF current' = current THEN version ELSE version + 1

Becomes(s, c) == call' = [call EXCEPT ![s] = c]

Answers(s, ans, id) ==
  Becomes(s, [NoCall EXCEPT !.st = "answered", !.kind = call[s].kind,
                            !.ans = ans, !.id = id])

(* Zoraxy lets a POST through if it has the token of its session, and      *)
(* answers others itself, with 403 and no JSON.                            *)
NotLetThrough(s) ==
  /\ call[s].st = "sent"
  /\ call[s].token # Own
  /\ Answers(s, "refused", None)
  /\ UNCHANGED <<tokenVars, registryVars, pageVars, calls, others>>

(* The plugin is stopped or out of reach, or the session is over, and      *)
(* something else answers, whatever the token.  CallFails has this case of *)
(* a listing.                                                              *)
AnsweredElsewhere(s) ==
  /\ call[s].st = "sent"
  /\ Answers(s, "other", None)
  /\ UNCHANGED <<tokenVars, registryVars, pageVars, calls, others>>

(* Mutant: no id is drawn for a new host.                                  *)
HandleUpsertHostUnnamed(s) ==
  /\ call[s].st = "sent"
  /\ call[s].kind = "save"
  /\ call[s].token = Own
  /\ Registry!Put(call[s].id, call[s].data)
  /\ Answers(s, "host", call[s].id)
  /\ Changed
  /\ UNCHANGED <<tokenVars, drawn, pageVars, calls, others>>

(* handleUpsertHost: an endpoint it cannot parse is refused; a save that   *)
(* fails has changed the memory all the same; and the answer may be        *)
(* replaced on its way by another program's.                               *)
HandleUpsertHost(s) ==
  /\ call[s].st = "sent"
  /\ call[s].kind = "save"
  /\ call[s].token = Own
  /\ \/ /\ Answers(s, "error", None)
        /\ UNCHANGED <<current, drawn>>
     \/ \E id \in IF call[s].id = None THEN Id \ drawn ELSE {call[s].id} :
          /\ Registry!Put(id, call[s].data)
          /\ drawn' = drawn \cup {id}
          /\ \/ Answers(s, "host", id)
             \/ \E a \in {"error", "other"} : Answers(s, a, None)
  /\ Changed
  /\ UNCHANGED <<tokenVars, pageVars, calls, others>>

(* handleRemoveHost                                                        *)
HandleRemoveHost(s) ==
  /\ call[s].st = "sent"
  /\ call[s].kind = "remove"
  /\ call[s].token = Own
  /\ Registry!Drop(call[s].id)
  /\ \E a \in {"host", "error", "other"} : Answers(s, a, None)
  /\ Changed
  /\ UNCHANGED <<tokenVars, drawn, pageVars, calls, others>>

(* handleGetConfig notes the CSRF token on the way.                        *)
HandleGetConfig(s) ==
  /\ call[s].st = "loading"
  /\ \E t \in Header : NoteCSRF(t)
  /\ Becomes(s, [NoCall EXCEPT !.st = "listed", !.snap = current.hosts, !.at = version])
  /\ UNCHANGED <<token, load, fetched, crossed, registryVars, pageVars, calls,
                 others>>

OthersChange ==
  /\ others < MaxOthers
  /\ others' = others + 1
  /\ \/ \E id \in Id, d \in Data : Registry!Put(id, d) /\ drawn' = drawn \cup {id}
     \/ \E id \in DOMAIN current.hosts : Registry!Drop(id) /\ UNCHANGED drawn
  /\ Changed
  /\ behind' = TRUE
  /\ UNCHANGED <<tokenVars, list, newest, editor, intact, told, bare, call, calls>>

-----------------------------------------------------------------------------
(* The page, when an answer comes.                                         *)

(* Mutant: the answer is not looked at for an error.                       *)
ReadSavedUnchecked(s) ==
  /\ call[s].st = "answered"
  /\ call[s].kind = "save"
  /\ editor' = [editor EXCEPT !.id = call[s].id]
  /\ intact' = FALSE
  /\ told' = told \cup ({call[s].ans} \ {"host"})
  /\ Becomes(s, ListCall)
  /\ UNCHANGED <<tokenVars, registryVars, list, newest, bare, behind, calls,
                 others>>

(* saveHost after the await: editingId becomes the id in the answer, null  *)
(* without one, whatever is open in the editor by now; the list is loaded. *)
ReadSaved(s) ==
  /\ call[s].st = "answered"
  /\ call[s].kind = "save"
  /\ call[s].ans # "error"
  /\ editor' = [editor EXCEPT !.id = call[s].id]
  /\ intact' = FALSE
  /\ told' = told \cup ({call[s].ans} \ {"host"})
  /\ Becomes(s, ListCall)
  /\ UNCHANGED <<tokenVars, registryVars, list, newest, bare, behind, calls,
                 others>>

(* The message is shown, the editor stays open, the list is not loaded.    *)
ReadSaveFailed(s) ==
  /\ call[s].st = "answered"
  /\ call[s].kind = "save"
  /\ call[s].ans = "error"
  /\ behind' = TRUE
  /\ Becomes(s, NoCall)
  /\ UNCHANGED <<tokenVars, registryVars, list, newest, editor, intact, told,
                 bare, calls, others>>

(* Mutant: the list is loaded only when the removal went well.             *)
ReadRemovedIfOk(s) ==
  /\ call[s].st = "answered"
  /\ call[s].kind = "remove"
  /\ Becomes(s, IF call[s].ans = "host" THEN ListCall ELSE NoCall)
  /\ UNCHANGED <<tokenVars, registryVars, pageVars, calls, others>>

(* removeHost after the await: the answer is not looked at.                *)
ReadRemoved(s) ==
  /\ call[s].st = "answered"
  /\ call[s].kind = "remove"
  /\ Becomes(s, ListCall)
  /\ UNCHANGED <<tokenVars, registryVars, pageVars, calls, others>>

(* loadConfig; an older answer may come after a newer one.                 *)
ReadConfig(s) ==
  /\ call[s].st = "listed"
  /\ list' = call[s].snap
  /\ newest' = IF call[s].at > newest THEN call[s].at ELSE newest
  /\ behind' = (call[s].at < newest \/ (behind /\ call[s].at # version))
  /\ Becomes(s, NoCall)
  /\ UNCHANGED <<tokenVars, registryVars, editor, intact, told, bare, calls,
                 others>>

(* fetch fails, or the answer is lost: nothing more is run.  Or a listing  *)
(* is answered with no JSON, and the list stays as it is.                  *)
CallFails(s) ==
  /\ call[s].st # "free"
  /\ behind' = TRUE
  /\ Becomes(s, NoCall)
  /\ UNCHANGED <<tokenVars, registryVars, list, newest, editor, intact, told,
                 bare, calls, others>>

(* The load event: the token first, then the configuration.                *)
PageLoaded(s) ==
  /\ LoadCSRF
  /\ call[s].st = "free"
  /\ Becomes(s, ListCall)
  /\ UNCHANGED <<registryVars, pageVars, calls, others>>

-----------------------------------------------------------------------------

LoadStep ==
  \/ /\ ServePage \/ GetCSRFNotes \/ GetCSRFReads
     /\ UNCHANGED <<registryVars, pageVars, call, calls, others>>
  \/ \E s \in Slot : PageLoaded(s)

OtherSession ==
  /\ OtherSessionNotes
  /\ UNCHANGED <<registryVars, pageVars, call, calls, others>>

UserStep ==
  \/ OpenAdd \/ (\E h \in Id : OpenEdit(h)) \/ Cancel
  \/ \E s \in Slot : (\E d \in Data : PressSave(s, d)) \/ (\E h \in Id : PressRemove(s, h))

CallStep(s) ==
  \/ NotLetThrough(s) \/ AnsweredElsewhere(s)
  \/ HandleUpsertHost(s) \/ HandleRemoveHost(s) \/ HandleGetConfig(s)
  \/ ReadSaved(s) \/ ReadSaveFailed(s) \/ ReadRemoved(s) \/ ReadConfig(s)
  \/ CallFails(s)

Next ==
  \/ LoadStep
  \/ OtherSession
  \/ OthersChange
  \/ UserStep
  \/ \E s \in Slot : CallStep(s)

Spec == Init /\ [][Next]_vars

-----------------------------------------------------------------------------
(* Properties.                                                             *)

Idle == \A s \in Slot : call[s].st = "free"

(* With no call under way the page lists the hosts there are, unless a     *)
(* reload was lost or overtaken by an older answer, a save failed, or      *)
(* another user changed them since.                                        *)
ListIsCurrent == Idle /\ ~behind => list = current.hosts

(* A save of the page is handled and replaces a host by another one.       *)
Overwrites(s, id) ==
  /\ call[s].kind = "save" /\ call[s].st = "sent" /\ call'[s].st = "answered"
  /\ id \in DOMAIN current.hosts
  /\ current'.hosts[id] # current.hosts[id]

(* Unless an answer or Cancel changed the editor behind its label, a save  *)
(* overwrites no host but the one whose fields it was made from; an        *)
(* addition overwrites none.                                               *)
OnlyTheEditedHostChanges ==
  [][\A s \in Slot, id \in Id :
       Overwrites(s, id) /\ call[s].intact => call[s].shows = id]_vars

(* saveHost reads "Host saved" from every answer but an error of the       *)
(* plugin (index.html:525-530), so it says nothing of a save if something  *)
(* else answered.  What is left: an error of the plugin, a failed save or  *)
(* a refused endpoint, is never shown as a saved host, and Zoraxy's 403    *)
(* only on a page that sent a call before or without the answer with its   *)
(* token, or whose request for it was crossed by another session's.        *)
RefusalsAreTold ==
  /\ "error" \notin told
  /\ "refused" \in told => bare \/ crossed

(* index.html:163, "Add Docker host": what is saved under this label is a  *)
(* host of its own and overwrites none.                                    *)
AddNeverOverwrites ==
  [][\A s \in Slot, id \in Id :
       Overwrites(s, id) => call[s].shows # None]_vars
=============================================================================
