------------------------------ MODULE CsrfToken -------------------------------
(***************************************************************************)
(* How a page gets its CSRF token.  Zoraxy puts the token of the session a *)
(* request belongs to into a header.  The plugin writes it into the page   *)
(* it serves, and keeps the latest one it has seen, of any session, for    *)
(* the page to ask for when it is loaded, because the page may be an old   *)
(* copy from a cache.  One page is followed; a token is named after its    *)
(* session.                                                                *)
(***************************************************************************)
CONSTANTS Session, Own, None

ASSUME SessionAssumption == Own \in Session /\ None \notin Session

VARIABLES
  noted,    \* csrfToken: the latest token the plugin has seen
  token,    \* CSRF_TOKEN of the page
  load,     \* how far the page is loaded
  fetched,  \* the token in the answer of api/csrf
  crossed   \* that answer may hold another session's: see TokenIsOwn

tokenVars == <<noted, token, load, fetched, crossed>>

(* The header may be missing.                                              *)
Header == {Own, None}

TokenTypeOK ==
  /\ {noted, token, fetched} \subseteq Session \cup {None}
  /\ load \in {"closed", "served", "noted", "answered", "loaded"}
  /\ crossed \in BOOLEAN

TokenInit ==
  /\ noted \in (Session \ {Own}) \cup {None}
  /\ token = None
  /\ load = "closed"
  /\ fetched = None
  /\ crossed = FALSE

(* noted is followed until the page has its token: no step of the page     *)
(* depends on it later.                                                    *)
NoteCSRF(t) == noted' = IF t = None \/ load = "loaded" THEN noted ELSE t

(* Mutant: the placeholder in the script's test is not replaced.           *)
ServePageMetaTaken ==
  /\ load = "closed"
  /\ token' \in Session \cup {None}
  /\ load' = "served"
  /\ UNCHANGED <<noted, fetched, crossed>>

(* index.html:231-235, the script of the page takes the content of the     *)
(* meta tag for its token, unless it is the placeholder, or that of a      *)
(* missing header.                                                         *)
CSRFOfPage(content, placeholder) ==
  IF content \in {placeholder, None} THEN None ELSE content

(* populateCSRFToken replaces every placeholder in the page by the token   *)
(* in the header (strings.ReplaceAll), in the meta tag (index.html:6) and  *)
(* in the script's test of it (index.html:233) alike: whatever the token,  *)
(* the test takes it for the placeholder, and the page starts without one. *)
(* The same is true of a copy of the page from a cache, which may hold the *)
(* token of any session.                                                   *)
ServePage ==
  /\ load = "closed"
  /\ \E t \in Session \cup {None} : token' = CSRFOfPage(t, t)
  /\ load' = "served"
  /\ UNCHANGED <<noted, fetched, crossed>>

(* Mutant: the header of the request is not looked at.                     *)
GetCSRFUnnoted ==
  /\ load = "served"
  /\ load' = "noted"
  /\ UNCHANGED <<noted, token, fetched, crossed>>

(* handleGetCSRF notes under one lock and reads under another.             *)
GetCSRFNotes ==
  /\ load = "served"
  /\ \E t \in Header : NoteCSRF(t) /\ crossed' = (t = None)
  /\ load' = "noted"
  /\ UNCHANGED <<token, fetched>>

GetCSRFReads ==
  /\ load = "noted"
  /\ fetched' = noted
  /\ load' = "answered"
  /\ UNCHANGED <<noted, token, crossed>>

(* Any request of another session for the token or the configuration.      *)
OtherSessionNotes ==
  /\ \E s \in Session \ {Own} : NoteCSRF(s)
  /\ crossed' = (crossed \/ load = "noted")
  /\ UNCHANGED <<token, load, fetched>>

(* loadCSRF: without an answer, or with an empty one, the page keeps what  *)
(* it had.                                                                 *)
LoadCSRF ==
  /\ \/ /\ load = "answered"
        /\ token' = IF fetched = None THEN token ELSE fetched
     \/ load \in {"served", "noted", "answered"} /\ UNCHANGED token
  /\ load' = "loaded"
  /\ noted' = None /\ fetched' = None
  /\ UNCHANGED crossed

-----------------------------------------------------------------------------

(* handleGetCSRF, "so the UI can fetch it at runtime instead of depending  *)
(* on a possibly cached HTML page": a page, cached or not, has a token of  *)
(* another session only if the header of its request was missing or the    *)
(* other session's request came between the note and the read of the       *)
(* handler; noting first is what keeps older ones away.                    *)
TokenIsOwn == token \notin {Own, None} => crossed
=============================================================================
