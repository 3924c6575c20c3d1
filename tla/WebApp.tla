------------------------------- MODULE WebApp -------------------------------
(***************************************************************************)
(* The controller of the web client (web/src/app-controller.ts) with its   *)
(* API client (web/src/api.ts): signing in and out, the list of terminal   *)
(* tabs, the polling of devices.  Every call of the relay's API is awaited *)
(* while the user goes on, so calls overlap: the relay handles one at some *)
(* moment and its answer is applied at a later one, to whatever the page   *)
(* is then.  Each tab is a TabLife value, which WebTerminal implements.    *)
(*                                                                         *)
(* Left out: error texts, which tab is selected, the order of the tabs.    *)
(***************************************************************************)
EXTENDS Naturals, TabLife

CONSTANTS
  Objects,     \* TerminalSession objects, each used once
  Sessions,    \* ids of the relay's records
  Asked,       \* a call the relay has not handled
  NoCall,      \* no call in flight
  MaxLogins    \* sign-ins, a bound; the first is the check of a stored session

ASSUME WebAssumption ==
  /\ Objects \cap Sessions = {}
  /\ Asked \notin Sessions /\ NoCall \notin Objects \cup Sessions \cup {Asked}
  /\ MaxLogins \in Nat \ {0}

VARIABLES
  auth,      \* AuthPhase of the page
  poll,      \* the timer that refreshes the devices
  devices,   \* the device list is not empty
  list,      \* the tabs of the page
  tabs,      \* the state of each tab, listed or not
  ids,       \* its id: the object itself stands for the temporary one
  rec,       \* the relay's records of this user
  \* Calls in flight
  logins,    \* sign-ins started
  signing,   \* sign-ins not answered
  leaving,   \* logout()
  loading,   \* what each sign-in's load still awaits
  answers,   \* the records the relay has answered a load with
  creates,   \* the create() of a tab: asked, or the record made for it
  deletes,   \* the id under which a tab's closeSession() asks for the deletion
  \* To state properties
  used,      \* objects that were made
  replaced,  \* tabs that were listed when the list was reloaded
  crossed    \* the page was loading when it was signed out

page     == <<auth, poll, devices>>
tab      == <<list, tabs, ids, used, replaced>>
load     == <<logins, signing, loading, answers>>
calls    == <<leaving, creates, deletes>>
pageVars == <<page, tab, load, calls, rec, crossed>>

Logins == 1 .. MaxLogins
Parts  == {"devices", "sessions"}
Known  == {"open", "closed"}

PageTypeOK ==
  /\ auth \in {"booting", "anonymous", "authenticated"}
  /\ {poll, devices, leaving, crossed} \subseteq BOOLEAN
  /\ {list, used, replaced} \subseteq SUBSET Objects
  /\ tabs \in [Objects -> Tab]
  /\ ids \in [Objects -> Objects \cup Sessions]
  /\ rec \in [Sessions -> Known \cup {"unused", "purged"}]
  /\ logins \in Logins /\ signing \subseteq Logins
  /\ loading \in [Logins -> SUBSET Parts]
  /\ answers \in [Logins -> [Sessions -> Known \cup {"unused", "purged"}] \cup {NoCall, Asked}]
  /\ creates \in [Objects -> Sessions \cup {NoCall, Asked}]
  /\ deletes \in [Objects -> Objects \cup Sessions \cup {NoCall}]

Loading == \E n \in Logins : loading[n] # {}

PageInit ==
  /\ auth = "booting" /\ poll = FALSE /\ devices = FALSE
  /\ list = {} /\ used = {} /\ replaced = {}
  /\ tabs = [o \in Objects |-> Made]
  /\ ids = [o \in Objects |-> o]
  /\ rec \in [Sessions -> {"unused", "open"}]
  /\ logins = 1 /\ signing = {1}
  /\ loading = [n \in Logins |-> {}]
  /\ answers = [n \in Logins |-> NoCall]
  /\ leaving = FALSE /\ crossed = FALSE
  /\ creates = [o \in Objects |-> NoCall]
  /\ deletes = [o \in Objects |-> NoCall]

----------------------------------------------------------------------------
\* Signing in.  The form takes another submission while one is under way.

LoginAsked ==
  /\ auth = "anonymous" /\ logins < MaxLogins
  /\ logins' = logins + 1
  /\ signing' = signing \cup {logins + 1}
  /\ UNCHANGED <<page, tab, loading, answers, calls, rec, crossed>>

\* loadDevicesAndSessions asks for both at once.
SignedIn(n) ==
  /\ n \in signing
  /\ signing' = signing \ {n}
  /\ auth' = "authenticated"
  /\ loading' = [loading EXCEPT ![n] = Parts]
  /\ answers' = [answers EXCEPT ![n] = Asked]
  /\ UNCHANGED <<poll, devices, tab, logins, calls, rec, crossed>>

\* A failed check leaves the page signed out; a failed login leaves it as it is.
NotSignedIn(n) ==
  /\ n \in signing
  /\ signing' = signing \ {n}
  /\ auth' = IF n = 1 THEN "anonymous" ELSE auth
  /\ UNCHANGED <<poll, devices, tab, logins, loading, answers, calls, rec, crossed>>

\* A part of load n has its answer, or has failed: with the last one polling starts.
Finished(n, part) ==
  /\ loading' = [loading EXCEPT ![n] = @ \ {part}]
  /\ poll' = (poll \/ loading[n] = {part})

DevicesAnswered(n, ok) ==
  /\ "devices" \in loading[n]
  /\ Finished(n, "devices")
  /\ devices' = (devices \/ ok)
  /\ UNCHANGED <<auth, tab, logins, signing, answers, calls, rec, crossed>>

\* The relay lists the records of the user, closed ones among them.
SessionsHandled(n) ==
  /\ answers[n] = Asked
  /\ answers' = [answers EXCEPT ![n] = rec]
  /\ UNCHANGED <<page, tab, logins, signing, loading, calls, rec, crossed>>

\* A plausible mistake: the new tabs are added to those that are listed.
HydrateBeside(n, make) ==
  /\ list' = list \cup {make[s] : s \in DOMAIN make}
  /\ used' = used \cup list'
  /\ ids' = [o \in Objects |-> IF \E s \in DOMAIN make : make[s] = o
                               THEN CHOOSE s \in DOMAIN make : make[s] = o ELSE ids[o]]
  /\ tabs' = [o \in Objects |-> IF \E s \in DOMAIN make : make[s] = o
                                THEN Hydrated(answers[n][ids'[o]] = "open") ELSE tabs[o]]
  /\ UNCHANGED replaced

\* hydrateSessions: a new tab for each record takes the place of whatever is listed.
\* make[s] is the object made for the record s.
Hydrate(n, make) ==
  /\ list' = {make[s] : s \in DOMAIN make}
  /\ used' = used \cup list'
  /\ replaced' = replaced \cup list
  /\ ids' = [o \in Objects |-> IF o \in list' THEN CHOOSE s \in DOMAIN make : make[s] = o ELSE ids[o]]
  /\ tabs' = [o \in Objects |-> IF o \in list' THEN Hydrated(answers[n][ids'[o]] = "open") ELSE tabs[o]]

SessionsAnswered(n) ==
  /\ answers[n] \notin {NoCall, Asked}
  /\ \E make \in [{s \in Sessions : answers[n][s] \in Known} -> Objects \ used] :
       /\ \A s, u \in DOMAIN make : make[s] = make[u] => s = u
       /\ Hydrate(n, make)
  /\ Finished(n, "sessions")
  /\ answers' = [answers EXCEPT ![n] = NoCall]
  /\ UNCHANGED <<auth, devices, logins, signing, calls, rec, crossed>>

\* A plausible mistake: a load that fails starts no polling.
SessionsFailOnly(n) ==
  /\ answers[n] # NoCall
  /\ loading' = [loading EXCEPT ![n] = @ \ {"sessions"}]
  /\ answers' = [answers EXCEPT ![n] = NoCall]
  /\ UNCHANGED <<page, tab, logins, signing, calls, rec, crossed>>

SessionsFail(n) ==
  /\ answers[n] # NoCall
  /\ Finished(n, "sessions")
  /\ answers' = [answers EXCEPT ![n] = NoCall]
  /\ UNCHANGED <<auth, devices, tab, logins, signing, calls, rec, crossed>>

----------------------------------------------------------------------------
\* Polling and signing out

\* A refresh of the device list; one that fails changes only the error shown.
Refreshed ==
  /\ poll /\ auth = "authenticated"
  /\ devices' = TRUE
  /\ UNCHANGED <<auth, poll, tab, load, calls, rec, crossed>>

LogoutAsked ==
  /\ auth = "authenticated"
  /\ leaving' = TRUE
  /\ UNCHANGED <<page, tab, load, creates, deletes, rec, crossed>>

\* A plausible mistake: the tabs are forgotten, not closed.
LogoutForgets ==
  /\ leaving
  /\ leaving' = FALSE
  /\ poll' = FALSE
  /\ list' = {}
  /\ auth' = "anonymous"
  /\ devices' = FALSE
  /\ crossed' = Loading
  /\ UNCHANGED <<tabs, ids, used, replaced, load, creates, deletes, rec>>

\* Answered or failed, the page signs out.  A refresh under way may bring the devices
\* back.
LogoutAnswered ==
  /\ leaving
  /\ leaving' = FALSE
  /\ poll' = FALSE
  /\ tabs' = [o \in Objects |-> IF o \in list THEN Closed(tabs[o]) ELSE tabs[o]]
  /\ list' = {}
  /\ auth' = "anonymous"
  /\ devices' \in {FALSE, poll}
  /\ crossed' = Loading
  /\ UNCHANGED <<ids, used, replaced, load, creates, deletes, rec>>

----------------------------------------------------------------------------
\* Tabs

CreateSession(o) ==
  /\ auth = "authenticated" /\ devices
  /\ o \notin used
  /\ list' = list \cup {o}
  /\ used' = used \cup {o}
  /\ creates' = [creates EXCEPT ![o] = Asked]
  /\ UNCHANGED <<page, tabs, ids, replaced, load, leaving, deletes, rec, crossed>>

CreateHandled(o, s) ==
  /\ creates[o] = Asked /\ rec[s] = "unused"
  /\ creates' = [creates EXCEPT ![o] = s]
  /\ rec' = [rec EXCEPT ![s] = "open"]
  /\ UNCHANGED <<page, tab, load, leaving, deletes, crossed>>

CreateAnswered(o) ==
  /\ creates[o] \in Sessions
  /\ ids' = [ids EXCEPT ![o] = creates[o]]
  /\ tabs' = [tabs EXCEPT ![o] = Provisioned(@)]
  /\ creates' = [creates EXCEPT ![o] = NoCall]
  /\ UNCHANGED <<page, list, used, replaced, load, leaving, deletes, rec, crossed>>

CreateFails(o) ==
  /\ creates[o] # NoCall
  /\ list' = list \ {o}
  /\ creates' = [creates EXCEPT ![o] = NoCall]
  /\ UNCHANGED <<page, tabs, ids, used, replaced, load, leaving, deletes, rec, crossed>>

\* One at a time for each tab.
CloseSession(o) ==
  /\ auth = "authenticated" /\ o \in list /\ deletes[o] = NoCall
  /\ deletes' = [deletes EXCEPT ![o] = ids[o]]
  /\ UNCHANGED <<page, tab, load, leaving, creates, rec, crossed>>

DeleteHandled(o) ==
  /\ deletes[o] \in Sessions /\ rec[deletes[o]] = "open"
  /\ rec' = [rec EXCEPT ![deletes[o]] = "closed"]
  /\ UNCHANGED <<page, tab, load, calls, crossed>>

\* Deleted or not, the tab is closed and taken from the list.
DeleteAnswered(o) ==
  /\ deletes[o] # NoCall
  /\ deletes' = [deletes EXCEPT ![o] = NoCall]
  /\ tabs' = [tabs EXCEPT ![o] = Closed(@)]
  /\ list' = list \ {o}
  /\ UNCHANGED <<page, ids, used, replaced, load, leaving, creates, rec, crossed>>

\* setActive opens a tab that is disconnected; reconnectSession any.
Reopen(o) ==
  /\ auth = "authenticated" /\ o \in list /\ tabs[o].state # "creating"
  /\ tabs' = [tabs EXCEPT ![o] = Opened(@)]
  /\ UNCHANGED <<page, list, ids, used, replaced, load, calls, rec, crossed>>

\* A tab's own steps.
TabMoves(o) ==
  /\ \E w \in Tab : Moves(tabs[o], w) /\ tabs' = [tabs EXCEPT ![o] = w]
  /\ UNCHANGED <<page, list, ids, used, replaced, load, calls, rec, crossed>>

\* A record ends, and is forgotten some time later, without this page.
RecordMoves(s) ==
  /\ rec[s] \in Known
  /\ rec' = [rec EXCEPT ![s] = IF @ = "open" THEN "closed" ELSE "purged"]
  /\ UNCHANGED <<page, tab, load, calls, crossed>>

PageNext ==
  \/ LoginAsked \/ Refreshed \/ LogoutAsked \/ LogoutAnswered
  \/ \E n \in Logins :
       \/ SignedIn(n) \/ NotSignedIn(n)
       \/ SessionsHandled(n) \/ SessionsAnswered(n) \/ SessionsFail(n)
       \/ \E ok \in BOOLEAN : DevicesAnswered(n, ok)
  \/ \E o \in Objects :
       \/ CreateSession(o) \/ CreateAnswered(o) \/ CreateFails(o)
       \/ CloseSession(o) \/ DeleteHandled(o) \/ DeleteAnswered(o)
       \/ Reopen(o) \/ TabMoves(o)
       \/ \E s \in Sessions : CreateHandled(o, s)
  \/ \E s \in Sessions : RecordMoves(s)

PageSpec == PageInit /\ [][PageNext]_pageVars

----------------------------------------------------------------------------
\* No two tabs of the page are for one session, however its creation, the reload of
\* the list and the answers to them are ordered (app-controller.ts:136, 229-234).
ListedOnce == \A o, p \in list : ids[o] = ids[p] => o = p

\* A tab that works is one the page lists, where the user can see and close it, unless
\* a reload of the list took its place (app-controller.ts:229); one the relay said
\* goodbye to is left to the relay to close.
NoStrays ==
  \A o \in Objects : tabs[o].lives /\ ~tabs[o].closed => o \in list \cup replaced

\* A page that is signed in refreshes its devices, or will when its load has ended,
\* whatever failed; one that is signed out has no timer and no tabs, unless it was
\* loading when it was signed out (app-controller.ts:96-114).
PollsWhileSignedIn ==
  /\ auth = "authenticated" => poll \/ Loading
  /\ auth = "anonymous" /\ ~crossed => ~poll /\ list = {}
=============================================================================
