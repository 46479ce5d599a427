-------------------------------- MODULE Session --------------------------------
(***************************************************************************)
(* Who is logged in?  The tabs of one browser share the token in           *)
(* localStorage; each keeps a flag of its own (useAuthed) that route guard *)
(* and landing page act on.  A change of the token reaches the tab that    *)
(* made it at once and the others by a storage event.  A component reads   *)
(* the token when it renders and listens from its first effects on: what   *)
(* happens in between is missed.  Requests carry the token they were sent  *)
(* with, are never aborted, and any 401 clears whatever token is there by  *)
(* then.                                                                   *)
(*                                                                         *)
(* React runs a click's render and effects in one go; after anything else  *)
(* the effects are a step of their own (due).  Pages: the landing page at  *)
(* / and /login, the project list, and one page that polls.                *)
(***************************************************************************)
EXTENDS Naturals, FiniteSets

CONSTANTS
    Tab,       \* tabs of the browser
    Awake,     \* those whose event loop and network run on (a hidden tab may be frozen)
    MaxToken,  \* bound: logins that succeed
    MaxFlight  \* bound: requests one tab has under way

ASSUME BoundsNat == MaxToken \in Nat /\ MaxFlight \in Nat
ASSUME AwakeTabs == Awake \subseteq Tab

VARIABLES
    store,     \* the token in localStorage: 0, or the number of the login that wrote it
    issued,    \* tokens the server has issued
    expired,   \* how many of those have expired (they all live equally long)
    loc,       \* of each tab: the page
    from,      \* location.state.from, the page to return to
    authed,    \* useAuthed of the mounted component
    listening, \* whether that component has subscribed
    due,       \* whether effects of the last render have yet to run
    modal,     \* loginOpen
    busy,      \* LoginModal is waiting
    note,      \* a storage event is on its way to the tab
    missed,    \* the token changed between the component's render and its subscription
    flight     \* requests under way

server == <<issued, expired>>
page   == <<loc, from, modal, busy>>
flag   == <<authed, listening, due, missed>>
vars   == <<store, server, page, flag, note, flight>>

Protected == {"/projects", "/projects/:id/overview"}
Polling == "/projects/:id/overview"
Landing == {"/", "/login"}
Path == Protected \cup Landing

Request ==
    [tab : Tab, for : {"page"}, token : 0..MaxToken]
        \cup [tab : Tab, for : {"login"}, from : Protected]

Valid(k) == k # 0 /\ k > expired

TypeOK ==
    /\ issued \in 0..MaxToken
    /\ store \in 0..issued
    /\ expired \in 0..issued
    /\ loc \in [Tab -> Path]
    /\ from \in [Tab -> Protected]
    /\ authed \in [Tab -> BOOLEAN]
    /\ listening \in [Tab -> BOOLEAN]
    /\ due \in [Tab -> BOOLEAN]
    /\ modal \in [Tab -> BOOLEAN]
    /\ busy \in [Tab -> BOOLEAN]
    /\ note \in [Tab -> BOOLEAN]
    /\ missed \in [Tab -> BOOLEAN]
    /\ flight \subseteq Request

\* Every tab is opened somewhere, with no token stored.
Init ==
    /\ store = 0 /\ issued = 0 /\ expired = 0
    /\ loc \in [Tab -> Path]
    /\ from = [t \in Tab |-> "/projects"]
    /\ authed = [t \in Tab |-> FALSE]
    /\ listening = [t \in Tab |-> FALSE]
    /\ due = [t \in Tab |-> TRUE]
    /\ modal = [t \in Tab |-> FALSE]
    /\ busy = [t \in Tab |-> FALSE]
    /\ note = [t \in Tab |-> FALSE]
    /\ missed = [t \in Tab |-> FALSE]
    /\ flight = {}

----------------------------------------------------------------------------
(* localStorage and its listeners *)

\* The subscriber of tab t reads the token, now s: React renders if the flag changes.
Hears(t, s) ==
    IF listening[t]
    THEN /\ authed' = [authed EXCEPT ![t] = s # 0]
         /\ due' = [due EXCEPT ![t] = @ \/ authed[t] # (s # 0)]
         /\ missed' = [missed EXCEPT ![t] = FALSE]
         /\ UNCHANGED listening
    ELSE /\ missed' = [missed EXCEPT ![t] = authed[t] # (s # 0)]
         /\ UNCHANGED <<authed, due, listening>>

\* Another component takes the page; it starts from the token there is, now s.
Mounts(t, s, listens) ==
    /\ authed' = [authed EXCEPT ![t] = s # 0]
    /\ listening' = [listening EXCEPT ![t] = listens]
    /\ due' = [due EXCEPT ![t] = TRUE]
    /\ missed' = [missed EXCEPT ![t] = FALSE]

\* Mutant: subscribe listens for the event of its own tab only.
WriteUnheard(t, s) ==
    /\ store' = s
    /\ UNCHANGED note

\* setAuth or clearAuth in tab t: the other tabs are told if the token changes.
Write(t, s) ==
    /\ store' = s
    /\ note' = [u \in Tab |-> note[u] \/ (u # t /\ s # store)]

Deliver(t) ==
    /\ note[t]
    /\ note' = [note EXCEPT ![t] = FALSE]
    /\ Hears(t, store)
    /\ UNCHANGED <<store, server, page, flight>>

----------------------------------------------------------------------------
(* Effects *)

\* Navigate and the Landing effect replace the page while their own component is
\* subscribing; the page that follows is a fresh mount.
MovesOn(t, p) ==
    /\ loc' = [loc EXCEPT ![t] = p]
    /\ modal' = [modal EXCEPT ![t] = FALSE]
    /\ busy' = [busy EXCEPT ![t] = FALSE]
    /\ Mounts(t, store, FALSE)

\* Mutant: the location is read after the move.
RedirectFromLogin(t) ==
    /\ due[t]
    /\ loc[t] \in Protected
    /\ ~authed[t]
    /\ MovesOn(t, "/login")
    /\ from' = [from EXCEPT ![t] = "/login"]
    /\ UNCHANGED <<store, server, note, flight>>

\* The guard: RequireAuth renders <Navigate to="/login" replace state={from}>.
Redirect(t) ==
    /\ due[t]
    /\ loc[t] \in Protected
    /\ ~authed[t]
    /\ MovesOn(t, "/login")
    /\ from' = [from EXCEPT ![t] = loc[t]]
    /\ UNCHANGED <<store, server, note, flight>>

Guarded(t) ==
    /\ due[t]
    /\ loc[t] \in Protected
    /\ authed[t]
    /\ listening' = [listening EXCEPT ![t] = TRUE]
    /\ due' = [due EXCEPT ![t] = FALSE]
    /\ UNCHANGED <<store, server, page, authed, missed, note, flight>>

\* Landing's effect: /login skips to /projects when logged in, else opens the modal;
\* elsewhere it closes it.
SkipLogin(t) ==
    /\ due[t]
    /\ loc[t] = "/login"
    /\ authed[t]
    /\ MovesOn(t, "/projects")
    /\ from' = [from EXCEPT ![t] = "/projects"]
    /\ UNCHANGED <<store, server, note, flight>>

SyncModal(t) ==
    /\ due[t]
    /\ loc[t] \in Landing
    /\ ~(loc[t] = "/login" /\ authed[t])
    /\ modal' = [modal EXCEPT ![t] = loc[t] = "/login"]
    /\ busy' = [busy EXCEPT ![t] = @ /\ loc[t] = "/login"]
    /\ listening' = [listening EXCEPT ![t] = TRUE]
    /\ due' = [due EXCEPT ![t] = FALSE]
    /\ UNCHANGED <<store, server, loc, from, authed, missed, note, flight>>

Effects(t) == Redirect(t) \/ Guarded(t) \/ SkipLogin(t) \/ SyncModal(t)

\* Requests of one tab with one token are told apart no further.
Send(r) ==
    /\ r \notin flight
    /\ Cardinality({q \in flight : q.tab = r.tab}) < MaxFlight
    /\ flight' = flight \cup {r}

----------------------------------------------------------------------------
(* The landing page and its login modal *)

\* A click takes tab t to page p: rendered and subscribed in one go.  The route guard
\* outlives a move between protected pages, Landing one between / and /login.
Goes(t, p) ==
    /\ loc' = [loc EXCEPT ![t] = p]
    /\ IF (loc[t] \in Protected) = (p \in Protected)
       THEN due' = [due EXCEPT ![t] = TRUE] /\ UNCHANGED <<authed, listening, missed>>
       ELSE Mounts(t, store, TRUE)

OpenConsole(t) ==
    /\ loc[t] \in Landing
    /\ ~modal[t]
    /\ Goes(t, IF authed[t] THEN "/projects" ELSE "/login")
    /\ from' = [from EXCEPT ![t] = "/projects"]
    /\ UNCHANGED <<store, server, modal, busy, note, flight>>

\* Mutant: the modal closes and the path stays.
CloseLoginStays(t) ==
    /\ modal[t]
    /\ modal' = [modal EXCEPT ![t] = FALSE]
    /\ busy' = [busy EXCEPT ![t] = FALSE]
    /\ UNCHANGED <<store, server, loc, from, flag, note, flight>>

\* ESC, backdrop or button.  A login under way is not called back.
CloseLogin(t) ==
    /\ modal[t]
    /\ Goes(t, "/")
    /\ modal' = [modal EXCEPT ![t] = FALSE]
    /\ busy' = [busy EXCEPT ![t] = FALSE]
    /\ from' = [from EXCEPT ![t] = "/projects"]
    /\ UNCHANGED <<store, server, note, flight>>

Submit(t) ==
    /\ modal[t]
    /\ ~busy[t]
    /\ Send([tab |-> t, for |-> "login", from |-> from[t]])
    /\ busy' = [busy EXCEPT ![t] = TRUE]
    /\ UNCHANGED <<store, server, loc, from, modal, flag, note>>

\* The tab goes where the page it was sent from had been asked to return, wherever it
\* is by now.
LoggedIn(r) ==
    /\ r.for = "login"
    /\ issued < MaxToken
    /\ issued' = issued + 1
    /\ Write(r.tab, issued')
    /\ loc' = [loc EXCEPT ![r.tab] = r.from]
    /\ from' = [from EXCEPT ![r.tab] = "/projects"]
    /\ IF loc[r.tab] \in Protected THEN Hears(r.tab, issued') ELSE Mounts(r.tab, issued', FALSE)
    /\ modal' = [modal EXCEPT ![r.tab] = FALSE]
    /\ busy' = [busy EXCEPT ![r.tab] = FALSE]
    /\ flight' = flight \ {r}
    /\ UNCHANGED expired

----------------------------------------------------------------------------
(* Requests *)

Ask(t) ==
    /\ loc[t] \in Protected
    /\ authed[t]
    /\ ~due[t]
    /\ Send([tab |-> t, for |-> "page", token |-> store])
    /\ UNCHANGED <<store, server, page, flag, note>>

\* Mutant: every failure logs the user out, not a 401 alone.
RefusedAnyFailure(r) ==
    /\ flight' = flight \ {r}
    /\ Write(r.tab, 0)
    /\ Hears(r.tab, 0)
    /\ busy' = [busy EXCEPT ![r.tab] = @ /\ r.for # "login"]
    /\ UNCHANGED <<server, loc, from, modal>>

\* Mutant: a 401 is an error like any other.
RefusedThrows(r) ==
    /\ r.for = "page" => ~Valid(r.token)
    /\ flight' = flight \ {r}
    /\ busy' = [busy EXCEPT ![r.tab] = @ /\ r.for # "login"]
    /\ UNCHANGED <<store, server, loc, from, modal, flag, note>>

\* 401: no token, one that has expired by the time the server looks, or, of a login,
\* wrong credentials.
Refused(r) ==
    /\ r.for = "page" => ~Valid(r.token)
    /\ flight' = flight \ {r}
    /\ Write(r.tab, 0)
    /\ Hears(r.tab, 0)
    /\ busy' = [busy EXCEPT ![r.tab] = @ /\ r.for # "login"]
    /\ UNCHANGED <<server, loc, from, modal>>

\* Any other answer, or none: a token may also have passed before it expired.
Settled(r) ==
    /\ flight' = flight \ {r}
    /\ busy' = [busy EXCEPT ![r.tab] = @ /\ r.for # "login"]
    /\ UNCHANGED <<store, server, loc, from, modal, flag, note>>

Expire ==
    /\ expired < issued
    /\ expired' = expired + 1
    /\ UNCHANGED <<store, issued, page, flag, note, flight>>

----------------------------------------------------------------------------
(* The user *)

\* Sidebar: clearAuth, then to /login with nowhere to return to.
Logout(t) ==
    /\ loc[t] \in Protected
    /\ authed[t]
    /\ Write(t, 0)
    /\ Mounts(t, 0, TRUE)
    /\ loc' = [loc EXCEPT ![t] = "/login"]
    /\ from' = [from EXCEPT ![t] = "/projects"]
    /\ UNCHANGED <<server, modal, busy, flight>>

\* A link of the sidebar; its brand leads to the landing page.
Follow(t, p) ==
    /\ loc[t] \in Protected
    /\ authed[t]
    /\ p \in Protected \cup {"/"}
    /\ p # loc[t]
    /\ Goes(t, p)
    /\ from' = [from EXCEPT ![t] = "/projects"]
    /\ UNCHANGED <<store, server, modal, busy, note, flight>>

\* A reload, or a link from elsewhere: the tab starts over and forgets its requests.
Open(t, p) ==
    /\ loc' = [loc EXCEPT ![t] = p]
    /\ from' = [from EXCEPT ![t] = "/projects"]
    /\ modal' = [modal EXCEPT ![t] = FALSE]
    /\ busy' = [busy EXCEPT ![t] = FALSE]
    /\ Mounts(t, store, FALSE)
    /\ note' = [note EXCEPT ![t] = FALSE]
    /\ flight' = {r \in flight : r.tab # t}
    /\ UNCHANGED <<store, server>>

TabStep(t) ==
    \/ Deliver(t)
    \/ Effects(t)
    \/ OpenConsole(t)
    \/ CloseLogin(t)
    \/ Submit(t)
    \/ Ask(t)
    \/ Logout(t)
    \/ \E p \in Path : Follow(t, p) \/ Open(t, p)

Next ==
    \/ \E t \in Tab : TabStep(t)
    \/ \E r \in flight : LoggedIn(r) \/ Refused(r) \/ Settled(r)
    \/ Expire

\* The event loop runs effects and delivers events; the polling page asks whenever it is
\* mounted and again every 10 s, however often it is reloaded; a
\* network that goes on answering lets a refusal through in the end.
Fairness ==
    \A t \in Awake :
        /\ WF_vars(Effects(t))
        /\ SF_vars(loc[t] = Polling /\ Ask(t))
        /\ SF_vars(\E r \in flight : r.tab = t /\ Refused(r))
        /\ WF_vars(\E r \in flight : r.tab = t /\ Settled(r))

Spec == Init /\ [][Next]_vars /\ Fairness

----------------------------------------------------------------------------
(* Properties *)

\* lib/auth.ts:3: subscribers react to a logout from any tab.  A component's flag
\* agrees with the token unless word is on its way or it changed between the
\* component's render and its subscription.
FlagAgrees ==
    \A t \in Tab : ~note[t] /\ ~missed[t] => (authed[t] <=> store # 0)

\* Once its effects have run a tab shows what its flag and path say: a protected page
\* only to somebody logged in, the login modal at /login alone and only to somebody
\* who is not, whatever closed, opened, answered or moved in between.
ShowsItsPath ==
    \A t \in Tab : ~due[t] =>
        /\ loc[t] \in Protected => authed[t]
        /\ loc[t] \in Landing => (modal[t] <=> loc[t] = "/login")
        /\ loc[t] = "/login" => ~authed[t]

\* A login is lost only to a logout, to somebody mistyping a password, or to a token
\* that has expired: a 401 that comes late, sent with an older token, is the only one
\* that ends a session that is still good.
EndsForCause ==
    [][Valid(store) /\ store' = 0 =>
        \/ \E t \in Tab : authed[t] /\ loc[t] \in Protected /\ loc'[t] = "/login"
        \/ \E r \in flight \ flight' : r.for = "login" \/ r.token < store]_vars

\* The guards push whoever the server no longer knows to /login (lib/api.ts:28): a tab
\* on a polling page leaves it, or somebody logs in again, even if it missed the event.
PushedOut ==
    \A t \in Awake :
        loc[t] = Polling /\ ~Valid(store) ~> loc[t] # Polling \/ Valid(store)
=============================================================================
