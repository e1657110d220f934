----------------------------- MODULE PanelSession ------------------------------
(***************************************************************************)
(* Logging in and out as the browser sees it (App.tsx, AppLayout.tsx,      *)
(* LoginPage.tsx and api/client.ts under src/web/src).  What the panel     *)
(* believes is the cached answer of /api/session; what holds is the        *)
(* session at the server, which a logout, an expiry or an administrator    *)
(* elsewhere ends.  Three things move between the login page and the       *)
(* panel: RequireSession and the login page's effect, which go by the      *)
(* cache, and the first request that is answered 401, which loads the      *)
(* login page anew and with it an empty cache.                             *)
(***************************************************************************)
EXTENDS Integers

CONSTANTS
    MaxActs,     \* what users do, here or elsewhere
    MaxFailures  \* requests that fail

ASSUME SessionBounds == {MaxActs, MaxFailures} \subseteq Nat

VARIABLES
    auth_enabled,  \* the server asks for a login
    valid,         \* the browser's session holds at the server
    seen,          \* the tab is visible
    route,         \* "login", or a page of the panel
    target,        \* the login page's redirectTarget
    cached,        \* what the cache says of the session, "none" when empty
    age,           \* of the cached answer: "young", "stale" or "old"
    check,         \* the session query: "idle", "sent", or its answer
    request,       \* a request of the panel's page: "idle", "sent", or its answer
    login, logout, \* the mutations
    acts, failures

sessionServer == <<auth_enabled, valid>>
location == <<route, target>>
session == <<cached, age>>
mutations == <<login, logout>>
sessionVars == <<sessionServer, seen, location, session, check, request, mutations,
                 acts, failures>>

\* The overview polls while it is visible; a page like the settings does not.
Pages == {"overview", "settings"}

Answer401 == auth_enabled /\ ~valid

Acts == route # "closed" /\ acts < MaxActs /\ acts' = acts + 1

-----------------------------------------------------------------------------
(* The session query *)

\* Mounting a component that uses the query fetches when there are no data or
\* the data are older than its stale time: 30 seconds on the login page, five
\* minutes in the panel.
ChecksOnMount(page) ==
    cached = "none" \/ age = "old" \/ (page = "login" /\ age = "stale")

\* The page is entered within the application: main is keyed by the path.
Mount(page) ==
    /\ route' = page
    /\ check' = IF check = "idle" /\ ChecksOnMount(page) THEN "sent" ELSE check

\* The document is loaded: nothing is cached, nothing in flight is heard of.
Load(page) ==
    /\ route' = page
    /\ cached' = "none" /\ age' = "old"
    /\ check' = "sent"
    /\ request' = "idle" /\ login' = "idle" /\ logout' = "idle"

\* sessionHandler, public.
CheckIsServed ==
    /\ check = "sent"
    /\ check' = IF ~auth_enabled THEN "off" ELSE IF valid THEN "in" ELSE "out"
    /\ UNCHANGED <<sessionServer, seen, location, session, request, mutations, acts, failures>>

CheckLands ==
    /\ check \in {"in", "out", "off"}
    /\ cached' = check /\ age' = "young"
    /\ check' = "idle"
    /\ UNCHANGED <<sessionServer, seen, location, request, mutations, acts, failures>>

\* After its retry; 401 or not, this query never loads the login page.
CheckFails ==
    /\ check # "idle"
    /\ failures < MaxFailures /\ failures' = failures + 1
    /\ check' = "idle"
    /\ UNCHANGED <<sessionServer, seen, location, session, request, mutations, acts>>

Ages ==
    /\ cached # "none"
    /\ \/ age = "young" /\ age' = "stale"
       \/ age = "stale" /\ age' = "old"
    /\ UNCHANGED <<sessionServer, seen, location, cached, check, request, mutations, acts, failures>>

-----------------------------------------------------------------------------
(* RequireSession and the requests of the panel *)

InPanel == route \in Pages

\* RequireSession, rendered while the cache says that there is no session.
Bounce ==
    /\ InPanel
    /\ cached = "out"
    /\ target' = route
    /\ Mount("login")
    /\ UNCHANGED <<sessionServer, seen, session, request, mutations, acts, failures>>

\* The outlet is rendered: not while the first check is on its way, but also
\* when that has failed.
Outlet == InPanel /\ cached # "out" /\ (cached = "none" => check = "idle")

\* A page's query or mutation; only the overview's come by themselves.
RequestIsSent(page) ==
    /\ Outlet /\ route = page
    /\ page = "overview" => seen
    /\ request = "idle"
    /\ request' = "sent"
    /\ UNCHANGED <<sessionServer, seen, location, session, check, mutations, acts, failures>>

\* authMiddleware.
PageRequestIsServed ==
    /\ request = "sent"
    /\ request' = IF Answer401 THEN "unauthorized" ELSE "ok"
    /\ UNCHANGED <<sessionServer, seen, location, session, check, mutations, acts, failures>>

\* apiFetch: the login page is loaded with the current page as next, which
\* redirectTarget turns into "/" when that was the login page itself.
Unauthorized ==
    /\ Load("login")
    /\ target' = IF InPanel THEN route ELSE "overview"

\* Mutant of RequestLands: 401 is an error like any other.
RequestLandsQuietly ==
    /\ request \in {"ok", "unauthorized"}
    /\ request' = "idle"
    /\ UNCHANGED <<location, session, check, mutations, sessionServer, seen, acts, failures>>

RequestLands ==
    /\ \/ request = "ok" /\ request' = "idle"
          /\ UNCHANGED <<location, session, check, mutations>>
       \/ request = "unauthorized" /\ Unauthorized
    /\ UNCHANGED <<sessionServer, seen, acts, failures>>

RequestFails ==
    /\ request # "idle"
    /\ failures < MaxFailures /\ failures' = failures + 1
    /\ request' = "idle"
    /\ UNCHANGED <<sessionServer, seen, location, session, check, mutations, acts>>

-----------------------------------------------------------------------------
(* The login page *)

\* The effect on session.data; without authentication every page is open.
Enter ==
    /\ route = "login"
    /\ cached \in {"in", "off"}
    /\ Mount(target)
    /\ UNCHANGED <<sessionServer, seen, target, session, request, mutations, acts, failures>>

LoginIsSent ==
    /\ route = "login" /\ login = "idle" /\ Acts
    /\ login' = "sent"
    /\ UNCHANGED <<sessionServer, seen, location, session, check, request, logout, failures>>

\* loginHandler: the credentials are right and the answer sets the cookie.
LoginIsServed ==
    /\ login = "sent"
    /\ valid' = auth_enabled
    /\ login' = "ok"
    /\ UNCHANGED <<auth_enabled, seen, location, session, check, request, logout, acts, failures>>

\* They are wrong, or the request fails: a toast.
LoginFails ==
    /\ login = "sent"
    /\ failures < MaxFailures /\ failures' = failures + 1
    /\ login' = "idle"
    /\ UNCHANGED <<sessionServer, seen, location, session, check, request, logout, acts>>

\* onSuccess: the cache is set, and refreshSessionState fetches anew.  The
\* query that may be in flight is cancelled: its answer, which may still say
\* that there is no session, is not heard.
LoginSucceeds ==
    /\ login = "ok"
    /\ login' = "idle"
    /\ cached' = "in" /\ age' = "young"
    /\ route' = target
    /\ check' = "sent"
    /\ UNCHANGED <<sessionServer, seen, target, request, logout, acts, failures>>

-----------------------------------------------------------------------------
(* The layout's logout, and what happens elsewhere *)

LogoutIsSent ==
    /\ Outlet /\ logout = "idle" /\ Acts
    /\ logout' = "sent"
    /\ UNCHANGED <<sessionServer, seen, location, session, check, request, login, failures>>

\* The route requires a session: without one the answer is 401.
LogoutIsServed ==
    /\ logout = "sent"
    /\ logout' = IF Answer401 THEN "unauthorized" ELSE "ok"
    /\ valid' = FALSE
    /\ UNCHANGED <<auth_enabled, seen, location, session, check, request, login, acts, failures>>

\* The mutation's onSuccess; the cache still holds the session that was.
LogoutSucceeds ==
    /\ logout = "ok"
    /\ logout' = "idle"
    /\ target' = "overview"
    /\ Mount("login")
    /\ UNCHANGED <<sessionServer, seen, session, request, login, acts, failures>>

LogoutIsRefused ==
    /\ logout = "unauthorized"
    /\ Unauthorized
    /\ UNCHANGED <<sessionServer, seen, acts, failures>>

LogoutFails ==
    /\ logout # "idle"
    /\ failures < MaxFailures /\ failures' = failures + 1
    /\ logout' = "idle"
    /\ UNCHANGED <<sessionServer, seen, location, session, check, request, login, acts>>

\* The session expires or is revoked.
SessionEnds ==
    /\ valid /\ auth_enabled /\ Acts
    /\ valid' = FALSE
    /\ UNCHANGED <<auth_enabled, seen, location, session, check, request, mutations, failures>>

Navigate(page) ==
    /\ Outlet /\ page # route /\ Acts
    /\ Mount(page)
    /\ UNCHANGED <<sessionServer, seen, target, session, request, mutations, failures>>

Reloads ==
    /\ Acts
    /\ Load(route)
    /\ UNCHANGED <<sessionServer, seen, target, failures>>

VisibilityChanges ==
    /\ Acts
    /\ seen' = ~seen
    /\ UNCHANGED <<sessionServer, location, session, check, request, mutations, failures>>

\* The panel's address is opened.
Open ==
    /\ route = "closed"
    /\ route' \in Pages
    /\ check' = "sent" /\ seen' = TRUE
    /\ auth_enabled' \in BOOLEAN
    /\ valid' \in {b \in BOOLEAN : auth_enabled' \/ ~b}
    /\ UNCHANGED <<target, session, request, mutations, acts, failures>>

-----------------------------------------------------------------------------

SessionInit ==
    /\ auth_enabled = FALSE /\ valid = FALSE
    /\ seen = FALSE
    /\ route = "closed" /\ target = "overview"
    /\ cached = "none" /\ age = "old"
    /\ check = "idle" /\ request = "idle" /\ login = "idle" /\ logout = "idle"
    /\ acts = 0 /\ failures = 0

SessionNext ==
    \/ Open \/ Reloads \/ VisibilityChanges
    \/ CheckIsServed \/ CheckLands \/ CheckFails \/ Ages \/ Bounce
    \/ \E page \in Pages : RequestIsSent(page) \/ Navigate(page)
    \/ PageRequestIsServed \/ RequestLands \/ RequestFails
    \/ Enter \/ LoginIsSent \/ LoginIsServed \/ LoginFails \/ LoginSucceeds
    \/ LogoutIsSent \/ LogoutIsServed \/ LogoutSucceeds \/ LogoutIsRefused \/ LogoutFails
    \/ SessionEnds

\* Answers come, effects run, and the overview polls while it is visible.
SessionFairness ==
    /\ WF_sessionVars(CheckIsServed \/ CheckLands)
    /\ WF_sessionVars(Bounce \/ Enter)
    /\ WF_sessionVars(RequestIsSent("overview") \/ PageRequestIsServed \/ RequestLands)
    /\ WF_sessionVars(LoginSucceeds)
    /\ WF_sessionVars(LogoutSucceeds \/ LogoutIsRefused)

SessionSpec == SessionInit /\ [][SessionNext]_sessionVars /\ SessionFairness

-----------------------------------------------------------------------------
(* Properties *)

\* The routes, the cache and the requests keep to their states.
SessionTypeOK ==
    /\ route \in Pages \cup {"login", "closed"} /\ target \in Pages
    /\ cached \in {"none", "in", "out", "off"} /\ age \in {"young", "stale", "old"}
    /\ check \in {"idle", "sent", "in", "out", "off"}
    /\ request \in {"idle", "sent", "ok", "unauthorized"}
    /\ login \in {"idle", "sent", "ok"} /\ logout \in {"idle", "sent", "ok", "unauthorized"}
    /\ valid => auth_enabled

\* The panel does not go on showing what a cache remembers: once the session
\* is gone and the page polls, the browser comes to the login page and stays.
LogoutIsSeen ==
    <>[](auth_enabled /\ ~valid /\ seen /\ route # "settings") => <>[](route = "login")

\* Whoever has a session gets into the panel and is not sent back and forth:
\* no answer from before the login throws the browser out for good.
LoginGetsIn ==
    <>[](failures = 0 /\ route # "closed" /\ (valid \/ ~auth_enabled)) => <>[]InPanel

\* The browser follows its session both ways.
SessionIsFollowed == LogoutIsSeen /\ LoginGetsIn

=============================================================================
