------------------------------- MODULE Session -------------------------------
(***************************************************************************)
(* The frontend's sessions: the signals and the shared login promise of   *)
(* src/frontend/src/hooks/use-auth.ts, local storage (api/client.ts), the *)
(* shell of app.component.ts and the route guards of router/index.ts, in  *)
(* several tabs of one browser, against a backend that comes and goes.    *)
(*                                                                         *)
(* A step is one event of the browser with the callbacks that run before  *)
(* the next event.  Every login is for the same account, an admin, so a   *)
(* session passes every guard; only that there is one is modelled.        *)
(***************************************************************************)
EXTENDS Naturals

CONSTANTS
    Tabs,
    Routes,      \* the guarded routes
    MaxLogins,   \* bounds the login requests a tab has in flight
    None         \* no route; a tab that is closed

VARIABLES
    tabs,      \* the tabs, each with its signals and its router
    storage,   \* local storage, which all tabs share, holds a session
    up         \* the backend answers

vars == <<tabs, storage, up>>

Tab == [session        : BOOLEAN,               \* the signal is not null
        loading        : BOOLEAN,               \* the signal: the shell is hidden
        authentication : BOOLEAN,               \* the promise is not null
        logins         : Nat,                   \* login requests in flight ...
        earlier        : Nat,                   \* ... from before the last logout
        renewed        : BOOLEAN,               \* session is from after it
        nav            : Routes \cup {None},    \* what a guard holds back
        url            : Routes \cup {None}]    \* where the router is

ASSUME ConstantsAssumption ==
    /\ "units" \in Routes
    /\ None \notin Routes \cup Tab
    /\ MaxLogins \in Nat

\* Tabs stay within their type, and a tab without a login in flight holds no
\* navigation back: only an answer to a login could let it go on.
TypeOK ==
    /\ tabs \in [Tabs -> Tab \cup {None}]
    /\ \A t \in Tabs : tabs[t] # None /\ tabs[t].logins + tabs[t].earlier = 0
          => tabs[t].nav = None
    /\ storage \in BOOLEAN
    /\ up \in BOOLEAN

Open(t) == tabs[t] # None

Init ==
    /\ tabs = [t \in Tabs |-> None]
    /\ storage = FALSE
    /\ up \in BOOLEAN

-----------------------------------------------------------------------------
(* use-auth.ts and the guards, as functions of a tab                       *)

\* Mutant: every call of authenticate sends a login of its own.
LogInAgain(tab) ==
    [tab EXCEPT !.loading = TRUE, !.authentication = TRUE, !.logins = @ + 1]

\* Mutant: the flag that hides the shell is not set.
LogInVisibly(tab) ==
    IF tab.authentication THEN tab
    ELSE [tab EXCEPT !.authentication = TRUE, !.logins = @ + 1]

\* authenticate beyond its first line: one promise is shared by all callers.
LogIn(tab) ==
    IF tab.authentication THEN tab
    ELSE [tab EXCEPT !.loading = TRUE, !.authentication = TRUE, !.logins = @ + 1]

\* requireRole: the guard lets a session pass and waits for a login otherwise.
Guarded(tab, route) ==
    IF tab.session THEN [tab EXCEPT !.url = route, !.nav = None]
    ELSE LogIn([tab EXCEPT !.nav = route])

\* Mutant: a login that ended leaves its promise behind.
SettledKeepingPromise(tab) == [tab EXCEPT !.loading = FALSE]

\* Mutant: a login that ended leaves the shell hidden.
SettledHidden(tab) == [tab EXCEPT !.authentication = FALSE]

\* The finally of authenticate.
Settled(tab) == [tab EXCEPT !.loading = FALSE, !.authentication = FALSE]

\* A login that was waited for succeeded.
LoggedIn(tab, current) ==
    LET now == [Settled(tab) EXCEPT !.session = TRUE, !.renewed = current]
    IN  IF now.nav = None THEN now ELSE Guarded(now, now.nav)

\* It failed: the guard redirects to /units.  Being there already, the router
\* ignores the redirect; otherwise the guard of /units logs in once more.
LoginFailed(tab) ==
    LET now == Settled(tab)
    IN  IF now.nav = None THEN now
        ELSE IF now.url = "units" THEN [now EXCEPT !.nav = None]
        ELSE Guarded(now, "units")

-----------------------------------------------------------------------------
(* What the user does                                                      *)

\* A tab is opened or reloaded: the module reads the storage, then the root
\* component authenticates and the router guards its first navigation.
Load(t) ==
    \E route \in Routes :
        LET new == [session |-> storage, loading |-> ~storage,
                    authentication |-> FALSE, logins |-> 0, earlier |-> 0,
                    renewed |-> storage, nav |-> None, url |-> None]
        IN  tabs' = [tabs EXCEPT ![t] =
                        Guarded(IF storage THEN new ELSE LogIn(new), route)]
    /\ UNCHANGED <<storage, up>>

Close(t) ==
    /\ Open(t)
    /\ tabs' = [tabs EXCEPT ![t] = None]
    /\ UNCHANGED <<storage, up>>

\* A link of the shell, or the browser's history, which works without a shell.
Navigate(t) ==
    /\ Open(t) /\ tabs[t].logins < MaxLogins
    /\ \E route \in Routes \ {tabs[t].url} :
          tabs' = [tabs EXCEPT ![t] = Guarded(tabs[t], route)]
    /\ UNCHANGED <<storage, up>>

\* The button is part of the shell.
Logout(t) ==
    /\ Open(t) /\ ~tabs[t].loading
    /\ tabs' = [tabs EXCEPT ![t] =
          LogIn([tabs[t] EXCEPT !.session = FALSE,
                    !.logins = 0, !.earlier = tabs[t].earlier + tabs[t].logins])]
    /\ storage' = FALSE
    /\ UNCHANGED up

-----------------------------------------------------------------------------
(* Answers of the backend                                                  *)

\* One of the logins in flight, numbered from its tab's last logout.
Answered(t, current) ==
    /\ Open(t)
    /\ IF current THEN tabs[t].logins > 0 ELSE tabs[t].earlier > 0

TakeOne(tab, current) ==
    IF current THEN [tab EXCEPT !.logins = @ - 1] ELSE [tab EXCEPT !.earlier = @ - 1]

LoginSucceeds(t) ==
    \E current \in BOOLEAN :
        /\ up /\ Answered(t, current)
        /\ tabs' = [tabs EXCEPT ![t] = LoggedIn(TakeOne(tabs[t], current), current)]
        /\ storage' = TRUE
        /\ UNCHANGED up

LoginFails(t) ==
    \E current \in BOOLEAN :
        /\ ~up /\ Answered(t, current)
        /\ tabs' = [tabs EXCEPT ![t] = LoginFailed(TakeOne(tabs[t], current))]
        /\ UNCHANGED <<storage, up>>

LoginEnds(t) == LoginSucceeds(t) \/ LoginFails(t)

\* The backend, its database or the network goes away, and comes back.
Turn ==
    /\ up' = ~up
    /\ UNCHANGED <<tabs, storage>>

Next ==
    \/ \E t \in Tabs :
          Load(t) \/ Close(t) \/ Navigate(t) \/ Logout(t)
             \/ LoginSucceeds(t) \/ LoginFails(t)
    \/ Turn

Spec == Init /\ [][Next]_vars

\* A request is answered or runs into an error: fetch does not wait for ever.
FairSpec == Spec /\ \A t \in Tabs : WF_vars(LoginEnds(t))

-----------------------------------------------------------------------------
(* Properties                                                              *)

\* The root component, the guards and the button share one login: however
\* they overlap, a tab never has two in flight.
OneLogin == \A t \in Tabs : Open(t) => tabs[t].logins + tabs[t].earlier <= 1

\* After "log in again" the session is one that was asked for afterwards: no
\* answer to an earlier login comes back in its place.
FreshAfterLogout == \A t \in Tabs : Open(t) /\ tabs[t].session => tabs[t].renewed

\* The shell is hidden only while a login can still bring it back.
ShellReturns ==
    \A t \in Tabs :
        Open(t) /\ tabs[t].loading => tabs[t].logins + tabs[t].earlier > 0

\* Once the backend stays up, every tab gets past its guards and its spinner
\* again and again, whatever failed before: redirects to /units do not go
\* round for ever.
Arrived(t) == Open(t) => ~tabs[t].loading /\ tabs[t].nav = None

NavigationSettles == <>[]up => \A t \in Tabs : []<>Arrived(t)
=============================================================================
