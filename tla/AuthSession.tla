---------------------------- MODULE AuthSession ----------------------------
(***************************************************************************)
(* The signed-in session of the web client: the tokens in localStorage,    *)
(* the React context that mirrors them, the restore effect keyed by the    *)
(* two tokens, and the API calls whose 401 answers share one refresh.      *)
(*                                                                         *)
(* The browser runs one callback at a time, so every piece of code between *)
(* two awaits is one action.  An answer is an action of its own: it may    *)
(* come after the user has signed out or in again, or not until the next   *)
(* effect has run.  Reload drops everything but the storage.  There is one *)
(* tab: a second one would share the storage, not the event that announces *)
(* a change of it.                                                         *)
(***************************************************************************)
EXTENDS Naturals, FiniteSets

CONSTANTS
    Users, Admins,   \* the accounts, and those of them with role "admin"
    Calls,           \* bound: API calls awaited at once
    MaxTokens,       \* bound: token pairs the backend issues
    Visits,          \* bound: the routes the user opens by hand
    None             \* no token, no user, no role, no path

ASSUME AuthAssumption ==
    /\ Admins \subseteq Users
    /\ MaxTokens \in Nat \ {0}
    /\ Visits \subseteq {"home", "login", "customer", "order", "admin"}
    /\ None \notin Users \cup {"user", "admin", "order", "customer"}

Tokens == [user : Users, no : 1..MaxTokens]
\* No token is mistaken for "no token".
ASSUME TokensAssumption == None \notin Tokens

RoleOf(u) == IF u \in Admins THEN "admin" ELSE "user"

(***************************************************************************)
(* Routes: "customer" stands for /checkout, /payment and /profile, "order" *)
(* for /me/orders/:id, "admin" for everything under /admin.                *)
(***************************************************************************)
Paths     == {"home", "login", "customer", "order", "admin"}
Protected == {"customer", "order", "admin"}

\* Whether the route element of a path lets a role through.
Admits(p, r) == CASE p = "order" -> r = "user"
                  [] p = "admin" -> r = "admin"
                  [] OTHER       -> TRUE

PostLoginAsAsked(p, r)  == IF r = "admin" THEN "admin" ELSE p
PostLoginAnyRole(p, r)  == IF p \in Protected THEN p ELSE "customer"

\* Where a login with role r lands that was meant for path p, if any.
PostLogin(p, r) ==
    IF r = "admin" THEN "admin"
    ELSE IF p \in {"customer", "order"} THEN p ELSE "customer"

VARIABLES
    store,       \* localStorage [access, refresh, role] and sessionStorage [remembered]
    tab,         \* the AuthContext of this tab [access, refresh, role, user, loading]
    ran,         \* the token pair the restore effect last ran for
    calls,       \* [Calls -> the awaited API call: its kind and pc, the token it was
                 \*  sent with (not kept for a page's calls), whether it is current, and
                 \*  of a login the account (for) and the form's location.state.from (back)]
    refreshing,  \* the refresh token of the shared refreshPromise, or None
    path, from,  \* the current route, and location.state.from of the login page
    issued,      \* how many tokens the backend has issued
    overlap      \* history: the account has changed under a pending answer in this page
                 \*  load, or the load began with the tokens of two accounts

vars == <<store, tab, ran, calls, refreshing, path, from, issued, overlap>>

Idle      == [kind |-> "none", pc |-> "idle", token |-> None, current |-> FALSE,
              for |-> None, back |-> None]
SignedOut == [access |-> None, refresh |-> None, role |-> None, user |-> None, loading |-> FALSE]
Emptied   == [access |-> None, refresh |-> None, role |-> None, remembered |-> None]

\* Pending answers that speak for the account of the time they were sent.
Outstanding     == {c \in Calls : calls[c].kind \in {"me", "login"}}
IsAuthenticated == tab.access # None /\ tab.user # None
Keys(t)         == <<t.access, t.refresh>>
Fresh(u)        == [user |-> u, no |-> issued + 1]

\* syncAuthStorage: every write of the storage by this tab copies it into t.
Synced(st, t) ==
    IF st.access = None /\ st.refresh = None
    THEN [SignedOut EXCEPT !.role = st.role]
    ELSE [t EXCEPT !.access = st.access, !.refresh = st.refresh, !.role = st.role]

WithRoleOnce(st, u) == IF st.role = None THEN [st EXCEPT !.role = RoleOf(u)] ELSE st

\* setCurrentUser and setRole, with storeRole (and the event it raises).
WithRole(st, u) == [st EXCEPT !.role = RoleOf(u)]
Shown(st, t, u) == Synced(WithRole(st, u), [t EXCEPT !.user = u, !.role = RoleOf(u)])

Init ==
    /\ store \in {Emptied} \cup
                 {[access |-> a, refresh |-> [user |-> u, no |-> 1], role |-> RoleOf(u),
                   remembered |-> None]
                     : u \in Users, a \in {None} \cup {[user |-> v, no |-> 1] : v \in Users}}
    /\ store.access # None => store.access = store.refresh
    /\ tab = [access |-> store.access, refresh |-> store.refresh, role |-> store.role,
              user |-> None, loading |-> store.refresh # None]
    /\ ran = <<None, None>>
    /\ calls = [c \in Calls |-> Idle]
    /\ refreshing = None
    /\ path \in Visits /\ from = None
    /\ issued = 1
    /\ overlap = FALSE

-----------------------------------------------------------------------------
(* The restore effect and the login form.                                  *)

SupersededNever(cs) == cs

\* The cleanup of the effect marks the earlier restore as no longer current.
Superseded(cs) == [c \in Calls |->
    IF cs[c].kind = "restore" THEN [cs[c] EXCEPT !.current = FALSE] ELSE cs[c]]

RestoreCall ==
    LET base == [Idle EXCEPT !.kind = "restore", !.current = TRUE]
    IN  IF store.access = None /\ store.refresh # None
        THEN [base EXCEPT !.pc = "first"]
        ELSE [base EXCEPT !.pc = "sent", !.token = store.access]

RestoreSession(c) ==
    /\ Keys(tab) # ran
    /\ calls[c] = Idle
    /\ ran' = Keys(tab)
    /\ IF tab.access = None /\ tab.refresh = None
       THEN /\ calls' = Superseded(calls)
            /\ tab' = [tab EXCEPT !.user = None, !.loading = FALSE]
            /\ UNCHANGED refreshing
       ELSE /\ calls' = [Superseded(calls) EXCEPT ![c] = RestoreCall]
            /\ tab' = [tab EXCEPT !.loading = TRUE]
            /\ refreshing' = IF RestoreCall.pc = "first" /\ refreshing = None
                             THEN store.refresh ELSE refreshing
    /\ UNCHANGED <<store, path, from, issued, overlap>>

\* handleSubmit of the login page; the form is disabled while it is
\* submitting, but a login page left and opened again is a new form.
SubmitLogin(c, u) ==
    /\ path = "login"
    /\ calls[c] = Idle
    /\ \A d \in Calls : ~(calls[d].kind = "login" /\ calls[d].current)
    /\ calls' = [calls EXCEPT ![c] =
           [kind |-> "login", pc |-> "login", token |-> None, current |-> TRUE,
            for |-> u, back |-> from]]
    /\ tab' = [tab EXCEPT !.loading = TRUE]
    /\ UNCHANGED <<store, ran, refreshing, path, from, issued, overlap>>

\* The tokens are stored, then getCurrentUserRequest is sent with them.
LoginGranted(c) ==
    /\ calls[c].pc = "login"
    /\ issued < MaxTokens
    /\ LET token == Fresh(calls[c].for)
           st    == [store EXCEPT !.access = token, !.refresh = token]
       IN  /\ store' = st
           /\ tab' = Synced(st, tab)
           /\ calls' = [calls EXCEPT ![c].pc = "sent", ![c].token = token]
    /\ issued' = issued + 1
    /\ overlap' = (overlap \/ Outstanding # {c} \/ refreshing # None)
    /\ UNCHANGED <<ran, refreshing, path, from>>

LoginDeniedNoFinally(c) ==
    /\ calls[c].pc = "login"
    /\ calls' = [calls EXCEPT ![c] = Idle]
    /\ UNCHANGED <<store, tab, ran, refreshing, path, from, issued, overlap>>

LoginDenied(c) ==
    /\ calls[c].pc = "login"
    /\ calls' = [calls EXCEPT ![c] = Idle]
    /\ tab' = [tab EXCEPT !.loading = FALSE]
    /\ UNCHANGED <<store, ran, refreshing, path, from, issued, overlap>>

-----------------------------------------------------------------------------
(* Authenticated calls: the restore's and the login's getCurrentUserRequest,*)
(* refreshCurrentUser, and any request of a page.                          *)

Issue(c, kind, token) ==
    /\ calls[c] = Idle
    /\ calls' = [calls EXCEPT ![c] = [Idle EXCEPT !.kind = kind, !.pc = "sent", !.token = token]]
    /\ UNCHANGED <<store, tab, ran, refreshing, path, from, issued, overlap>>

\* refreshCurrentUser, once the profile has been saved.
RefreshUser(c) == path = "customer" /\ IsAuthenticated /\ Issue(c, "me", store.access)

\* Any other request of a page, of any route, goes through the same client.
PageCall(c) == Issue(c, "page", None)

Sent(c) == calls[c].pc \in {"sent", "resent"}

\* The backend answers with the user of the token; each caller does with it
\* what its code after the await does.  Only the restore asks whether it is
\* still current.
CallSucceeds(c) ==
    /\ Sent(c)
    /\ calls[c].kind = "page" \/ calls[c].token # None
    /\ calls' = [calls EXCEPT ![c] = Idle]
    /\ LET call == calls[c]
           u    == call.token.user
       IN  \/ /\ call.kind = "page" \/ (call.kind = "restore" /\ ~call.current)
              /\ UNCHANGED <<store, tab, path, from>>
           \/ /\ call.kind = "restore" /\ call.current
              /\ store' = WithRole(store, u)
              /\ tab' = [Shown(store, tab, u) EXCEPT !.loading = FALSE]
              /\ UNCHANGED <<path, from>>
           \/ /\ call.kind = "me"
              /\ store' = WithRole(store, u)
              /\ tab' = Shown(store, tab, u)
              /\ UNCHANGED <<path, from>>
           \/ /\ call.kind = "login"
              /\ path' = PostLogin(IF call.back # None THEN call.back
                                   ELSE store.remembered, RoleOf(u))
              /\ store' = [WithRole(store, u) EXCEPT !.remembered = None]
              /\ tab' = [Shown(store, tab, u) EXCEPT !.loading = FALSE]
              /\ from' = None
    /\ UNCHANGED <<ran, refreshing, issued, overlap>>

\* What the callers of the calls in F do when those are rejected.  The catch
\* of restoreSession clears the storage before it asks whether it is current.
Rejected(F, cleared) ==
    LET clears == cleared \/ \E c \in F : calls[c].kind \in {"restore", "login"}
    IN  /\ store' = IF clears THEN Emptied ELSE store
        /\ tab' = IF clears THEN SignedOut ELSE tab

\* A network failure, a 5xx answer, or a second 401.
CallFails(c) ==
    /\ Sent(c)
    /\ calls' = [calls EXCEPT ![c] = Idle]
    /\ Rejected({c}, FALSE)
    /\ UNCHANGED <<ran, refreshing, path, from, issued, overlap>>

\* The response interceptor at the first 401 of a call; the token it was sent
\* with may have expired at any time.
Unauthorized(c) ==
    /\ calls[c].pc = "sent"
    /\ IF store.refresh = None
       THEN /\ calls' = [calls EXCEPT ![c] = Idle]
            /\ Rejected({c}, TRUE)
            /\ UNCHANGED refreshing
       ELSE /\ calls' = [calls EXCEPT ![c].pc = "refresh", ![c].token = None]
            /\ refreshing' = IF refreshing = None THEN store.refresh ELSE refreshing
            /\ UNCHANGED <<store, tab>>
    /\ UNCHANGED <<ran, path, from, issued, overlap>>

WaitingRetries == {c \in Calls : calls[c].pc = "refresh"}

Waiting == {c \in Calls : calls[c].pc \in {"refresh", "first"}}

\* The refresh answer is stored whatever has happened to the storage since
\* it was sent; all who awaited it send their request, again or at last.
RefreshGranted ==
    /\ refreshing # None
    /\ issued < MaxTokens
    /\ LET token == Fresh(refreshing.user)
           st    == [store EXCEPT !.access = token]
       IN  /\ store' = st
           /\ tab' = Synced(st, tab)
           /\ calls' = [c \in Calls |->
                  IF c \notin Waiting THEN calls[c]
                  ELSE [calls[c] EXCEPT
                            !.token = IF calls[c].kind = "page" THEN None ELSE token,
                            !.pc = IF calls[c].pc = "first" THEN "sent" ELSE "resent"]]
    /\ overlap' = (overlap \/ store.refresh # refreshing)
    /\ issued' = issued + 1
    /\ refreshing' = None
    /\ UNCHANGED <<ran, path, from>>

RefreshDenied ==
    /\ refreshing # None
    /\ refreshing' = None
    /\ calls' = [c \in Calls |-> IF c \in Waiting THEN Idle ELSE calls[c]]
    /\ Rejected(Waiting, TRUE)
    /\ UNCHANGED <<ran, path, from, issued, overlap>>

-----------------------------------------------------------------------------
(* The user, the routes, and the world outside the tab.                    *)

\* A login page that is left takes its form with it, not its request.
Left(cs) == [c \in Calls |->
    IF cs[c].kind = "login" THEN [cs[c] EXCEPT !.current = FALSE] ELSE cs[c]]

Visit(p) ==
    /\ p # path
    /\ path' = p /\ from' = None
    /\ calls' = Left(calls)
    /\ UNCHANGED <<store, tab, ran, refreshing, issued, overlap>>

SignOut ==
    /\ calls' = Left(calls)
    /\ store' = Emptied
    /\ tab' = SignedOut
    /\ overlap' = (overlap \/ Outstanding # {} \/ refreshing # None)
    /\ UNCHANGED <<ran, refreshing, issued>>

\* The logout button of the header.
Logout == tab.user # None /\ ~tab.loading /\ path' = "home" /\ from' = None /\ SignOut

\* handleDeactivateAccount of the profile signs out and stays where it is.
Deactivate == path = "customer" /\ IsAuthenticated /\ UNCHANGED <<path, from>> /\ SignOut

\* ProtectedRoute sends a visitor to the login page and remembers the way
\* back, and a customer route that an admin opens to /admin.
Redirect ==
    /\ path \in Protected
    /\ ~tab.loading
    /\ \/ /\ ~IsAuthenticated
          /\ store' = [store EXCEPT !.remembered = path]
          /\ path' = "login" /\ from' = path
       \/ /\ IsAuthenticated /\ path = "order" /\ ~Admits(path, tab.role)
          /\ path' = "admin" /\ from' = None
          /\ UNCHANGED store
    /\ UNCHANGED <<tab, ran, calls, refreshing, issued, overlap>>

\* What ProtectedRoute renders on an admin route: the page, not a panel.
AdminPageShown == path = "admin" /\ ~tab.loading /\ IsAuthenticated /\ Admits(path, tab.role)

Reload ==
    /\ tab' = [access |-> store.access, refresh |-> store.refresh, role |-> store.role,
               user |-> None, loading |-> (store.access # None \/ store.refresh # None)]
    /\ ran' = <<None, None>>
    /\ calls' = [c \in Calls |-> Idle]
    /\ refreshing' = None
    /\ from' = None
    /\ overlap' = (store.access # None /\ store.refresh # None
                    /\ store.access.user # store.refresh.user)
    /\ UNCHANGED <<store, path, issued>>

Answer(c) == LoginGranted(c) \/ LoginDenied(c) \/ CallSucceeds(c) \/ CallFails(c) \/ Unauthorized(c)
Effect    == \E c \in Calls : RestoreSession(c)

Next ==
    \/ Effect
    \/ \E c \in Calls : Answer(c)
    \/ RefreshGranted
    \/ RefreshDenied
    \/ \E c \in Calls, u \in Users : SubmitLogin(c, u)
    \/ \E c \in Calls : RefreshUser(c) \/ PageCall(c)
    \/ \E p \in Visits : Visit(p)
    \/ Logout
    \/ Deactivate
    \/ Redirect
    \/ Reload

Spec == Init /\ [][Next]_vars

\* A request is answered or fails, and React runs its effects, strongly fair
\* because only the bound on Calls can hold one up; nothing is assumed about
\* the user, the routes or the expiry of tokens.
Fairness ==
    /\ SF_vars(Effect)
    /\ \A c \in Calls : WF_vars(Answer(c))
    /\ WF_vars(RefreshGranted \/ RefreshDenied)

FairSpec == Spec /\ Fairness

-----------------------------------------------------------------------------
(* Properties.                                                             *)

CallShape ==
    [kind : {"none", "restore", "login", "me", "page"},
     pc : {"idle", "login", "first", "sent", "refresh", "resent"},
     token : Tokens \cup {None}, current : BOOLEAN,
     for : Users \cup {None}, back : Protected \cup {None}]

\* Every variable has its type.
TypeOK ==
    /\ store \in [access : Tokens \cup {None}, refresh : Tokens \cup {None},
                  role : {"user", "admin", None}, remembered : Protected \cup {None}]
    /\ tab \in [access : Tokens \cup {None}, refresh : Tokens \cup {None},
                role : {"user", "admin", None}, user : Users \cup {None}, loading : BOOLEAN]
    /\ ran \in (Tokens \cup {None}) \X (Tokens \cup {None})
    /\ calls \in [Calls -> CallShape]
    /\ refreshing \in Tokens \cup {None}
    /\ path \in Paths /\ from \in Protected \cup {None}
    /\ issued \in 1..MaxTokens
    /\ overlap \in BOOLEAN

\* The role the context shows is the role of the user it shows, although four
\* pieces of code write the one or the other, two of them from the storage.
\* Another tab breaks it: its role is read with this tab's user.
RoleFollowsUser == tab.user # None => tab.role = RoleOf(tab.user)

\* ProtectedRoute renders an admin page only while the displayed user is an
\* administrator, whatever answers come late (the backend checks each request
\* again; this is about what is put on the screen).
AdminPageForAdmins == AdminPageShown => tab.user \in Admins

\* A login never lands on a route that refuses its role and sends it on: the
\* tables of routeAccess and of the router agree, wherever the visitor came from.
LandingAdmitted ==
    [][\A c \in Calls : calls[c].kind = "login" /\ Sent(c) /\ CallSucceeds(c) =>
          path' \in Protected /\ Admits(path', RoleOf(calls[c].token.user))]_vars

Settled == /\ Keys(tab) = ran /\ refreshing = None
           /\ \A c \in Calls : calls[c].kind \in {"none", "page"}

\* Once all answers are in, the tab shows the user whose token it sends, or
\* nobody when it has none, through refreshes, expiries, failures and reloads.
\* Excepted are page loads in which the account changed under a pending answer
\* (refreshCurrentUser, a second login and a refresh do not ask whether they
\* are still wanted), and page loads that began with the tokens of two accounts,
\* which such a refresh leaves in the storage.
SettledAgreement ==
    Settled /\ ~overlap =>
        \/ store.access = None /\ store.refresh = None /\ tab.user = None
        \/ store.access # None /\ tab.user = store.access.user

\* "Checking session" ends: isAuthLoading does not stay true, although the
\* effect that set it may be superseded before it ends, unless the user keeps
\* reloading the page.
LoadingEnds == []<><<Reload>>_vars \/ (tab.loading ~> ~tab.loading)

\* No call waits forever for the shared refresh, nor for anything else.
CallsEnd == \A c \in Calls : calls[c] # Idle ~> calls[c] = Idle
=============================================================================
