------------------------- MODULE AuthSessionProofs -------------------------
(***************************************************************************)
(* Proofs about AuthSession, for any accounts, any number of calls and any *)
(* number of tokens.  The invariant that carries them is Mirrored: the     *)
(* context shows the access token, the refresh token and the role that the *)
(* storage holds, because every write of the storage is followed by a copy *)
(* of it.  It is what makes a role read from the storage the role of the   *)
(* user that is shown.                                                     *)
(***************************************************************************)
EXTENDS AuthSession, TLAPS

Mirrored ==
    /\ tab.access = store.access
    /\ tab.refresh = store.refresh
    /\ tab.role = store.role

\* A login that waits for its tokens knows its account.
LoginsHaveAccounts == \A c \in Calls : calls[c].pc = "login" => calls[c].for \in Users

IInv == TypeOK /\ Mirrored /\ RoleFollowsUser /\ LoginsHaveAccounts

Storage == [access : Tokens \cup {None}, refresh : Tokens \cup {None},
            role : {"user", "admin", None}, remembered : Protected \cup {None}]
Context == [access : Tokens \cup {None}, refresh : Tokens \cup {None},
            role : {"user", "admin", None}, user : Users \cup {None}, loading : BOOLEAN]

-----------------------------------------------------------------------------
(* What the helpers return.                                                *)

\* A new token is one of the tokens while the bound is not reached.
LEMMA FreshIsToken ==
    ASSUME NEW u \in Users, issued \in 1 .. MaxTokens, issued < MaxTokens
    PROVE  Fresh(u) \in Tokens /\ issued + 1 \in 1 .. MaxTokens
BY AuthAssumption DEF Fresh, Tokens

\* syncAuthStorage leaves a context that mirrors the storage, and a user only
\* if there was one.
LEMMA SyncedMirrors ==
    ASSUME NEW st \in Storage, NEW t \in Context
    PROVE  /\ Synced(st, t) \in Context
           /\ Synced(st, t).access = st.access
           /\ Synced(st, t).refresh = st.refresh
           /\ Synced(st, t).role = st.role
           /\ Synced(st, t).user \in {None, t.user}
BY DEF Synced, SignedOut, Storage, Context

\* A user shown is shown with the role that is stored for that user.
LEMMA ShownMirrors ==
    ASSUME NEW st \in Storage, NEW t \in Context, NEW u \in Users
    PROVE  /\ WithRole(st, u) \in Storage
           /\ Shown(st, t, u) \in Context
           /\ Shown(st, t, u).access = st.access
           /\ Shown(st, t, u).refresh = st.refresh
           /\ Shown(st, t, u).role = RoleOf(u)
           /\ WithRole(st, u) = [st EXCEPT !.role = RoleOf(u)]
           /\ Shown(st, t, u).user \in {None, u}
<1> DEFINE s == WithRole(st, u)
           k == [t EXCEPT !.user = u, !.role = RoleOf(u)]
<1>1. RoleOf(u) \in {"user", "admin"}
  BY DEF RoleOf
<1>2. s \in Storage /\ s.role = RoleOf(u) /\ s.access = st.access /\ s.refresh = st.refresh
  BY <1>1 DEF WithRole, Storage
<1>3. k \in Context /\ k.user = u
  BY <1>1 DEF Context
<1>4. Shown(st, t, u) = Synced(s, k)
  BY DEF Shown
<1>5. /\ Synced(s, k) \in Context
      /\ Synced(s, k).access = s.access /\ Synced(s, k).refresh = s.refresh
      /\ Synced(s, k).role = s.role /\ Synced(s, k).user \in {None, k.user}
  BY <1>2, <1>3, SyncedMirrors
<1> HIDE DEF k
<1>6. /\ Shown(st, t, u) \in Context
      /\ Shown(st, t, u).access = st.access /\ Shown(st, t, u).refresh = st.refresh
      /\ Shown(st, t, u).role = RoleOf(u) /\ Shown(st, t, u).user \in {None, u}
  BY <1>2, <1>3, <1>4, <1>5
<1> QED
  BY <1>2, <1>6 DEF WithRole

\* A rejected call leaves the storage and the context as they were, or empty.
LEMMA RejectedMirrors ==
    ASSUME TypeOK, Mirrored, RoleFollowsUser, NEW F, NEW b, Rejected(F, b)
    PROVE  /\ store' \in Storage /\ tab' \in Context
           /\ Mirrored' /\ RoleFollowsUser'
<1>1. CASE store' = store /\ tab' = tab
  BY <1>1 DEF TypeOK, Mirrored, RoleFollowsUser, Storage, Context
<1>2. CASE store' = Emptied /\ tab' = SignedOut
  BY <1>2 DEF Mirrored, RoleFollowsUser, Storage, Context, Emptied, SignedOut
<1> QED
  BY <1>1, <1>2 DEF Rejected

-----------------------------------------------------------------------------
(* The steps.                                                              *)

\* A state whose parts have their types and mirror the storage satisfies IInv.
LEMMA InvariantFromParts ==
    ASSUME store' \in Storage, tab' \in Context, Mirrored', RoleFollowsUser',
           calls' \in [Calls -> CallShape], LoginsHaveAccounts',
           ran' \in (Tokens \cup {None}) \X (Tokens \cup {None}),
           refreshing' \in Tokens \cup {None}, path' \in Paths,
           from' \in Protected \cup {None}, issued' \in 1 .. MaxTokens, overlap' \in BOOLEAN
    PROVE  IInv'
BY DEF IInv, TypeOK, Storage, Context

LEMMA IdleShape == Idle \in CallShape /\ Idle.pc = "idle"
BY DEF Idle, CallShape

\* A call becomes idle.
LEMMA CallDone ==
    ASSUME TypeOK, LoginsHaveAccounts, NEW c \in Calls, calls' = [calls EXCEPT ![c] = Idle]
    PROVE  calls' \in [Calls -> CallShape] /\ LoginsHaveAccounts'
BY IdleShape DEF TypeOK, LoginsHaveAccounts

\* A call changes, and does not become a login.
LEMMA CallChanged ==
    ASSUME TypeOK, LoginsHaveAccounts, NEW c \in Calls, NEW k \in CallShape,
           k.pc # "login", calls' = [calls EXCEPT ![c] = k]
    PROVE  calls' \in [Calls -> CallShape] /\ LoginsHaveAccounts'
BY DEF TypeOK, LoginsHaveAccounts

LEMMA InitInv == Init => IInv
<1> SUFFICES ASSUME Init PROVE IInv
  OBVIOUS
<1>1. \A u \in Users : [user |-> u, no |-> 1] \in Tokens /\ RoleOf(u) \in {"user", "admin"}
  BY AuthAssumption DEF Tokens, RoleOf
<1>2. store \in Storage
  BY <1>1 DEF Init, Storage, Emptied
<1>3. tab \in Context /\ Mirrored /\ RoleFollowsUser
  BY <1>2 DEF Init, Storage, Context, Mirrored, RoleFollowsUser
<1>4. calls \in [Calls -> CallShape] /\ LoginsHaveAccounts
  BY IdleShape DEF Init, LoginsHaveAccounts
<1>5. path \in Paths /\ issued \in 1 .. MaxTokens
  BY AuthAssumption DEF Init, Paths
<1>6. /\ ran \in (Tokens \cup {None}) \X (Tokens \cup {None})
      /\ refreshing \in Tokens \cup {None} /\ from \in Protected \cup {None}
  BY DEF Init
<1>7. overlap \in BOOLEAN
  BY DEF Init
<1>8. TypeOK
  BY <1>2, <1>3, <1>4, <1>5, <1>6, <1>7 DEF TypeOK, Storage, Context
<1> QED
  BY <1>3, <1>4, <1>8 DEF IInv

LEMMA RestoreKeeps ==
    ASSUME IInv, NEW c \in Calls, RestoreSession(c)
    PROVE  IInv'
<1> USE DEF IInv
<1>1. Superseded(calls) \in [Calls -> CallShape]
  BY DEF TypeOK, Superseded, CallShape
<1>2. \A d \in Calls : /\ Superseded(calls)[d].pc = calls[d].pc
                       /\ Superseded(calls)[d].for = calls[d].for
  BY DEF TypeOK, Superseded, CallShape
<1>3. RestoreCall \in CallShape /\ RestoreCall.pc # "login"
  <2>1. store.access \in Tokens \cup {None}
    BY DEF TypeOK
  <2> QED
    BY <2>1 DEF RestoreCall, Idle, CallShape
<1>4. calls' \in [Calls -> CallShape] /\ LoginsHaveAccounts'
  <2>1. CASE calls' = Superseded(calls)
    BY <2>1, <1>1, <1>2 DEF LoginsHaveAccounts
  <2>2. CASE calls' = [Superseded(calls) EXCEPT ![c] = RestoreCall]
    BY <2>2, <1>1, <1>2, <1>3 DEF LoginsHaveAccounts
  <2> QED
    BY <2>1, <2>2 DEF RestoreSession
<1>5. store' \in Storage /\ tab' \in Context /\ Mirrored' /\ RoleFollowsUser'
  <2>1. store' = store /\ tab' \in {[tab EXCEPT !.user = None, !.loading = FALSE],
                                    [tab EXCEPT !.loading = TRUE]}
    BY DEF RestoreSession
  <2> QED
    BY <2>1 DEF TypeOK, Mirrored, RoleFollowsUser, Storage, Context
<1>6. /\ ran' \in (Tokens \cup {None}) \X (Tokens \cup {None})
      /\ refreshing' \in Tokens \cup {None}
      /\ UNCHANGED <<path, from, issued, overlap>>
  BY DEF RestoreSession, TypeOK, Keys
<1> QED
  BY <1>4, <1>5, <1>6, InvariantFromParts DEF TypeOK

LEMMA SubmitKeeps ==
    ASSUME IInv, NEW c \in Calls, NEW u \in Users, SubmitLogin(c, u)
    PROVE  IInv'
<1> USE DEF IInv
<1>1. calls' \in [Calls -> CallShape] /\ LoginsHaveAccounts'
  BY DEF SubmitLogin, TypeOK, CallShape, LoginsHaveAccounts
<1>2. store' \in Storage /\ tab' \in Context /\ Mirrored' /\ RoleFollowsUser'
  BY DEF SubmitLogin, TypeOK, Mirrored, RoleFollowsUser, Storage, Context
<1> QED
  BY <1>1, <1>2, InvariantFromParts DEF TypeOK, SubmitLogin

LEMMA LoginGrantedKeeps ==
    ASSUME IInv, NEW c \in Calls, LoginGranted(c)
    PROVE  IInv'
<1> USE DEF IInv
<1> DEFINE token == Fresh(calls[c].for)
           st    == [store EXCEPT !.access = token, !.refresh = token]
<1>1. token \in Tokens /\ issued + 1 \in 1 .. MaxTokens
  BY FreshIsToken DEF TypeOK, LoginsHaveAccounts, LoginGranted
<1> HIDE DEF token
<1>2. st \in Storage /\ st.role = store.role
  BY <1>1 DEF TypeOK, Storage
<1>3. store' = st /\ tab' = Synced(st, tab) /\ issued' = issued + 1
      /\ calls' = [calls EXCEPT ![c].pc = "sent", ![c].token = token]
  BY DEF LoginGranted, token
<1>4. calls' \in [Calls -> CallShape] /\ LoginsHaveAccounts'
  <2> DEFINE k == [calls[c] EXCEPT !.pc = "sent", !.token = token]
  <2>1. k \in CallShape /\ k.pc # "login"
    BY <1>1 DEF TypeOK, CallShape
  <2>2. calls' = [calls EXCEPT ![c] = k]
    BY <1>3
  <2> HIDE DEF k
  <2> QED
    BY <2>1, <2>2, CallChanged
<1> HIDE DEF st
<1>5. store' \in Storage /\ tab' \in Context /\ Mirrored' /\ RoleFollowsUser'
  <2>1. tab \in Context
    BY DEF TypeOK, Context
  <2>2. /\ Synced(st, tab) \in Context
        /\ Synced(st, tab).access = st.access /\ Synced(st, tab).refresh = st.refresh
        /\ Synced(st, tab).role = st.role /\ Synced(st, tab).user \in {None, tab.user}
    BY <1>2, <2>1, SyncedMirrors
  <2> QED
    BY <1>2, <1>3, <2>2 DEF Mirrored, RoleFollowsUser
<1>6. ran' = ran /\ refreshing' = refreshing /\ path' = path /\ from' = from
      /\ overlap' \in BOOLEAN
  BY DEF LoginGranted
<1> QED
  BY <1>1, <1>3, <1>4, <1>5, <1>6, InvariantFromParts DEF TypeOK

LEMMA LoginDeniedKeeps ==
    ASSUME IInv, NEW c \in Calls, LoginDenied(c)
    PROVE  IInv'
<1> USE DEF IInv
<1>1. calls' \in [Calls -> CallShape] /\ LoginsHaveAccounts'
  BY CallDone DEF LoginDenied
<1>2. store' \in Storage /\ tab' \in Context /\ Mirrored' /\ RoleFollowsUser'
  BY DEF LoginDenied, TypeOK, Mirrored, RoleFollowsUser, Storage, Context
<1> QED
  BY <1>1, <1>2, InvariantFromParts DEF TypeOK, LoginDenied

LEMMA SucceedsKeeps ==
    ASSUME IInv, NEW c \in Calls, CallSucceeds(c)
    PROVE  IInv'
<1> USE DEF IInv
<1> DEFINE u == calls[c].token.user
<1>1. calls' \in [Calls -> CallShape] /\ LoginsHaveAccounts'
  BY CallDone DEF CallSucceeds
<1>2. store \in Storage /\ tab \in Context
  BY DEF TypeOK, Storage, Context
<1>3. CASE UNCHANGED <<store, tab, path, from>>
  BY <1>1, <1>2, <1>3, InvariantFromParts DEF TypeOK, CallSucceeds, Mirrored, RoleFollowsUser
<1>4. ASSUME calls[c].kind # "page"
      PROVE  /\ WithRole(store, u) \in Storage
             /\ WithRole(store, u) = [store EXCEPT !.role = RoleOf(u)]
             /\ Shown(store, tab, u) \in Context
             /\ Shown(store, tab, u).access = store.access
             /\ Shown(store, tab, u).refresh = store.refresh
             /\ Shown(store, tab, u).role = RoleOf(u)
             /\ Shown(store, tab, u).user \in {None, u}
  <2>1. calls[c].token \in Tokens
    BY <1>4 DEF CallSucceeds, TypeOK, CallShape
  <2>2. u \in Users
    BY <2>1 DEF Tokens
  <2> HIDE DEF u
  <2> QED
    BY <1>2, <2>2, ShownMirrors
<1>5. ASSUME NEW st \in {WithRole(store, u), [WithRole(store, u) EXCEPT !.remembered = None]},
             NEW t \in {Shown(store, tab, u), [Shown(store, tab, u) EXCEPT !.loading = FALSE]},
             calls[c].kind # "page", store' = st, tab' = t,
             path' \in Paths, from' \in Protected \cup {None}
      PROVE  IInv'
  <2> DEFINE w == WithRole(store, u)
             v == Shown(store, tab, u)
  <2>1. /\ w \in Storage /\ w = [store EXCEPT !.role = RoleOf(u)]
        /\ v \in Context /\ v.access = store.access /\ v.refresh = store.refresh
        /\ v.role = RoleOf(u) /\ v.user \in {None, u}
    BY <1>4, <1>5
  <2>2. /\ store' \in {w, [w EXCEPT !.remembered = None]}
        /\ tab' \in {v, [v EXCEPT !.loading = FALSE]}
    BY <1>5
  <2> HIDE DEF w, v, u
  <2>3. /\ store' \in Storage /\ store'.access = store.access
        /\ store'.refresh = store.refresh /\ store'.role = RoleOf(u)
    BY <1>2, <2>1, <2>2 DEF Storage
  <2>4. /\ tab' \in Context /\ tab'.access = store.access /\ tab'.refresh = store.refresh
        /\ tab'.role = RoleOf(u) /\ tab'.user \in {None, u}
    BY <2>1, <2>2 DEF Context
  <2>5. Mirrored' /\ RoleFollowsUser'
    BY <2>3, <2>4 DEF Mirrored, RoleFollowsUser
  <2>6. UNCHANGED <<ran, refreshing, issued, overlap>>
    BY DEF CallSucceeds
  <2> QED
    BY <1>1, <1>5, <2>3, <2>4, <2>5, <2>6, InvariantFromParts DEF TypeOK
<1>6. CASE /\ calls[c].kind \in {"restore", "me"}
           /\ store' = WithRole(store, u)
           /\ tab' \in {Shown(store, tab, u), [Shown(store, tab, u) EXCEPT !.loading = FALSE]}
           /\ UNCHANGED <<path, from>>
  BY <1>5, <1>6 DEF TypeOK
<1>7. CASE /\ calls[c].kind = "login"
           /\ path' = PostLogin(IF calls[c].back # None THEN calls[c].back
                                ELSE store.remembered, RoleOf(u))
           /\ store' = [WithRole(store, u) EXCEPT !.remembered = None]
           /\ tab' = [Shown(store, tab, u) EXCEPT !.loading = FALSE]
           /\ from' = None
  <2>1. path' \in Paths
    BY <1>7 DEF PostLogin, Paths
  <2> QED
    BY <1>5, <1>7, <2>1
<1> QED
  BY <1>3, <1>6, <1>7 DEF CallSucceeds

LEMMA FailsKeeps ==
    ASSUME IInv, NEW c \in Calls, CallFails(c)
    PROVE  IInv'
<1> USE DEF IInv
<1>1. calls' \in [Calls -> CallShape] /\ LoginsHaveAccounts'
  BY CallDone DEF CallFails
<1>2. store' \in Storage /\ tab' \in Context /\ Mirrored' /\ RoleFollowsUser'
  BY RejectedMirrors DEF CallFails
<1> QED
  BY <1>1, <1>2, InvariantFromParts DEF TypeOK, CallFails

LEMMA UnauthorizedKeeps ==
    ASSUME IInv, NEW c \in Calls, Unauthorized(c)
    PROVE  IInv'
<1> USE DEF IInv
<1>1. /\ UNCHANGED <<ran, path, from, issued, overlap>>
      /\ refreshing' \in Tokens \cup {None}
  BY DEF Unauthorized, TypeOK
<1>2. CASE store.refresh = None
  <2>1. calls' \in [Calls -> CallShape] /\ LoginsHaveAccounts'
    BY <1>2, CallDone DEF Unauthorized
  <2>2. store' \in Storage /\ tab' \in Context /\ Mirrored' /\ RoleFollowsUser'
    BY <1>2, RejectedMirrors DEF Unauthorized
  <2> QED
    BY <1>1, <2>1, <2>2, InvariantFromParts DEF TypeOK
<1>3. CASE store.refresh # None
  <2> DEFINE k == [calls[c] EXCEPT !.pc = "refresh", !.token = None]
  <2>1. k \in CallShape /\ k.pc # "login"
    BY DEF TypeOK, CallShape
  <2>2. calls' = [calls EXCEPT ![c] = k] /\ UNCHANGED <<store, tab>>
    BY <1>3 DEF Unauthorized
  <2> HIDE DEF k
  <2>3. calls' \in [Calls -> CallShape] /\ LoginsHaveAccounts'
    BY <2>1, <2>2, CallChanged
  <2>4. store' \in Storage /\ tab' \in Context /\ Mirrored' /\ RoleFollowsUser'
    BY <2>2 DEF TypeOK, Mirrored, RoleFollowsUser, Storage, Context
  <2> QED
    BY <1>1, <2>3, <2>4, InvariantFromParts DEF TypeOK
<1> QED
  BY <1>2, <1>3

LEMMA RefreshGrantedKeeps ==
    ASSUME IInv, RefreshGranted
    PROVE  IInv'
<1> USE DEF IInv
<1> DEFINE token == Fresh(refreshing.user)
           st    == [store EXCEPT !.access = token]
<1>1. token \in Tokens /\ issued + 1 \in 1 .. MaxTokens
  <2>1. refreshing \in Tokens
    BY DEF RefreshGranted, TypeOK
  <2>2. refreshing.user \in Users
    BY <2>1 DEF Tokens
  <2> QED
    BY <2>2, FreshIsToken DEF TypeOK, RefreshGranted
<1>2. /\ store' = st /\ tab' = Synced(st, tab) /\ issued' = issued + 1
      /\ calls' = [d \in Calls |->
             IF d \notin Waiting THEN calls[d]
             ELSE [calls[d] EXCEPT !.token = IF calls[d].kind = "page" THEN None ELSE token,
                                   !.pc = IF calls[d].pc = "first" THEN "sent" ELSE "resent"]]
  BY DEF RefreshGranted
<1> HIDE DEF token
<1>3. st \in Storage /\ st.role = store.role
  BY <1>1 DEF TypeOK, Storage
<1>4. calls' \in [Calls -> CallShape] /\ LoginsHaveAccounts'
  <2>1. \A d \in Calls \ Waiting : calls'[d] = calls[d]
    BY <1>2
  <2>2. \A d \in Calls \cap Waiting : calls'[d] \in CallShape /\ calls'[d].pc # "login"
    <3> TAKE d \in Calls \cap Waiting
    <3> DEFINE at == IF calls[d].kind = "page" THEN None ELSE token
               pc == IF calls[d].pc = "first" THEN "sent" ELSE "resent"
    <3>1. calls'[d] = [calls[d] EXCEPT !.token = at, !.pc = pc]
      BY <1>2
    <3>2. at \in Tokens \cup {None} /\ pc \in {"sent", "resent"}
      BY <1>1
    <3> HIDE DEF at, pc
    <3> QED
      BY <3>1, <3>2 DEF TypeOK, CallShape
  <2>3. calls' = [d \in Calls |-> calls'[d]]
    BY <1>2
  <2> QED
    BY <2>1, <2>2, <2>3 DEF TypeOK, LoginsHaveAccounts
<1> HIDE DEF st
<1>5. store' \in Storage /\ tab' \in Context /\ Mirrored' /\ RoleFollowsUser'
  <2>1. tab \in Context
    BY DEF TypeOK, Context
  <2>2. /\ Synced(st, tab) \in Context
        /\ Synced(st, tab).access = st.access /\ Synced(st, tab).refresh = st.refresh
        /\ Synced(st, tab).role = st.role /\ Synced(st, tab).user \in {None, tab.user}
    BY <1>3, <2>1, SyncedMirrors
  <2> QED
    BY <1>2, <1>3, <2>2 DEF Mirrored, RoleFollowsUser
<1>6. /\ refreshing' = None /\ ran' = ran /\ path' = path /\ from' = from
      /\ overlap' \in BOOLEAN
  BY DEF RefreshGranted, TypeOK
<1> QED
  BY <1>1, <1>2, <1>4, <1>5, <1>6, InvariantFromParts DEF TypeOK

LEMMA RefreshDeniedKeeps ==
    ASSUME IInv, RefreshDenied
    PROVE  IInv'
<1> USE DEF IInv
<1>1. calls' \in [Calls -> CallShape] /\ LoginsHaveAccounts'
  BY IdleShape DEF RefreshDenied, TypeOK, LoginsHaveAccounts
<1>2. store' \in Storage /\ tab' \in Context /\ Mirrored' /\ RoleFollowsUser'
  BY RejectedMirrors DEF RefreshDenied
<1> QED
  BY <1>1, <1>2, InvariantFromParts DEF TypeOK, RefreshDenied

LEMMA IssueKeeps ==
    ASSUME IInv, NEW c \in Calls, NEW kind \in {"me", "page"},
           NEW token \in Tokens \cup {None}, Issue(c, kind, token)
    PROVE  IInv'
<1> USE DEF IInv
<1> DEFINE k == [Idle EXCEPT !.kind = kind, !.pc = "sent", !.token = token]
<1>1. k \in CallShape /\ k.pc # "login"
  BY DEF CallShape, Idle
<1>2. calls' = [calls EXCEPT ![c] = k]
  BY DEF Issue
<1> HIDE DEF k
<1>3. calls' \in [Calls -> CallShape] /\ LoginsHaveAccounts'
  BY <1>1, <1>2, CallChanged
<1>4. store' \in Storage /\ tab' \in Context /\ Mirrored' /\ RoleFollowsUser'
  BY DEF Issue, TypeOK, Mirrored, RoleFollowsUser, Storage, Context
<1> QED
  BY <1>3, <1>4, InvariantFromParts DEF TypeOK, Issue

\* A form that is left keeps its request.
LEMMA LeftShape ==
    ASSUME TypeOK, LoginsHaveAccounts, calls' = Left(calls)
    PROVE  calls' \in [Calls -> CallShape] /\ LoginsHaveAccounts'
<1>1. Left(calls) \in [Calls -> CallShape]
  BY DEF TypeOK, Left, CallShape
<1>2. \A d \in Calls : Left(calls)[d].pc = calls[d].pc /\ Left(calls)[d].for = calls[d].for
  BY DEF TypeOK, Left, CallShape
<1> QED
  BY <1>1, <1>2 DEF LoginsHaveAccounts

LEMMA VisitKeeps ==
    ASSUME IInv, NEW p \in Visits, Visit(p)
    PROVE  IInv'
<1> USE DEF IInv
<1>1. calls' \in [Calls -> CallShape] /\ LoginsHaveAccounts'
  BY LeftShape DEF Visit
<1>2. store' \in Storage /\ tab' \in Context /\ Mirrored' /\ RoleFollowsUser'
  BY DEF Visit, TypeOK, Mirrored, RoleFollowsUser, Storage, Context
<1>3. path' \in Paths /\ from' \in Protected \cup {None}
  BY AuthAssumption DEF Visit, Paths
<1> QED
  BY <1>1, <1>2, <1>3, InvariantFromParts DEF TypeOK, Visit

LEMMA SignOutKeeps ==
    ASSUME IInv, SignOut, path' \in Paths, from' \in Protected \cup {None}
    PROVE  IInv'
<1> USE DEF IInv
<1>1. calls' \in [Calls -> CallShape] /\ LoginsHaveAccounts'
  BY LeftShape DEF SignOut
<1>2. store' \in Storage /\ tab' \in Context /\ Mirrored' /\ RoleFollowsUser'
  BY DEF SignOut, Mirrored, RoleFollowsUser, Storage, Context, Emptied, SignedOut
<1>3. overlap' \in BOOLEAN
  BY DEF SignOut, TypeOK
<1> QED
  BY <1>1, <1>2, <1>3, InvariantFromParts DEF TypeOK, SignOut

LEMMA RedirectKeeps ==
    ASSUME IInv, Redirect
    PROVE  IInv'
<1> USE DEF IInv
<1>1. store' \in {store, [store EXCEPT !.remembered = path]} /\ path \in Protected
      /\ path' \in Paths /\ from' \in Protected \cup {None}
      /\ UNCHANGED <<tab, ran, calls, refreshing, issued, overlap>>
  BY DEF Redirect, Paths
<1>2. store' \in Storage /\ tab' \in Context /\ Mirrored' /\ RoleFollowsUser'
  BY <1>1 DEF TypeOK, Mirrored, RoleFollowsUser, Storage, Context
<1>3. calls' \in [Calls -> CallShape] /\ LoginsHaveAccounts'
  BY <1>1 DEF TypeOK, LoginsHaveAccounts
<1> QED
  BY <1>1, <1>2, <1>3, InvariantFromParts DEF TypeOK

LEMMA ReloadKeeps ==
    ASSUME IInv, Reload
    PROVE  IInv'
<1> USE DEF IInv
<1>1. calls' \in [Calls -> CallShape] /\ LoginsHaveAccounts'
  BY IdleShape DEF Reload, LoginsHaveAccounts
<1>2. store' \in Storage /\ tab' \in Context /\ Mirrored' /\ RoleFollowsUser'
  BY DEF Reload, TypeOK, Mirrored, RoleFollowsUser, Storage, Context
<1>3. /\ ran' \in (Tokens \cup {None}) \X (Tokens \cup {None})
      /\ refreshing' = None /\ from' = None /\ overlap' \in BOOLEAN
  BY DEF Reload
<1> QED
  BY <1>1, <1>2, <1>3, InvariantFromParts DEF TypeOK, Reload

-----------------------------------------------------------------------------
(* The theorems.                                                           *)

LEMMA StepKeeps == IInv /\ [Next]_vars => IInv'
<1> SUFFICES ASSUME IInv, [Next]_vars PROVE IInv'
  OBVIOUS
<1>1. ASSUME NEW c \in Calls, RestoreSession(c) PROVE IInv'
  BY <1>1, RestoreKeeps
<1>2. ASSUME NEW c \in Calls, Answer(c) PROVE IInv'
  BY <1>2, LoginGrantedKeeps, LoginDeniedKeeps, SucceedsKeeps, FailsKeeps,
     UnauthorizedKeeps DEF Answer
<1>3. CASE RefreshGranted \/ RefreshDenied
  BY <1>3, RefreshGrantedKeeps, RefreshDeniedKeeps
<1>4. ASSUME NEW c \in Calls, NEW u \in Users, SubmitLogin(c, u) PROVE IInv'
  BY <1>4, SubmitKeeps
<1>5. ASSUME NEW c \in Calls, RefreshUser(c) \/ PageCall(c) PROVE IInv'
  <2>1. store.access \in Tokens \cup {None}
    BY DEF IInv, TypeOK
  <2> QED
    BY <1>5, <2>1, IssueKeeps DEF RefreshUser, PageCall
<1>6. ASSUME NEW p \in Visits, Visit(p) PROVE IInv'
  BY <1>6, VisitKeeps
<1>7. CASE Logout
  BY <1>7, SignOutKeeps DEF Logout, Paths
<1>8. CASE Deactivate
  BY <1>8, SignOutKeeps DEF Deactivate, IInv, TypeOK
<1>9. CASE Redirect \/ Reload
  BY <1>9, RedirectKeeps, ReloadKeeps
<1>10. CASE UNCHANGED vars
  BY <1>10 DEF vars, IInv, TypeOK, Mirrored, RoleFollowsUser, LoginsHaveAccounts
<1> QED
  BY <1>1, <1>2, <1>3, <1>4, <1>5, <1>6, <1>7, <1>8, <1>9, <1>10 DEF Next, Effect

\* The invariant holds in every state of every behaviour.
THEOREM Invariance == Spec => []IInv
<1>1. Init => IInv
  BY InitInv
<1>2. IInv /\ [Next]_vars => IInv'
  BY StepKeeps
<1> QED
  BY <1>1, <1>2, PTL DEF Spec

\* Every variable of the signed-in session keeps its type.
THEOREM TypeCorrect == Spec => []TypeOK
<1>1. IInv => TypeOK
  BY DEF IInv
<1> QED
  BY <1>1, Invariance, PTL

\* The role that AuthContext shows is the role of the user that it shows,
\* whichever of the four writers was the last.
THEOREM RoleIsTheUsers == Spec => []RoleFollowsUser
<1>1. IInv => RoleFollowsUser
  BY DEF IInv
<1> QED
  BY <1>1, Invariance, PTL

\* ProtectedRoute shows an admin page to administrators only, in whatever
\* order the answers of the API come.
THEOREM AdminPagesForAdmins == Spec => []AdminPageForAdmins
<1>1. IInv => AdminPageForAdmins
  <2> SUFFICES ASSUME IInv, AdminPageShown PROVE tab.user \in Admins
    BY DEF AdminPageForAdmins
  <2>1. tab.user # None /\ tab.role = "admin"
    BY DEF AdminPageShown, IsAuthenticated, Admits
  <2> QED
    BY <2>1 DEF IInv, RoleFollowsUser, RoleOf
<1> QED
  BY <1>1, Invariance, PTL

\* A login lands on a route that the router opens to its role, wherever the
\* visitor came from.
THEOREM LoginsLandWhereAdmitted == Spec => LandingAdmitted
<1>1. ASSUME NEW c \in Calls, calls[c].kind = "login", CallSucceeds(c)
      PROVE  path' \in Protected /\ Admits(path', RoleOf(calls[c].token.user))
  <2> DEFINE r == RoleOf(calls[c].token.user)
  <2>1. PICK p : path' = PostLogin(p, r)
    BY <1>1 DEF CallSucceeds
  <2>2. r \in {"user", "admin"}
    BY DEF RoleOf
  <2> HIDE DEF r
  <2>3. \/ path' = "admin" /\ r = "admin"
        \/ path' \in {"customer", "order"} /\ r = "user"
    BY <2>1, <2>2 DEF PostLogin
  <2> QED
    BY <2>3 DEF Protected, Admits, r
<1>2. [Next]_vars => [\A c \in Calls : calls[c].kind = "login" /\ Sent(c) /\ CallSucceeds(c) =>
          path' \in Protected /\ Admits(path', RoleOf(calls[c].token.user))]_vars
  BY <1>1
<1> QED
  BY <1>2, PTL DEF Spec, LandingAdmitted

-----------------------------------------------------------------------------
(* Whom the tab shows.  While the account has not changed under a pending  *)
(* answer, all tokens in play are those of one account, and a tab whose    *)
(* keys are the ones the restore effect ran for shows that account, or     *)
(* still has the restore that will show it.                                *)

Owned(st, u) ==
    /\ st.access # None => st.access.user = u
    /\ st.refresh # None => st.refresh.user = u

\* Nobody is shown to a storage without tokens.
ShownHasTokens == tab.user # None => store.access # None \/ store.refresh # None

\* The tokens kept were issued, so that a new one differs from them.
TokensAreOld == \A t \in {ran[1], store.access} : t # None => t.no <= issued

Pending(c) == calls[c].kind = "restore" /\ calls[c].current

\* The current restore was sent with the access token the effect ran for.
RestoresRan ==
    \A c \in Calls : Pending(c) =>
        /\ ran # <<None, None>>
        /\ Keys(tab) = ran => \/ calls[c].pc \in {"first", "refresh"}
                              \/ calls[c].pc = "sent" /\ calls[c].token = store.access

OneAccount ==
    /\ store.access # None /\ store.refresh # None => store.access.user = store.refresh.user
    /\ refreshing # None => \/ store.refresh = refreshing
                            \/ store.access = None /\ store.refresh = None
    /\ \A c \in Outstanding : calls[c].token # None => Owned(store, calls[c].token.user)

ShowsOwner ==
    Keys(tab) = ran /\ ran # <<None, None>> =>
        \/ \E c \in Calls : Pending(c)
        \/ store.access # None /\ tab.user = store.access.user

Agreeing == ~overlap => OneAccount /\ ShowsOwner

LoginsAreLogins == \A c \in Calls : calls[c].pc = "login" => calls[c].kind = "login"

JInv == ShownHasTokens /\ TokensAreOld /\ RestoresRan /\ LoginsAreLogins /\ Agreeing

LEMMA TokensCount == \A t \in Tokens : t.user \in Users /\ t.no \in 1 .. MaxTokens
BY DEF Tokens

\* A storage that is emptied agrees with whatever is shown and awaited.
LEMMA EmptiedAgrees ==
    ASSUME IInv, JInv, store' = Emptied, tab' = SignedOut, ran' = ran, issued' = issued,
           refreshing' \in {refreshing, None},
           \A c \in Calls : Pending(c)' => Pending(c), LoginsAreLogins'
    PROVE  JInv'
<1>1. Keys(tab') = <<None, None>> /\ tab'.user = None
  BY DEF Keys, SignedOut
<1>2. ShownHasTokens' /\ TokensAreOld'
  BY <1>1 DEF ShownHasTokens, TokensAreOld, JInv, Emptied
<1>3. RestoresRan'
  BY <1>1 DEF RestoresRan, JInv
<1>4. OneAccount'
  BY DEF OneAccount, Owned, Emptied
<1>5. ShowsOwner'
  BY <1>1 DEF ShowsOwner
<1> QED
  BY <1>2, <1>3, <1>4, <1>5 DEF JInv, Agreeing

\* A step that leaves the tokens and the user alone agrees if it begins no call
\* that speaks for another account and ends no current restore.
LEMMA QuietAgrees ==
    ASSUME IInv, JInv, store'.access = store.access, store'.refresh = store.refresh,
           tab'.access = tab.access, tab'.refresh = tab.refresh, tab'.user = tab.user,
           UNCHANGED <<ran, issued, overlap>>,
           refreshing' = refreshing \/ (refreshing = None /\ refreshing' = store.refresh),
           LoginsAreLogins',
           \A d \in Calls :
               /\ calls'[d].kind \in {"me", "login"} /\ calls'[d].token # None =>
                      \/ calls[d].kind = calls'[d].kind /\ calls'[d].token = calls[d].token
                      \/ store.access # None /\ calls'[d].token = store.access
               /\ Pending(d)' <=> Pending(d)
               /\ Pending(d) => \/ calls'[d].pc \in {"first", "refresh"}
                                \/ calls'[d].pc = calls[d].pc /\ calls'[d].token = calls[d].token
    PROVE  JInv'
<1>1. Keys(tab') = Keys(tab)
  BY DEF Keys
<1>2. ShownHasTokens' /\ TokensAreOld'
  BY DEF ShownHasTokens, TokensAreOld, JInv
<1>3. RestoresRan'
  BY <1>1 DEF RestoresRan, JInv
<1>4. ASSUME OneAccount PROVE OneAccount'
  <2>1. ASSUME NEW d \in Calls, calls'[d].kind \in {"me", "login"}, calls'[d].token # None
        PROVE  Owned(store, calls'[d].token.user)
    BY <1>4, <2>1 DEF OneAccount, Outstanding, Owned
  <2>2. ASSUME NEW d \in Calls, calls'[d].kind \in {"me", "login"}, calls'[d].token # None
        PROVE  Owned(store', calls'[d].token.user)
    BY <2>1, <2>2 DEF Owned
  <2>3. \A d \in Outstanding' : calls'[d].token # None => Owned(store', calls'[d].token.user)
    BY <2>2 DEF Outstanding
  <2>4. refreshing' # None => \/ store'.refresh = refreshing'
                              \/ store'.access = None /\ store'.refresh = None
    BY <1>4 DEF OneAccount
  <2> QED
    BY <1>4, <2>3, <2>4 DEF OneAccount
<1>5. ASSUME ShowsOwner PROVE ShowsOwner'
  BY <1>1, <1>5 DEF ShowsOwner
<1> QED
  BY <1>2, <1>3, <1>4, <1>5 DEF JInv, Agreeing

LEMMA InitAgrees == Init => JInv
<1> SUFFICES ASSUME Init PROVE JInv
  OBVIOUS
<1>1. tab.user = None /\ ran = <<None, None>> /\ refreshing = None /\ ~overlap
      /\ calls = [c \in Calls |-> Idle] /\ Keys(tab) = <<store.access, store.refresh>>
  BY DEF Init, Keys
<1>2. \A c \in Calls : ~Pending(c) /\ c \notin Outstanding /\ calls[c].pc = "idle"
  BY <1>1 DEF Idle, Pending, Outstanding
<1>3. store.access # None /\ store.refresh # None => store.access.user = store.refresh.user
  BY DEF Init
<1>4. ShownHasTokens /\ TokensAreOld
  <2>1. store.access # None => store.access.no = 1
    BY DEF Init, Emptied
  <2>2. issued = 1 /\ ran[1] = None
    BY <1>1 DEF Init
  <2> QED
    BY <1>1, <2>1, <2>2 DEF ShownHasTokens, TokensAreOld
<1>5. RestoresRan /\ LoginsAreLogins
  BY <1>2 DEF RestoresRan, LoginsAreLogins
<1>6. OneAccount
  BY <1>1, <1>2, <1>3 DEF OneAccount, Outstanding
<1>7. ShowsOwner
  BY <1>1 DEF ShowsOwner
<1> QED
  BY <1>4, <1>5, <1>6, <1>7 DEF JInv, Agreeing

LEMMA RestoreAgrees == ASSUME IInv, JInv, NEW c \in Calls, RestoreSession(c) PROVE JInv'
<1> USE DEF IInv
<1>1. /\ Keys(tab) # ran /\ calls[c] = Idle /\ ran' = Keys(tab)
      /\ UNCHANGED <<store, path, from, issued, overlap>>
      /\ tab'.access = tab.access /\ tab'.refresh = tab.refresh /\ tab'.user \in {None, tab.user}
      /\ tab.access = store.access /\ tab.refresh = store.refresh
  BY DEF RestoreSession, TypeOK, Mirrored
<1>2. /\ Keys(tab) = <<store.access, store.refresh>> /\ Keys(tab') = Keys(tab)
      /\ ran' = <<store.access, store.refresh>>
  BY <1>1 DEF Keys
<1>3. \A d \in Calls : /\ Superseded(calls)[d].kind = calls[d].kind
                       /\ Superseded(calls)[d].token = calls[d].token
                       /\ Superseded(calls)[d].pc = calls[d].pc
                       /\ calls[d].kind = "restore" => ~Superseded(calls)[d].current
  BY DEF Superseded, TypeOK, CallShape
<1>4. ShownHasTokens' /\ TokensAreOld'
  <2>1. ran'[1] = store.access
    BY <1>2
  <2> QED
    BY <1>1, <2>1 DEF ShownHasTokens, TokensAreOld, JInv
<1>5. CASE tab.access = None /\ tab.refresh = None
  <2>1. calls' = Superseded(calls) /\ refreshing' = refreshing
    BY <1>5 DEF RestoreSession
  <2>2. ran' = <<None, None>>
    BY <1>1, <1>2, <1>5
  <2>3. \A d \in Calls : ~Pending(d)'
    BY <1>3, <2>1 DEF Pending
  <2>4. RestoresRan' /\ LoginsAreLogins'
    BY <1>3, <2>1, <2>3 DEF RestoresRan, LoginsAreLogins, JInv
  <2>5. ShowsOwner'
    BY <2>2 DEF ShowsOwner
  <2>6. OneAccount'
    BY <1>1, <1>5, <2>1 DEF OneAccount, Owned
  <2> QED
    BY <1>4, <2>4, <2>5, <2>6 DEF JInv, Agreeing
<1>6. CASE ~(tab.access = None /\ tab.refresh = None)
  <2>1. /\ calls' = [Superseded(calls) EXCEPT ![c] = RestoreCall]
        /\ refreshing' = IF RestoreCall.pc = "first" /\ refreshing = None
                         THEN store.refresh ELSE refreshing
    BY <1>6 DEF RestoreSession
  <2>2. /\ RestoreCall.kind = "restore" /\ RestoreCall.current
        /\ \/ RestoreCall.pc = "first"
           \/ RestoreCall.pc = "sent" /\ RestoreCall.token = store.access
    BY DEF RestoreCall, Idle
  <2>3. calls'[c] = RestoreCall /\ \A d \in Calls \ {c} : calls'[d] = Superseded(calls)[d]
    BY <2>1 DEF Superseded
  <2>4. \A d \in Calls : Pending(d)' => d = c
    BY <1>3, <2>3 DEF Pending
  <2>5. Pending(c)'
    BY <2>2, <2>3 DEF Pending
  <2>6. ran' # <<None, None>>
    BY <1>1, <1>2, <1>6
  <2>7. RestoresRan'
    BY <1>1, <2>2, <2>3, <2>4, <2>6 DEF RestoresRan
  <2>8. LoginsAreLogins'
    BY <1>3, <2>2, <2>3 DEF LoginsAreLogins, JInv
  <2>9. ShowsOwner'
    BY <2>5 DEF ShowsOwner
  <2>10. ASSUME OneAccount PROVE OneAccount'
    <3>1. \A d \in Outstanding' : d \in Outstanding /\ calls'[d].token = calls[d].token
      BY <1>3, <2>2, <2>3 DEF Outstanding
    <3>2. \A d \in Outstanding' : calls'[d].token # None => Owned(store', calls'[d].token.user)
      BY <1>1, <2>10, <3>1 DEF OneAccount
    <3>3. refreshing' # None => \/ store'.refresh = refreshing'
                                \/ store'.access = None /\ store'.refresh = None
      BY <1>1, <2>1, <2>10 DEF OneAccount
    <3> QED
      BY <1>1, <2>10, <3>2, <3>3 DEF OneAccount
  <2> QED
    BY <1>1, <1>4, <2>7, <2>8, <2>9, <2>10 DEF JInv, Agreeing
<1> QED
  BY <1>5, <1>6

\* The calls other than c stay as they are, and c does not become a restore.
LEMMA QuietCall ==
    ASSUME IInv, JInv, store'.access = store.access, store'.refresh = store.refresh,
           tab'.access = tab.access, tab'.refresh = tab.refresh, tab'.user = tab.user,
           UNCHANGED <<ran, issued, overlap, refreshing>>,
           NEW c \in Calls, NEW k, calls' = [calls EXCEPT ![c] = k], ~Pending(c),
           k.kind # "restore", k.pc = "login" => k.kind = "login",
           k.token = None \/ (store.access # None /\ k.token = store.access)
    PROVE  JInv'
<1>1. calls'[c] = k /\ \A d \in Calls \ {c} : calls'[d] = calls[d]
  BY DEF IInv, TypeOK
<1>2. ~Pending(c)' /\ \A d \in Calls \ {c} : Pending(d)' <=> Pending(d)
  BY <1>1 DEF Pending
<1>3. LoginsAreLogins'
  BY <1>1 DEF JInv, LoginsAreLogins
<1> QED
  BY <1>1, <1>2, <1>3, QuietAgrees

LEMMA SubmitAgrees ==
    ASSUME IInv, JInv, NEW c \in Calls, NEW u \in Users, SubmitLogin(c, u) PROVE JInv'
<1> DEFINE k == [kind |-> "login", pc |-> "login", token |-> None, current |-> TRUE,
                 for |-> u, back |-> from]
<1>1. calls' = [calls EXCEPT ![c] = k] /\ calls[c].kind = "none"
  BY DEF SubmitLogin, Idle
<1>2. k.kind = "login" /\ k.token = None
  OBVIOUS
<1> HIDE DEF k
<1>3. /\ UNCHANGED <<store, ran, refreshing, issued, overlap>>
      /\ tab'.access = tab.access /\ tab'.refresh = tab.refresh /\ tab'.user = tab.user
  BY DEF SubmitLogin, IInv, TypeOK
<1> QED
  BY <1>1, <1>2, <1>3, QuietCall DEF Pending

LEMMA LoginDeniedAgrees ==
    ASSUME IInv, JInv, NEW c \in Calls, LoginDenied(c) PROVE JInv'
<1>1. calls' = [calls EXCEPT ![c] = Idle] /\ calls[c].kind = "login"
  BY DEF LoginDenied, JInv, LoginsAreLogins
<1>2. Idle.kind = "none" /\ Idle.token = None /\ Idle.pc = "idle"
  BY DEF Idle
<1>3. /\ UNCHANGED <<store, ran, refreshing, issued, overlap>>
      /\ tab'.access = tab.access /\ tab'.refresh = tab.refresh /\ tab'.user = tab.user
  BY DEF LoginDenied, IInv, TypeOK
<1> QED
  BY <1>1, <1>2, <1>3, QuietCall DEF Pending

LEMMA IssueAgrees ==
    ASSUME IInv, JInv, NEW c \in Calls, NEW kind \in {"me", "page"}, NEW token,
           token = None \/ (store.access # None /\ token = store.access), Issue(c, kind, token)
    PROVE  JInv'
<1> DEFINE k == [Idle EXCEPT !.kind = kind, !.pc = "sent", !.token = token]
<1>1. calls' = [calls EXCEPT ![c] = k] /\ calls[c].kind = "none"
  BY DEF Issue, Idle
<1>2. k.kind = kind /\ k.token = token /\ k.pc = "sent"
  BY DEF Idle
<1> HIDE DEF k
<1> QED
  BY <1>1, <1>2, QuietCall DEF Issue, Pending

\* A login page that is left leaves the restores and all tokens as they are.
LEMMA LeftPending ==
    ASSUME IInv, calls' = Left(calls)
    PROVE  \A d \in Calls : /\ calls'[d].kind = calls[d].kind /\ calls'[d].token = calls[d].token
                            /\ calls'[d].pc = calls[d].pc /\ (Pending(d)' <=> Pending(d))
<1>1. \A d \in Calls : /\ Left(calls)[d].kind = calls[d].kind
                       /\ Left(calls)[d].token = calls[d].token
                       /\ Left(calls)[d].pc = calls[d].pc
                       /\ calls[d].kind = "restore" => Left(calls)[d] = calls[d]
  BY DEF IInv, TypeOK, CallShape, Left
<1> QED
  BY <1>1 DEF Pending

LEMMA VisitAgrees == ASSUME IInv, JInv, NEW p, Visit(p) PROVE JInv'
<1>1. \A d \in Calls : /\ calls'[d].kind = calls[d].kind /\ calls'[d].token = calls[d].token
                       /\ calls'[d].pc = calls[d].pc /\ (Pending(d)' <=> Pending(d))
  BY LeftPending DEF Visit
<1>2. LoginsAreLogins'
  BY <1>1 DEF LoginsAreLogins, JInv
<1> QED
  BY <1>1, <1>2, QuietAgrees DEF Visit

LEMMA RedirectAgrees == ASSUME IInv, JInv, Redirect PROVE JInv'
<1>1. /\ store'.access = store.access /\ store'.refresh = store.refresh
      /\ UNCHANGED <<tab, ran, calls, refreshing, issued, overlap>>
  BY DEF Redirect, IInv, TypeOK
<1>2. \A d \in Calls : Pending(d)' <=> Pending(d)
  BY <1>1 DEF Pending
<1>3. LoginsAreLogins'
  BY <1>1 DEF LoginsAreLogins, JInv
<1> QED
  BY <1>1, <1>2, <1>3, QuietAgrees

LEMMA SignOutAgrees == ASSUME IInv, JInv, SignOut PROVE JInv'
<1>1. \A d \in Calls : /\ calls'[d].kind = calls[d].kind /\ calls'[d].pc = calls[d].pc
                       /\ (Pending(d)' <=> Pending(d))
  BY LeftPending DEF SignOut
<1>2. LoginsAreLogins'
  BY <1>1 DEF LoginsAreLogins, JInv
<1> QED
  BY <1>1, <1>2, EmptiedAgrees DEF SignOut

LEMMA ReloadAgrees == ASSUME IInv, JInv, Reload PROVE JInv'
<1>1. /\ UNCHANGED <<store, issued>> /\ tab'.user = None /\ ran' = <<None, None>>
      /\ refreshing' = None
      /\ overlap' = (store.access # None /\ store.refresh # None
                      /\ store.access.user # store.refresh.user)
  BY DEF Reload
<1>2. \A d \in Calls : calls'[d].kind = "none" /\ calls'[d].pc = "idle" /\ ~Pending(d)'
  BY DEF Reload, Idle, Pending
<1>3. ShownHasTokens' /\ TokensAreOld'
  BY <1>1 DEF ShownHasTokens, TokensAreOld, JInv
<1>4. RestoresRan' /\ LoginsAreLogins'
  BY <1>2 DEF RestoresRan, LoginsAreLogins
<1>5. ~overlap' => OneAccount'
  BY <1>1, <1>2 DEF OneAccount, Outstanding
<1>6. ShowsOwner'
  BY <1>1 DEF ShowsOwner
<1> QED
  BY <1>3, <1>4, <1>5, <1>6 DEF JInv, Agreeing

\* The tokens kept are older than the next one.
LEMMA NewerThanOld ==
    ASSUME IInv, JInv
    PROVE  issued \in Nat /\ (ran[1] # None => ran[1].no \in Nat /\ ran[1].no <= issued)
<1>1. ran[1] # None => ran[1] \in Tokens
  BY DEF IInv, TypeOK
<1>2. issued \in Nat
  BY DEF IInv, TypeOK
<1> QED
  BY <1>1, <1>2, TokensCount DEF JInv, TokensAreOld

LEMMA LoginGrantedAgrees ==
    ASSUME IInv, JInv, NEW c \in Calls, LoginGranted(c) PROVE JInv'
<1> USE DEF IInv
<1> DEFINE token == Fresh(calls[c].for)
           st    == [store EXCEPT !.access = token, !.refresh = token]
           k     == [calls[c] EXCEPT !.pc = "sent", !.token = token]
<1>1. token # None /\ token.no = issued + 1
  <2>1. token \in Tokens
    BY FreshIsToken DEF TypeOK, LoginsHaveAccounts, LoginGranted
  <2> QED
    BY <2>1, TokensAssumption DEF Fresh
<1>2. st.access = token /\ st.refresh = token
  BY DEF TypeOK
<1>3. /\ store' = st /\ tab' = Synced(st, tab) /\ issued' = issued + 1
      /\ overlap' = (overlap \/ Outstanding # {c} \/ refreshing # None)
      /\ UNCHANGED <<ran, refreshing, path, from>>
  BY DEF LoginGranted
<1>4. tab'.access = token /\ tab'.refresh = token
  BY <1>1, <1>2, <1>3 DEF Synced, TypeOK
<1>5. /\ calls' = [calls EXCEPT ![c] = k] /\ k.kind = "login" /\ k.pc = "sent"
      /\ k.token = token
  BY DEF LoginGranted, TypeOK, CallShape, JInv, LoginsAreLogins
<1> HIDE DEF k, st
<1>6. calls'[c] = k /\ \A d \in Calls \ {c} : calls'[d] = calls[d]
  BY <1>5 DEF TypeOK
<1> HIDE DEF token
<1>7. Keys(tab') # ran'
  <2>1. ran[1] # token
    BY <1>1 DEF JInv, TokensAreOld, TypeOK
  <2> QED
    BY <1>3, <1>4, <2>1 DEF Keys
<1>8. ShownHasTokens'
  BY <1>1, <1>2, <1>3 DEF ShownHasTokens
<1>9. TokensAreOld'
  BY <1>1, <1>2, <1>3, NewerThanOld DEF TokensAreOld
<1>10. \A d \in Calls : Pending(d)' => Pending(d)
  BY <1>5, <1>6 DEF Pending
<1>11. RestoresRan' /\ LoginsAreLogins'
  BY <1>3, <1>5, <1>6, <1>7, <1>10 DEF RestoresRan, LoginsAreLogins, JInv
<1>12. ShowsOwner'
  BY <1>7 DEF ShowsOwner
<1>13. ~overlap' => OneAccount'
  <2> SUFFICES ASSUME ~overlap' PROVE OneAccount'
    OBVIOUS
  <2>1. Outstanding = {c} /\ refreshing = None
    BY <1>3
  <2>2. \A d \in Outstanding' : d = c
    BY <1>6, <2>1 DEF Outstanding
  <2>3. Owned(store', calls'[c].token.user)
    BY <1>2, <1>3, <1>5, <1>6 DEF Owned
  <2> QED
    BY <1>2, <1>3, <2>1, <2>2, <2>3 DEF OneAccount
<1> QED
  BY <1>8, <1>9, <1>11, <1>12, <1>13 DEF JInv, Agreeing

LEMMA FailsAgrees == ASSUME IInv, JInv, NEW c \in Calls, CallFails(c) PROVE JInv'
<1>1. /\ calls' = [calls EXCEPT ![c] = Idle] /\ Rejected({c}, FALSE)
      /\ UNCHANGED <<ran, refreshing, path, from, issued, overlap>>
  BY DEF CallFails
<1>2. Idle.kind = "none" /\ Idle.token = None /\ Idle.pc = "idle"
  BY DEF Idle
<1>3. CASE calls[c].kind \in {"restore", "login"}
  <2>1. store' = Emptied /\ tab' = SignedOut
    BY <1>1, <1>3 DEF Rejected
  <2>2. calls'[c] = Idle /\ \A d \in Calls \ {c} : calls'[d] = calls[d]
    BY <1>1 DEF IInv, TypeOK
  <2>3. LoginsAreLogins' /\ \A d \in Calls : Pending(d)' => Pending(d)
    BY <1>2, <2>2 DEF LoginsAreLogins, JInv, Pending
  <2> QED
    BY <1>1, <2>1, <2>3, EmptiedAgrees
<1>4. CASE calls[c].kind \notin {"restore", "login"}
  <2>1. store' = store /\ tab' = tab
    BY <1>1, <1>4 DEF Rejected
  <2> QED
    BY <1>1, <1>2, <1>4, <2>1, QuietCall DEF Pending
<1> QED
  BY <1>3, <1>4

LEMMA UnauthorizedAgrees == ASSUME IInv, JInv, NEW c \in Calls, Unauthorized(c) PROVE JInv'
<1>1. UNCHANGED <<ran, path, from, issued, overlap>>
  BY DEF Unauthorized
<1>2. CASE store.refresh = None
  <2>1. /\ calls' = [calls EXCEPT ![c] = Idle] /\ store' = Emptied /\ tab' = SignedOut
        /\ refreshing' = refreshing
    BY <1>2 DEF Unauthorized, Rejected
  <2>2. calls'[c] = Idle /\ \A d \in Calls \ {c} : calls'[d] = calls[d]
    BY <2>1 DEF IInv, TypeOK
  <2>3. LoginsAreLogins' /\ \A d \in Calls : Pending(d)' => Pending(d)
    BY <2>2 DEF LoginsAreLogins, JInv, Pending, Idle
  <2> QED
    BY <1>1, <2>1, <2>3, EmptiedAgrees
<1>3. CASE store.refresh # None
  <2> DEFINE k == [calls[c] EXCEPT !.pc = "refresh", !.token = None]
  <2>1. /\ calls' = [calls EXCEPT ![c] = k] /\ UNCHANGED <<store, tab>>
        /\ refreshing' = IF refreshing = None THEN store.refresh ELSE refreshing
    BY <1>3 DEF Unauthorized
  <2>2. k.kind = calls[c].kind /\ k.current = calls[c].current /\ k.pc = "refresh"
        /\ k.token = None
    BY DEF IInv, TypeOK, CallShape
  <2> HIDE DEF k
  <2>3. calls'[c] = k /\ \A d \in Calls \ {c} : calls'[d] = calls[d]
    BY <2>1 DEF IInv, TypeOK
  <2>4. \A d \in Calls : Pending(d)' <=> Pending(d)
    BY <2>2, <2>3 DEF Pending
  <2>5. LoginsAreLogins'
    BY <2>2, <2>3 DEF LoginsAreLogins, JInv
  <2> QED
    BY <1>1, <2>1, <2>2, <2>3, <2>4, <2>5, QuietAgrees
<1> QED
  BY <1>2, <1>3

LEMMA RefreshDeniedAgrees == ASSUME IInv, JInv, RefreshDenied PROVE JInv'
<1>1. /\ calls' = [c \in Calls |-> IF c \in Waiting THEN Idle ELSE calls[c]]
      /\ store' = Emptied /\ tab' = SignedOut /\ refreshing' = None
      /\ UNCHANGED <<ran, path, from, issued, overlap>>
  BY DEF RefreshDenied, Rejected
<1>2. LoginsAreLogins' /\ \A d \in Calls : Pending(d)' => Pending(d)
  BY <1>1 DEF LoginsAreLogins, JInv, Pending, Idle
<1> QED
  BY <1>1, <1>2, EmptiedAgrees

LEMMA RefreshGrantedAgrees == ASSUME IInv, JInv, RefreshGranted PROVE JInv'
<1> USE DEF IInv
<1> DEFINE token == Fresh(refreshing.user)
           st    == [store EXCEPT !.access = token]
<1>1. token # None /\ token.no = issued + 1 /\ token.user = refreshing.user
  <2>1. refreshing \in Tokens
    BY DEF RefreshGranted, TypeOK
  <2>2. token \in Tokens
    BY <2>1, TokensCount, FreshIsToken DEF TypeOK, RefreshGranted
  <2> QED
    BY <2>2, TokensAssumption DEF Fresh
<1>2. st.access = token /\ st.refresh = store.refresh
  BY DEF TypeOK
<1>3. /\ store' = st /\ tab' = Synced(st, tab) /\ issued' = issued + 1
      /\ refreshing # None /\ refreshing' = None
      /\ overlap' = (overlap \/ store.refresh # refreshing)
      /\ UNCHANGED <<ran, path, from>>
      /\ calls' = [d \in Calls |->
             IF d \notin Waiting THEN calls[d]
             ELSE [calls[d] EXCEPT !.token = IF calls[d].kind = "page" THEN None ELSE token,
                                   !.pc = IF calls[d].pc = "first" THEN "sent" ELSE "resent"]]
  BY DEF RefreshGranted
<1> HIDE DEF st
<1>4. tab'.access = token
  BY <1>1, <1>2, <1>3 DEF Synced, TypeOK
<1> HIDE DEF token
<1>5. \A d \in Calls : /\ calls'[d].kind = calls[d].kind /\ calls'[d].current = calls[d].current
                       /\ calls'[d].token \in {calls[d].token, None, token}
                       /\ calls'[d].pc = "login" => calls[d].pc = "login"
  <2> TAKE d \in Calls
  <2>1. CASE d \notin Waiting
    BY <1>3, <2>1
  <2>2. CASE d \in Waiting
    <3> DEFINE at == IF calls[d].kind = "page" THEN None ELSE token
               pc == IF calls[d].pc = "first" THEN "sent" ELSE "resent"
    <3>1. calls'[d] = [calls[d] EXCEPT !.token = at, !.pc = pc]
      BY <1>3, <2>2
    <3>2. at \in {None, token} /\ pc # "login"
      OBVIOUS
    <3> HIDE DEF at, pc
    <3>3. /\ calls'[d].kind = calls[d].kind /\ calls'[d].current = calls[d].current
          /\ calls'[d].token = at /\ calls'[d].pc = pc
      BY <3>1 DEF TypeOK, CallShape
    <3> QED
      BY <3>2, <3>3
  <2> QED
    BY <2>1, <2>2
<1>6. Keys(tab') # ran'
  <2>1. ran[1] # token
    BY <1>1 DEF JInv, TokensAreOld, TypeOK
  <2>2. Keys(tab')[1] = token
    BY <1>4 DEF Keys
  <2> QED
    BY <1>3, <2>1, <2>2
<1>7. ShownHasTokens'
  BY <1>1, <1>2, <1>3 DEF ShownHasTokens
<1>8. TokensAreOld'
  <2>1. store'.access = token /\ ran' = ran /\ issued' = issued + 1
    BY <1>2, <1>3
  <2> QED
    BY <1>1, <2>1, NewerThanOld DEF TokensAreOld
<1>9. RestoresRan' /\ LoginsAreLogins'
  BY <1>3, <1>5, <1>6 DEF RestoresRan, LoginsAreLogins, JInv, Pending
<1>10. ShowsOwner'
  BY <1>6 DEF ShowsOwner
<1>11. ~overlap' => OneAccount'
  <2> SUFFICES ASSUME ~overlap' PROVE OneAccount'
    OBVIOUS
  <2>1. store.refresh = refreshing /\ OneAccount
    BY <1>3 DEF JInv, Agreeing
  <2>2. \A d \in Outstanding' : d \in Outstanding
    BY <1>5 DEF Outstanding
  <2>3. \A d \in Outstanding : calls[d].token # None => calls[d].token.user = refreshing.user
    BY <1>3, <2>1 DEF OneAccount, Owned
  <2>4. \A d \in Outstanding' : calls'[d].token # None => calls'[d].token.user = refreshing.user
    BY <1>1, <1>5, <2>2, <2>3 DEF Outstanding
  <2>5. Owned(store', refreshing.user)
    BY <1>1, <1>2, <1>3, <2>1 DEF Owned
  <2> QED
    BY <1>1, <1>2, <1>3, <2>1, <2>4, <2>5 DEF OneAccount
<1> QED
  BY <1>7, <1>8, <1>9, <1>10, <1>11 DEF JInv, Agreeing

\* The answer of a call that shows its user, to a storage that has tokens.
LEMMA ShownAgrees ==
    ASSUME IInv, JInv, NEW c \in Calls, Sent(c), calls[c].token # None,
           calls[c].kind \in {"me", "login"} \/ Pending(c),
           calls' = [calls EXCEPT ![c] = Idle],
           store'.access = store.access, store'.refresh = store.refresh,
           tab'.access = tab.access, tab'.refresh = tab.refresh,
           IF store.access = None /\ store.refresh = None THEN tab'.user = None
           ELSE tab'.user = calls[c].token.user,
           UNCHANGED <<ran, refreshing, issued, overlap>>
    PROVE  JInv'
<1>1. /\ calls'[c].kind = "none" /\ calls'[c].pc = "idle"
      /\ \A d \in Calls \ {c} : calls'[d] = calls[d]
  BY DEF IInv, TypeOK, Idle
<1>2. Keys(tab') = Keys(tab)
  BY DEF Keys
<1>3. ~Pending(c)' /\ \A d \in Calls \ {c} : Pending(d)' <=> Pending(d)
  BY <1>1 DEF Pending
<1>4. ShownHasTokens' /\ TokensAreOld'
  BY DEF ShownHasTokens, TokensAreOld, JInv
<1>5. RestoresRan' /\ LoginsAreLogins'
  BY <1>1, <1>2, <1>3 DEF RestoresRan, LoginsAreLogins, JInv
<1>6. ASSUME OneAccount PROVE OneAccount'
  <2>1. \A d \in Outstanding' : d \in Outstanding /\ calls'[d] = calls[d]
    BY <1>1 DEF Outstanding
  <2>2. \A d \in Outstanding' : calls'[d].token # None => Owned(store', calls'[d].token.user)
    BY <1>6, <2>1 DEF OneAccount, Owned
  <2> QED
    BY <1>6, <2>2 DEF OneAccount
<1>7. ASSUME OneAccount, ShowsOwner, Keys(tab) = ran, ran # <<None, None>>
      PROVE  \/ \E d \in Calls : Pending(d)'
             \/ store.access # None /\ tab'.user = store.access.user
  <2>1. CASE Pending(c)
    <3>1. calls[c].token = store.access
      BY <1>7, <2>1 DEF JInv, RestoresRan, Sent
    <3> QED
      BY <3>1
  <2>2. CASE calls[c].kind \in {"me", "login"}
    <3>1. Owned(store, calls[c].token.user)
      BY <1>7, <2>2 DEF OneAccount, Outstanding
    <3>2. \A d \in Calls : Pending(d) => d # c
      BY <2>2 DEF Pending
    <3>3. (\E d \in Calls : Pending(d)) \/ store.access # None
      BY <1>7 DEF ShowsOwner
    <3> QED
      BY <1>3, <3>1, <3>2, <3>3 DEF Owned
  <2> QED
    BY <2>1, <2>2
<1>8. ASSUME OneAccount, ShowsOwner PROVE ShowsOwner'
  BY <1>2, <1>7, <1>8 DEF ShowsOwner
<1> QED
  BY <1>4, <1>5, <1>6, <1>8 DEF JInv, Agreeing

LEMMA SucceedsAgrees == ASSUME IInv, JInv, NEW c \in Calls, CallSucceeds(c) PROVE JInv'
<1> DEFINE u == calls[c].token.user
<1>1. /\ Sent(c) /\ calls' = [calls EXCEPT ![c] = Idle]
      /\ UNCHANGED <<ran, refreshing, issued, overlap>>
      /\ calls[c].kind = "page" \/ calls[c].token # None
  BY DEF CallSucceeds
<1>2. CASE /\ calls[c].kind = "page" \/ (calls[c].kind = "restore" /\ ~calls[c].current)
           /\ UNCHANGED <<store, tab, path, from>>
  <2>1. ~Pending(c)
    BY <1>2 DEF Pending
  <2>2. Idle.kind = "none" /\ Idle.pc = "idle" /\ Idle.token = None
    BY DEF Idle
  <2> QED
    BY <1>1, <1>2, <2>1, <2>2, QuietCall
<1>3. CASE /\ calls[c].kind \in {"me", "login"} \/ Pending(c)
           /\ store' \in {WithRole(store, u), [WithRole(store, u) EXCEPT !.remembered = None]}
           /\ tab' \in {Shown(store, tab, u), [Shown(store, tab, u) EXCEPT !.loading = FALSE]}
  <2>1. calls[c].token # None
    BY <1>1, <1>3 DEF Pending
  <2>2. u \in Users
    <3>1. calls[c].token \in Tokens
      BY <2>1 DEF IInv, TypeOK, CallShape
    <3> QED
      BY <3>1, TokensCount
  <2>3. /\ WithRole(store, u).access = store.access /\ WithRole(store, u).refresh = store.refresh
        /\ WithRole(store, u) \in Storage
    BY <2>2, ShownMirrors DEF IInv, TypeOK, Storage, Context, WithRole
  <2>4. store'.access = store.access /\ store'.refresh = store.refresh
    BY <1>3, <2>3 DEF Storage
  <2> DEFINE v == Shown(store, tab, u)
  <2>5. /\ v \in Context /\ v.access = store.access /\ v.refresh = store.refresh
    BY <2>2, ShownMirrors DEF IInv, TypeOK, Storage, Context
  <2>6. IF store.access = None /\ store.refresh = None THEN v.user = None ELSE v.user = u
    BY <2>2, <2>3 DEF Shown, Synced, SignedOut, IInv, TypeOK
  <2> HIDE DEF v
  <2>7. tab'.access = store.access /\ tab'.refresh = store.refresh /\ tab'.user = v.user
    BY <1>3, <2>5 DEF Context, v
  <2>8. tab.access = store.access /\ tab.refresh = store.refresh
    BY DEF IInv, Mirrored
  <2> QED
    BY <1>1, <1>3, <2>1, <2>4, <2>6, <2>7, <2>8, ShownAgrees
<1> QED
  BY <1>2, <1>3 DEF CallSucceeds, Pending

LEMMA StepAgrees == IInv /\ JInv /\ [Next]_vars => JInv'
<1> SUFFICES ASSUME IInv, JInv, [Next]_vars PROVE JInv'
  OBVIOUS
<1>1. ASSUME NEW c \in Calls, RestoreSession(c) PROVE JInv'
  BY <1>1, RestoreAgrees
<1>2. ASSUME NEW c \in Calls, Answer(c) PROVE JInv'
  BY <1>2, LoginGrantedAgrees, LoginDeniedAgrees, SucceedsAgrees, FailsAgrees,
     UnauthorizedAgrees DEF Answer
<1>3. CASE RefreshGranted \/ RefreshDenied
  BY <1>3, RefreshGrantedAgrees, RefreshDeniedAgrees
<1>4. ASSUME NEW c \in Calls, NEW u \in Users, SubmitLogin(c, u) PROVE JInv'
  BY <1>4, SubmitAgrees
<1>5. ASSUME NEW c \in Calls, RefreshUser(c) \/ PageCall(c) PROVE JInv'
  <2>1. RefreshUser(c) => store.access # None
    BY DEF RefreshUser, IsAuthenticated, IInv, Mirrored
  <2> QED
    BY <1>5, <2>1, IssueAgrees DEF RefreshUser, PageCall
<1>6. ASSUME NEW p \in Visits, Visit(p) PROVE JInv'
  BY <1>6, VisitAgrees
<1>7. CASE Logout \/ Deactivate
  BY <1>7, SignOutAgrees DEF Logout, Deactivate
<1>8. CASE Redirect \/ Reload
  BY <1>8, RedirectAgrees, ReloadAgrees
<1>9. CASE UNCHANGED vars
  BY <1>9 DEF vars, JInv, ShownHasTokens, TokensAreOld, RestoresRan, LoginsAreLogins, Agreeing,
     OneAccount, Outstanding, Owned, ShowsOwner, Pending, Keys
<1> QED
  BY <1>1, <1>2, <1>3, <1>4, <1>5, <1>6, <1>7, <1>8, <1>9 DEF Next, Effect

LEMMA SettledShowsOwner == IInv /\ JInv => SettledAgreement
<1> SUFFICES ASSUME IInv, JInv, Settled, ~overlap
             PROVE  \/ store.access = None /\ store.refresh = None /\ tab.user = None
                    \/ store.access # None /\ tab.user = store.access.user
  BY DEF SettledAgreement
<1>1. Keys(tab) = ran /\ Keys(tab) = <<store.access, store.refresh>>
  BY DEF Settled, Keys, IInv, Mirrored
<1>2. \A c \in Calls : ~Pending(c)
  BY DEF Settled, Pending
<1>3. CASE store.access = None /\ store.refresh = None
  BY <1>3 DEF JInv, ShownHasTokens
<1>4. CASE ~(store.access = None /\ store.refresh = None)
  <2>1. ran # <<None, None>>
    BY <1>1, <1>4
  <2> QED
    BY <1>1, <1>2, <2>1 DEF JInv, Agreeing, ShowsOwner
<1> QED
  BY <1>3, <1>4

\* Once all answers are in, the tab shows the user whose token it sends, or
\* nobody when it has none, in whatever order logins, restores, refreshes,
\* expiries, failures, logouts and reloads came.
THEOREM SettledTabsAgree == Spec => []SettledAgreement
<1>1. Init => IInv /\ JInv
  BY InitInv, InitAgrees
<1>2. IInv /\ JInv /\ [Next]_vars => (IInv /\ JInv)'
  BY StepKeeps, StepAgrees
<1>3. IInv /\ JInv => SettledAgreement
  BY SettledShowsOwner
<1> QED
  BY <1>1, <1>2, <1>3, PTL DEF Spec

=============================================================================
