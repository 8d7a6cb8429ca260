----------------------------- MODULE ClientSession -----------------------------
(***************************************************************************)
(* The session of one browser tab: the auth store (store/auth.store.ts),   *)
(* the axios client that adds the access token and refreshes it silently   *)
(* on a 401 (api/client.ts), the boot sequence (main.tsx), sign-in,        *)
(* sign-out and the route guards.                                          *)
(*                                                                         *)
(* The code between two awaits is one action.  Requests and answers cross  *)
(* the network: an answer is given by the server in one step and reaches   *)
(* the tab in a later one, so tokens expire, cookies are revoked and other *)
(* handlers run in between.                                                *)
(***************************************************************************)
EXTENDS Naturals

CONSTANTS
  User,       \* accounts
  Super,      \* those whose app_role is SUPER_ADMIN
  Call,       \* requests made through apiClient, each sent by its caller once
  NoUser,
  MaxTokens   \* bound on the access tokens the server issues

ASSUME ClientSessionAssumption ==
  /\ NoUser \notin User /\ Super \subseteq User /\ MaxTokens \in Nat

VARIABLES
  \* the tab
  doc,          \* the document: booting, shown, or about to be replaced
  route,        \* which guard the current route is under
  token, user,  \* the auth store (isAuthenticated is token # NoToken)
  maintenance,  \* isMaintenanceMode of maintenance.store.ts
  isRefreshing, refreshSubscribers,
  calls,
  signIn, signOut,   \* the handlers of LoginPage and of the sign-out button
  \* the server and the cookie jar
  cookie,       \* whose refresh token the cookie holds
  sessions,     \* accounts whose refresh token is not revoked
  issued, expired,   \* how many access tokens were issued, and how many have expired
  inactive,     \* accounts that were deactivated
  ended         \* history: the server ended the last session on a sign-out

page == <<doc, route>>
auth == <<token, user>>
queue == <<isRefreshing, refreshSubscribers>>
forms == <<signIn, signOut>>
tab == <<page, auth, maintenance, queue, calls, forms>>
server == <<cookie, sessions, issued, expired, inactive, ended>>
vars == <<tab, server>>

NoToken == [user |-> NoUser, n |-> 0]
Token == [user : User, n : 1..MaxTokens]

\* What an await of the tab waits for: nothing came yet, a failure, a token.
Reply == [st : {"none", "failed", "granted"}, token : Token \cup {NoToken}]
Waiting == [st |-> "none", token |-> NoToken]
Failed == [st |-> "failed", token |-> NoToken]
Granted(k) == [st |-> "granted", token |-> k]

CallState == [st : {"unsent", "sent", "refresh", "profile", "queued", "ok", "refused", "rejected", "gone"},
              sent : Token \cup {NoToken}, cookie : User \cup {NoUser}, retry : BOOLEAN, reply : Reply]

InState(s, k, again) == [st |-> s, sent |-> k, cookie |-> NoUser, retry |-> again, reply |-> Waiting]
Unsent == InState("unsent", NoToken, FALSE)
Ended(s) == InState(s, NoToken, FALSE)
SentWith(k, again) == InState("sent", k, again)

TypeOK ==
  /\ doc \in {"refresh", "profile", "shown", "leaving"}
  /\ route \in {"public", "guest", "protected"}
  /\ token \in Token \cup {NoToken}
  /\ user \in User \cup {NoUser}
  /\ maintenance \in BOOLEAN /\ isRefreshing \in BOOLEAN
  /\ refreshSubscribers \subseteq Call
  /\ calls \in [Call -> CallState]
  /\ signIn \in [st : {"none", "asked", "profile"}, reply : Reply]
  /\ signOut \in {"none", "asked", "answered"}
  /\ cookie \in User \cup {NoUser} /\ sessions \subseteq User
  /\ issued \in 0..MaxTokens /\ expired \in 0..issued
  /\ inactive \subseteq User
  /\ ended \in BOOLEAN

----------------------------------------------------------------------------
\* The server.

\* TenantMiddleware and get_current_user: the token has not expired and its
\* account is active.
Accepted(k) == k.n > expired /\ k.user \notin inactive

\* AuthService.refresh: the session is enough, its account active or not.
NextToken(u) == [user |-> u, n |-> issued + 1]

Issue == issued' = issued + 1 /\ UNCHANGED expired

\* The answers a request that was sent can get.  A failure stands for any
\* error that is neither a 401 nor the 503 of MaintenanceMiddleware.  A 401 is
\* final for its token, so it does not matter when the server decided on it.
Answers(k) ==
  {"maintenance", "failed"} \cup IF Accepted(k) THEN {"ok"}
                                ELSE IF k = NoToken THEN {"ok", "unauthorized"} ELSE {"unauthorized"}

\* POST /auth/refresh for the interceptor, with the cookie it was sent with.
AnswerRefresh(c) ==
  /\ calls[c].st = "refresh" /\ calls[c].reply = Waiting
  /\ \/ /\ calls' = [calls EXCEPT ![c].reply = Failed]
        /\ UNCHANGED <<issued, expired>>
     \/ /\ calls[c].cookie \in sessions /\ issued < MaxTokens
        /\ calls' = [calls EXCEPT ![c].reply = Granted(NextToken(calls[c].cookie))]
        /\ Issue
  /\ UNCHANGED <<page, auth, maintenance, queue, forms, cookie, sessions, inactive, ended>>

\* POST /auth/login: the cookie becomes this session's.
AnswerSignIn ==
  /\ signIn.st = "asked" /\ signIn.reply = Waiting
  /\ \/ /\ signIn' = [signIn EXCEPT !.reply = Failed]
        /\ UNCHANGED server
     \/ \E u \in User \ inactive :
          /\ issued < MaxTokens
          /\ signIn' = [signIn EXCEPT !.reply = Granted(NextToken(u))]
          /\ cookie' = u /\ sessions' = sessions \cup {u} /\ Issue /\ ended' = FALSE
          /\ UNCHANGED inactive
  /\ UNCHANGED <<page, auth, maintenance, queue, calls, signOut>>

\* Mutant: the server forgets delete_cookie and the revocation.
RevokeNothing == UNCHANGED <<cookie, sessions>>

RevokeSession == cookie' = NoUser /\ sessions' = sessions \ {cookie}

\* POST /auth/logout, which may also never reach the server.
AnswerSignOut ==
  /\ signOut = "asked"
  /\ signOut' = "answered"
  /\ \/ UNCHANGED <<cookie, sessions, ended>>
     \/ RevokeSession /\ ended' = TRUE
  /\ UNCHANGED <<page, auth, maintenance, queue, calls, signIn, issued, expired, inactive>>

\* Every access token lives for the same time, so they expire in order.
Expire ==
  /\ expired < issued
  /\ expired' = expired + 1
  /\ UNCHANGED <<tab, cookie, sessions, issued, inactive, ended>>

\* deactivate_user of the admin API also revokes the refresh tokens.
Deactivate(u) ==
  /\ u \notin inactive
  /\ inactive' = inactive \cup {u} /\ sessions' = sessions \ {u}
  /\ UNCHANGED <<tab, cookie, issued, expired, ended>>

----------------------------------------------------------------------------
\* api/client.ts.

Shown == doc \in {"shown", "leaving"}

Pending == {c \in Call : calls[c].st \in {"sent", "refresh", "profile", "queued"}}

\* The request interceptor: the store's token, else whatever the config has.
WithToken(own) == IF token # NoToken THEN token ELSE own

Send(c) ==
  /\ doc = "shown"
  /\ calls[c].st = "unsent"
  /\ calls' = [calls EXCEPT ![c] = SentWith(WithToken(NoToken), FALSE)]
  /\ UNCHANGED <<page, auth, maintenance, queue, forms, server>>

\* Mutant: a retried request refreshes again.
NoRetryMark(c) == calls[c].sent # NoToken

\* Whether the response interceptor chases a refresh for a 401.
ChasesRefresh(c) == ~calls[c].retry /\ calls[c].sent # NoToken

\* The response interceptor up to its first await.
Deliver(c) == \E a \in Answers(calls[c].sent) :
  /\ Shown
  /\ calls[c].st = "sent"
  /\ maintenance' = (maintenance \/ a = "maintenance")
  /\ \/ /\ a # "unauthorized" \/ ~ChasesRefresh(c)
        /\ calls' = [calls EXCEPT ![c] = Ended(CASE a = "ok" -> "ok"
                                                [] a = "unauthorized" -> "refused"
                                                [] OTHER -> "rejected")]
        /\ UNCHANGED queue
     \/ /\ a = "unauthorized" /\ ChasesRefresh(c) /\ isRefreshing
        /\ calls' = [calls EXCEPT ![c].st = "queued", ![c].retry = TRUE]
        /\ refreshSubscribers' = refreshSubscribers \cup {c}
        /\ UNCHANGED isRefreshing
     \/ /\ a = "unauthorized" /\ ChasesRefresh(c) /\ ~isRefreshing
        /\ calls' = [calls EXCEPT ![c].st = "refresh", ![c].cookie = cookie, ![c].retry = TRUE]
        /\ isRefreshing' = TRUE
        /\ UNCHANGED refreshSubscribers
  /\ UNCHANGED <<page, auth, forms, server>>

\* Mutant: the flag is cleared as soon as the token is stored.
ClearedEarly == FALSE

WhileProfileLoads == isRefreshing

\* setAccessToken, and the request for the profile.
RefreshGranted(c) ==
  /\ Shown
  /\ calls[c].st = "refresh" /\ calls[c].reply.st = "granted"
  /\ token' = calls[c].reply.token
  /\ calls' = [calls EXCEPT ![c].st = "profile"]
  /\ isRefreshing' = WhileProfileLoads
  /\ UNCHANGED <<page, user, maintenance, refreshSubscribers, forms, server>>

\* Mutant: the failed refresh only rejects its own request.
StaysOnPage == doc

LeavesPage == "leaving"

\* The catch block: logout, leave for /login, and reject this request.  The
\* queued ones are neither rejected nor removed.
RefreshFailed(c) ==
  /\ Shown
  /\ calls[c].st = "refresh" /\ calls[c].reply = Failed
  /\ token' = NoToken /\ user' = NoUser
  /\ doc' = LeavesPage /\ route' = "guest"
  /\ calls' = [calls EXCEPT ![c] = Ended("rejected")]
  /\ isRefreshing' = FALSE
  /\ UNCHANGED <<maintenance, refreshSubscribers, forms, server>>

\* onTokenRefreshed and the retry, with the token of this refresh or, since
\* the request interceptor runs again, with the store's.
Resent(c) == SentWith(WithToken(calls[c].reply.token), TRUE)

Served(c) == refreshSubscribers

\* The answer of /users/me (u is the profile, or the old one when it failed),
\* then, without another await, every retry and the finally block.
AfterProfile(c) == \E u \in {user, calls[c].reply.token.user} :
  /\ Shown
  /\ calls[c].st = "profile"
  /\ user' = u
  /\ calls' = [d \in Call |-> IF d = c \/ d \in Served(c) THEN Resent(c) ELSE calls[d]]
  /\ refreshSubscribers' = {}
  /\ isRefreshing' = FALSE
  /\ UNCHANGED <<page, token, maintenance, forms, server>>

----------------------------------------------------------------------------
\* main.tsx and initAuth: refresh, then profile, then the first render.
\* checkMaintenanceStatus runs beside them and ends before the render too.
BootRefresh ==
  /\ doc = "refresh"
  /\ \/ doc' = "shown" /\ UNCHANGED <<token, issued, expired>>
     \/ /\ cookie \in sessions /\ issued < MaxTokens
        /\ Issue
        /\ token' = NextToken(cookie)
        /\ doc' = "profile"
  /\ UNCHANGED <<route, user, maintenance, queue, calls, forms, cookie, sessions, inactive, ended>>

\* Mutant: only a profile that arrives ends the wait.
NeedsProfile == {token.user} \ inactive

\* Mutant: what /auth/refresh answered is stored as the profile.
StoresRefreshAnswer == {token}

\* The profile, or nothing when /users/me is refused or fails.
BootUser == {NoUser, token.user}

BootProfile ==
  /\ doc = "profile"
  /\ \E u \in BootUser : user' = u
  /\ doc' = "shown"
  /\ UNCHANGED <<route, token, maintenance, queue, calls, forms, server>>

\* The assignment to location.href takes effect: a new document, and every
\* pending promise of the old one is gone.
Load == \E m \in BOOLEAN :
  /\ doc = "leaving"
  /\ doc' = "refresh"
  /\ token' = NoToken /\ user' = NoUser /\ maintenance' = m
  /\ isRefreshing' = FALSE /\ refreshSubscribers' = {}
  /\ calls' = [c \in Call |-> IF c \in Pending THEN Ended("gone") ELSE calls[c]]
  /\ signIn' = [st |-> "none", reply |-> Waiting] /\ signOut' = "none"
  /\ UNCHANGED <<route, server>>

----------------------------------------------------------------------------
\* LoginPage.
SubmitSignIn ==
  /\ doc = "shown" /\ route = "guest" /\ token = NoToken
  /\ signIn.st = "none"
  /\ signIn' = [st |-> "asked", reply |-> Waiting]
  /\ UNCHANGED <<page, auth, maintenance, queue, calls, signOut, server>>

SignInAnswered ==
  /\ Shown
  /\ signIn.st = "asked" /\ signIn.reply # Waiting
  /\ signIn' = IF signIn.reply = Failed THEN [st |-> "none", reply |-> Waiting]
               ELSE [signIn EXCEPT !.st = "profile"]
  /\ UNCHANGED <<page, auth, maintenance, queue, calls, signOut, server>>

\* The profile came or was refused: store.login, and navigate to ?next.  When
\* its request fails nothing is stored, though the cookie is set.
StoreLogin ==
  /\ Shown
  /\ signIn.st = "profile"
  /\ \/ token' = signIn.reply.token /\ user' = token'.user /\ route' = "protected"
     \/ UNCHANGED <<auth, route>>
  /\ signIn' = [st |-> "none", reply |-> Waiting]
  /\ UNCHANGED <<doc, maintenance, queue, calls, signOut, server>>

\* The sign-out button of AppShell: the request, then logout() and a new page
\* whatever became of it.
ClickSignOut ==
  /\ doc = "shown" /\ route = "protected" /\ token # NoToken
  /\ signOut = "none"
  /\ signOut' = "asked"
  /\ UNCHANGED <<page, auth, maintenance, queue, calls, signIn, server>>

SignsOutTo == "leaving"

SignedOut ==
  /\ Shown
  /\ signOut = "answered"
  /\ token' = NoToken /\ user' = NoUser
  /\ doc' = SignsOutTo /\ route' = "public"
  /\ signOut' = "none"
  /\ UNCHANGED <<maintenance, queue, calls, signIn, server>>

\* handleSentClose of the deletion dialog in SettingsPage: logout() without a
\* request, then a new page.
CloseDeletionSent ==
  /\ doc = "shown" /\ route = "protected" /\ token # NoToken
  /\ token' = NoToken /\ user' = NoUser
  /\ doc' = "leaving" /\ route' = "public"
  /\ UNCHANGED <<maintenance, queue, calls, forms, server>>

\* handleSignInAgain of NamespaceInvitationAcceptPage: logout() and the login
\* page in the same document.
SignInAgain ==
  /\ doc = "shown" /\ route = "public" /\ token # NoToken
  /\ token' = NoToken /\ user' = NoUser
  /\ route' = "guest"
  /\ UNCHANGED <<doc, maintenance, queue, calls, forms, server>>

----------------------------------------------------------------------------
\* The guards of the router.
Maintained == maintenance /\ user \notin Super

AuthGuard == IF token = NoToken THEN "to login" ELSE IF Maintained THEN "maintenance" ELSE "page"

GuestGuard ==
  CASE token # NoToken -> IF Maintained THEN "maintenance" ELSE "to next"
    [] token = NoToken -> IF maintenance THEN "maintenance" ELSE "page"

PublicMaintenanceGuard == IF Maintained THEN "maintenance" ELSE "page"

Screen == CASE ~Shown -> "spinner"
            [] Shown /\ route = "protected" -> AuthGuard
            [] Shown /\ route = "guest" -> GuestGuard
            [] Shown /\ route = "public" -> PublicMaintenanceGuard

Redirect ==
  /\ \/ Screen = "to login" /\ route' = "guest"
     \/ Screen = "to next" /\ route' = "protected"
  /\ UNCHANGED <<doc, auth, maintenance, queue, calls, forms, server>>

Navigate ==
  /\ doc = "shown" /\ Screen \in {"page", "maintenance"}
  /\ route' \in {"public", "guest", "protected"} \ {route}
  /\ UNCHANGED <<doc, auth, maintenance, queue, calls, forms, server>>

----------------------------------------------------------------------------
Init ==
  /\ doc = "refresh" /\ route \in {"public", "protected"}
  /\ token = NoToken /\ user = NoUser /\ maintenance = FALSE
  /\ isRefreshing = FALSE /\ refreshSubscribers = {}
  /\ calls = [c \in Call |-> Unsent]
  /\ signIn = [st |-> "none", reply |-> Waiting] /\ signOut = "none"
  /\ cookie \in User \cup {NoUser} /\ sessions = {cookie} \ {NoUser}
  /\ issued = 0 /\ expired = 0 /\ inactive = {} /\ ended = FALSE

Interceptor(c) == Deliver(c) \/ RefreshGranted(c) \/ RefreshFailed(c) \/ AfterProfile(c)

Next ==
  \/ \E c \in Call : Send(c) \/ AnswerRefresh(c) \/ Interceptor(c)
  \/ BootRefresh \/ BootProfile \/ Load
  \/ SubmitSignIn \/ AnswerSignIn \/ SignInAnswered \/ StoreLogin
  \/ ClickSignOut \/ AnswerSignOut \/ SignedOut
  \/ CloseDeletionSent \/ SignInAgain \/ Redirect \/ Navigate
  \/ Expire \/ \E u \in User : Deactivate(u)

\* Every request ends, if only in an error of the network, the tab runs what
\* its answers wake, and a document that is left is replaced.
Fairness ==
  /\ \A c \in Call : WF_vars(AnswerRefresh(c)) /\ WF_vars(Interceptor(c))
  /\ WF_vars(BootRefresh) /\ WF_vars(BootProfile) /\ WF_vars(Load)

Spec == Init /\ [][Next]_vars /\ Fairness

----------------------------------------------------------------------------
\* Calls that run a refresh for themselves and for the queue.
Leading == {c \in Call : calls[c].st \in {"refresh", "profile"}}

\* No wakeup is lost: a request that waits for a refresh (client.ts, the queue
\* of the interceptor) is in the queue, and a refresh is in flight that will
\* serve it or the page is being left.
QueuedIsServed ==
  \A c \in Call : calls[c].st = "queued" =>
    c \in refreshSubscribers /\ (doc = "leaving" \/ Leading # {})

\* However many requests fail together when a token expires, the client has
\* one refresh in flight.
OneRefreshAtATime == \A c, d \in Leading : c = d

\* A sign-out that the server carried out is final: whatever was in flight
\* when the button of AppShell was pressed, once its handler is done and the
\* page replaced the tab has no token until someone signs in.
SignOutIsFinal == ended /\ signOut = "none" /\ doc # "leaving" => token = NoToken

\* The spinner of the guards ends, whatever fails while the page boots.
SpinnerEnds == (Screen = "spinner") ~> (Screen # "spinner")

\* Callers see what CallLedger promises: at most one retry, one outcome, and
\* no call that hangs on a page that stays.
LedgerState(x) ==
  CASE x.st \in {"unsent", "ok", "rejected", "gone"} -> x.st
    [] x.st = "refused" -> "rejected"
    [] x.st = "sent" /\ x.retry -> "resent"
    [] OTHER -> "sent"

Ledger == INSTANCE CallLedger WITH call <- [c \in Call |-> LedgerState(calls[c])]

ImplementsCallLedger == Ledger!Spec
===============================================================================
