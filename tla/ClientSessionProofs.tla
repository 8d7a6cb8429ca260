-------------------------- MODULE ClientSessionProofs --------------------------
(***************************************************************************)
(* The session of a tab, for any number of requests and users.  The queue  *)
(* of the response interceptor of api/client.ts: no request waits for a    *)
(* refresh that is not in flight, and refreshes do not overlap.  A session *)
(* that was signed out stays so, and every step of a call is one the call  *)
(* ledger allows.                                                          *)
(***************************************************************************)
EXTENDS ClientSession, TLAPS

IsCall(x) == x = [st |-> x.st, sent |-> x.sent, cookie |-> x.cookie, retry |-> x.retry, reply |-> x.reply]

\* The flag is up exactly while a call leads; the queue holds what is queued.
QueueInv ==
  /\ calls = [c \in Call |-> calls[c]] /\ \A c \in Call : IsCall(calls[c])
  /\ \A c \in Leading : isRefreshing
  /\ isRefreshing => Leading # {}
  /\ OneRefreshAtATime
  /\ QueuedIsServed

\* QueueInv holds in every state, hence the two invariants it contains:
\* setting the flag before the first await of the interceptor, and serving
\* the queue, emptying it and clearing the flag without an await between, is
\* enough for any number of requests (client.ts, the response interceptor).
THEOREM RefreshQueueIsSafe == Spec => [](QueuedIsServed /\ OneRefreshAtATime)
<1>1. Init => QueueInv
  <2> SUFFICES ASSUME Init PROVE QueueInv
    OBVIOUS
  <2>1. \A c \in Call : calls[c] = Unsent
    BY DEF Init
  <2>2. \A c \in Call : IsCall(calls[c]) /\ calls[c].st = "unsent"
    BY <2>1 DEF InState, IsCall, Unsent
  <2>3. Leading = {}
    BY <2>2 DEF Leading
  <2> QED
    BY <2>2, <2>3 DEF Init, QueueInv, OneRefreshAtATime, QueuedIsServed
<1>2. QueueInv /\ [Next]_vars => QueueInv'
  <2> SUFFICES ASSUME QueueInv, [Next]_vars PROVE QueueInv'
    OBVIOUS
  <2> USE DEF page, queue, auth, forms, QueueInv, IsCall, Leading, OneRefreshAtATime, QueuedIsServed
  <2>1. ASSUME UNCHANGED <<calls, isRefreshing, refreshSubscribers>>, doc = "leaving" => doc' = "leaving"
        PROVE QueueInv'
    BY <2>1
  <2>2. ASSUME NEW c \in Call, Send(c) PROVE QueueInv'
    BY <2>2 DEF InState, Send, SentWith
  <2>3. ASSUME NEW c \in Call, AnswerRefresh(c) PROVE QueueInv'
    BY <2>3 DEF AnswerRefresh, Granted, Failed
  <2>4. ASSUME NEW c \in Call, Deliver(c) PROVE QueueInv'
    <3>1. ASSUME NEW s \in {"ok", "refused", "rejected"}, calls[c].st = "sent",
                 calls' = [calls EXCEPT ![c] = Ended(s)],
                 UNCHANGED <<queue, doc>>
          PROVE QueueInv'
      <4>1. IsCall(Ended(s)) /\ Ended(s).st = s
        BY DEF InState, Ended, Unsent
      <4>2. \A d \in Call : calls'[d] = IF d = c THEN Ended(s) ELSE calls[d]
        BY <3>1
      <4>3. \A d \in Call : calls'[d].st \in {"refresh", "profile"} <=> calls[d].st \in {"refresh", "profile"}
        BY <3>1, <4>1, <4>2
      <4>4. Leading' = Leading
        BY <4>3
      <4> QED BY <3>1, <4>1, <4>2, <4>4
    <3>2. CASE /\ isRefreshing /\ UNCHANGED isRefreshing /\ doc' = doc
               /\ calls[c].st = "sent"
               /\ calls' = [calls EXCEPT ![c].st = "queued", ![c].retry = TRUE]
               /\ refreshSubscribers' = refreshSubscribers \cup {c}
      <4>1. calls'[c].st = "queued" /\ IsCall(calls'[c])
        <5>1. calls[c] = [st |-> "sent", sent |-> calls[c].sent, cookie |-> calls[c].cookie,
                          retry |-> calls[c].retry, reply |-> calls[c].reply]
          BY <3>2
        <5>2. calls'[c] = [st |-> "queued", sent |-> calls[c].sent, cookie |-> calls[c].cookie,
                           retry |-> TRUE, reply |-> calls[c].reply]
          BY <3>2, <5>1
        <5> QED BY <5>2
      <4>2. Leading' = Leading
        <5>1. \A d \in Call : d # c => calls'[d] = calls[d]
          BY <3>2
        <5>2. \A d \in Call : calls'[d].st \in {"refresh", "profile"} <=> calls[d].st \in {"refresh", "profile"}
          BY <3>2, <4>1, <5>1
        <5> QED BY <5>2
      <4>3. \A d \in Call : d # c => calls'[d] = calls[d]
        BY <3>2
      <4> QED BY <3>2, <4>1, <4>2, <4>3
    <3>3. CASE /\ ~isRefreshing /\ isRefreshing' = TRUE /\ doc' = doc
               /\ calls[c].st = "sent" /\ UNCHANGED refreshSubscribers
               /\ calls' = [calls EXCEPT ![c].st = "refresh", ![c].cookie = cookie, ![c].retry = TRUE]
      <4>1. calls'[c].st = "refresh" /\ IsCall(calls'[c])
        <5>1. calls[c] = [st |-> "sent", sent |-> calls[c].sent, cookie |-> calls[c].cookie,
                          retry |-> calls[c].retry, reply |-> calls[c].reply]
          BY <3>3
        <5>2. calls'[c] = [st |-> "refresh", sent |-> calls[c].sent, cookie |-> cookie,
                           retry |-> TRUE, reply |-> calls[c].reply]
          BY <3>3, <5>1
        <5> QED BY <5>2
      <4>2. \A d \in Call : d # c => calls'[d] = calls[d]
        BY <3>3
      <4>3. Leading = {}
        BY <3>3
      <4>4. Leading' = {c}
        <5>1. \A d \in Call : calls'[d].st \in {"refresh", "profile"} <=> d = c
          BY <4>1, <4>2, <4>3
        <5> QED BY <5>1
      <4>5. \A d \in Call : IsCall(calls'[d])
        BY <4>1, <4>2
      <4>6. calls' = [d \in Call |-> calls'[d]]
        BY <3>3
      <4> QED BY <3>3, <4>1, <4>2, <4>4, <4>5, <4>6
    <3> QED BY <2>4, <3>1, <3>2, <3>3 DEF Deliver
  <2>5. ASSUME NEW c \in Call, RefreshGranted(c) PROVE QueueInv'
    BY <2>5 DEF RefreshGranted, WhileProfileLoads
  <2>6. ASSUME NEW c \in Call, RefreshFailed(c) PROVE QueueInv'
    BY ZenonT(30), <2>6 DEF InState, RefreshFailed, LeavesPage, Ended, Unsent
  <2>7. ASSUME NEW c \in Call, AfterProfile(c) PROVE QueueInv'
    <3>1. \A d \in Call : calls'[d] = IF d = c \/ d \in Served(c) THEN Resent(c) ELSE calls[d]
      BY <2>7 DEF AfterProfile
    <3>2. Resent(c).st = "sent"
      BY DEF InState, Resent, SentWith
    <3>3. /\ c \in Leading /\ refreshSubscribers' = {} /\ isRefreshing' = FALSE
          /\ calls' = [d \in Call |-> calls'[d]]
      BY <2>7 DEF AfterProfile
    <3>4. \A d \in Call : d \notin Leading' /\ calls'[d].st # "queued"
      BY <3>1, <3>2, <3>3 DEF Served
    <3>5. IsCall(Resent(c))
      BY DEF InState, Resent, SentWith
    <3>6. \A d \in Call : IsCall(calls'[d])
      BY <3>1, <3>5
    <3>7. Leading' = {}
      BY <3>4
    <3> QED BY <3>3, <3>4, <3>6, <3>7
  <2>8. CASE Load
    <3>1. /\ \A c \in Call : calls'[c] = IF c \in Pending THEN Ended("gone") ELSE calls[c]
          /\ calls' = [d \in Call |-> calls'[d]] /\ isRefreshing' = FALSE
      BY <2>8 DEF Load
    <3>2. \A c \in Call : calls'[c].st \notin {"refresh", "profile", "queued"}
      BY <3>1 DEF InState, Pending, Ended, Unsent
    <3>3. \A c \in Call : IsCall(calls'[c])
      BY <3>1 DEF InState, Ended, Unsent
    <3>4. Leading' = {}
      BY <3>2
    <3> QED BY <3>1, <3>2, <3>3, <3>4
  <2>9. CASE BootRefresh
    BY <2>9, <2>1 DEF BootRefresh
  <2>10. CASE BootProfile
    BY <2>10, <2>1 DEF BootProfile
  <2>11. CASE SubmitSignIn \/ AnswerSignIn \/ SignInAnswered \/ StoreLogin
    BY <2>11, <2>1 DEF SubmitSignIn, AnswerSignIn, SignInAnswered, StoreLogin
  <2>12. CASE ClickSignOut \/ AnswerSignOut
    BY <2>12, <2>1 DEF ClickSignOut, AnswerSignOut
  <2>13. CASE SignedOut \/ CloseDeletionSent \/ SignInAgain
    BY <2>13, <2>1 DEF SignedOut, SignsOutTo, CloseDeletionSent, SignInAgain
  <2>14. CASE Redirect \/ Navigate
    BY <2>14, <2>1 DEF Redirect, Navigate
  <2>15. CASE Expire \/ \E u \in User : Deactivate(u)
    BY <2>15, <2>1 DEF Expire, Deactivate, tab
  <2>16. CASE UNCHANGED vars
    BY <2>16, <2>1 DEF vars, tab
  <2> QED
    BY <2>2, <2>3, <2>4, <2>5, <2>6, <2>7, <2>8, <2>9, <2>10, <2>11, <2>12, <2>13, <2>14, <2>15, <2>16
    DEF Next, Interceptor
<1>3. QueueInv => QueuedIsServed /\ OneRefreshAtATime
  BY DEF QueueInv
<1> QED
  BY <1>1, <1>2, <1>3, PTL DEF Spec

\* At most one refresh is in flight, by itself (client.ts, isRefreshing).
COROLLARY OneRefresh == Spec => []OneRefreshAtATime
<1>1. QueuedIsServed /\ OneRefreshAtATime => OneRefreshAtATime
  OBVIOUS
<1> QED
  BY <1>1, RefreshQueueIsSafe, PTL

----------------------------------------------------------------------------
\* Types.

LEMMA TokenTypes ==
  /\ \A k \in Token \cup {NoToken} : k.user \in User \cup {NoUser} /\ k.n \in Nat
  /\ Waiting \in Reply /\ Failed \in Reply
  /\ \A k \in Token \cup {NoToken} : Granted(k) \in Reply
<1> USE ClientSessionAssumption DEF Token, NoToken
<1>1. \A k \in Token \cup {NoToken} : k.user \in User \cup {NoUser} /\ k.n \in Nat
  OBVIOUS
<1>2. Waiting \in Reply /\ Failed \in Reply /\ \A k \in Token \cup {NoToken} : Granted(k) \in Reply
  BY DEF Reply, Waiting, Failed, Granted
<1> QED
  BY <1>1, <1>2

\* What a call is after it ended, was sent or was sent again.
LEMMA CallTypes ==
  ASSUME NEW k \in Token \cup {NoToken}, NEW again \in BOOLEAN,
         NEW s \in {"unsent", "ok", "refused", "rejected", "gone"}
  PROVE  SentWith(k, again) \in CallState /\ Ended(s) \in CallState /\ Unsent \in CallState
BY TokenTypes DEF SentWith, Ended, Unsent, InState, CallState

\* A token that /auth/refresh or /auth/login issues is within the bound.
LEMMA IssueTypes ==
  ASSUME TypeOK, NEW u \in User, issued < MaxTokens
  PROVE  NextToken(u) \in Token /\ issued + 1 \in 0..MaxTokens /\ expired \in 0..(issued + 1)
<1>1. issued + 1 \in 1..MaxTokens
  BY ClientSessionAssumption DEF TypeOK
<1> QED
  BY <1>1, ClientSessionAssumption DEF TypeOK, NextToken, Token

\* The steps of the interceptor, which alone give a call its states.
LEMMA CallStepTypes ==
  ASSUME TypeOK, NEW c \in Call,
         Send(c) \/ AnswerRefresh(c) \/ Interceptor(c)
  PROVE  calls' \in [Call -> CallState]
<1>0. calls \in [Call -> CallState] /\ cookie \in User \cup {NoUser} /\ token \in Token \cup {NoToken}
  BY DEF TypeOK
<1>1. calls[c].reply.token \in Token \cup {NoToken}
  BY <1>0 DEF CallState, Reply
<1>2. CASE Send(c)
  <2>1. WithToken(NoToken) \in Token \cup {NoToken}
    BY <1>0 DEF WithToken
  <2>2. SentWith(WithToken(NoToken), FALSE) \in CallState
    BY <2>1, CallTypes
  <2> QED BY <1>0, <1>2, <2>2 DEF Send
<1>3. CASE AnswerRefresh(c)
  <2>1. ASSUME NEW r \in Reply, calls' = [calls EXCEPT ![c].reply = r] PROVE calls' \in [Call -> CallState]
    BY <1>0, <2>1 DEF CallState
  <2>2. Failed \in Reply /\ (calls[c].cookie \in User /\ issued < MaxTokens => Granted(NextToken(calls[c].cookie)) \in Reply)
    BY TokenTypes, IssueTypes
  <2>3. sessions \subseteq User
    BY DEF TypeOK
  <2> QED BY <1>3, <2>1, <2>2, <2>3 DEF AnswerRefresh
<1>4. CASE Deliver(c)
  <2>1. ASSUME NEW s \in {"ok", "refused", "rejected"}, calls' = [calls EXCEPT ![c] = Ended(s)]
        PROVE  calls' \in [Call -> CallState]
    BY <1>0, <2>1, CallTypes
  <2>2. ASSUME calls' = [calls EXCEPT ![c].st = "queued", ![c].retry = TRUE]
        PROVE  calls' \in [Call -> CallState]
    BY ZenonT(30), <1>0, <2>2 DEF CallState
  <2>3. ASSUME calls' = [calls EXCEPT ![c].st = "refresh", ![c].cookie = cookie, ![c].retry = TRUE]
        PROVE  calls' \in [Call -> CallState]
    <3>1. calls'[c] = [st |-> "refresh", sent |-> calls[c].sent, cookie |-> cookie,
                       retry |-> TRUE, reply |-> calls[c].reply]
      BY ZenonT(30), <1>0, <2>3 DEF CallState
    <3>2. calls'[c] \in CallState
      <4>1. calls[c].sent \in Token \cup {NoToken} /\ calls[c].reply \in Reply
        BY <1>0 DEF CallState
      <4> QED BY <1>0, <3>1, <4>1 DEF CallState
    <3>3. calls' = [d \in Call |-> calls'[d]] /\ \A d \in Call : d # c => calls'[d] = calls[d]
      BY <1>0, <2>3
    <3> QED BY <1>0, <3>2, <3>3
  <2> QED BY <1>4, <2>1, <2>2, <2>3 DEF Deliver
<1>5. CASE RefreshGranted(c)
  BY <1>0, <1>5 DEF RefreshGranted, CallState
<1>6. CASE RefreshFailed(c)
  BY <1>0, <1>6, CallTypes DEF RefreshFailed
<1>7. CASE AfterProfile(c)
  <2>1. WithToken(calls[c].reply.token) \in Token \cup {NoToken}
    BY <1>0, <1>1 DEF WithToken
  <2>2. Resent(c) \in CallState
    BY <2>1, CallTypes DEF Resent
  <2> QED BY <1>0, <1>7, <2>2 DEF AfterProfile
<1> QED
  BY <1>2, <1>3, <1>4, <1>5, <1>6, <1>7 DEF Interceptor

LEMMA TypeStep == TypeOK /\ [Next]_vars => TypeOK'
<1> SUFFICES ASSUME TypeOK, [Next]_vars PROVE TypeOK'
  OBVIOUS
<1>0. /\ \A c \in Call : calls[c].reply.token \in Token \cup {NoToken}
      /\ signIn.reply.token \in Token \cup {NoToken}
  BY DEF TypeOK, CallState, Reply
<1>1. ASSUME NEW c \in Call, Send(c) PROVE TypeOK'
  <2>1. calls' \in [Call -> CallState]
    BY <1>1, CallStepTypes
  <2> QED BY ZenonT(30), <1>1, <2>1 DEF Send, TypeOK, page, auth, queue, forms, server
<1>2. ASSUME NEW c \in Call, AnswerRefresh(c) PROVE TypeOK'
  <2>1. calls' \in [Call -> CallState]
    BY <1>2, CallStepTypes
  <2>2. issued' \in 0..MaxTokens /\ expired' \in 0..issued'
    <3>1. sessions \subseteq User
      BY DEF TypeOK
    <3>2. calls[c].cookie \in sessions /\ issued < MaxTokens =>
            issued + 1 \in 0..MaxTokens /\ expired \in 0..(issued + 1)
      BY <3>1, IssueTypes
    <3> QED BY <1>2, <3>2 DEF AnswerRefresh, Issue, TypeOK
  <2> QED BY <1>2, <2>1, <2>2 DEF AnswerRefresh, TypeOK, page, auth, queue, forms
<1>3. ASSUME NEW c \in Call, Deliver(c) PROVE TypeOK'
  <2>1. calls' \in [Call -> CallState]
    BY <1>3, CallStepTypes DEF Interceptor
  <2>2. maintenance' \in BOOLEAN /\ isRefreshing' \in BOOLEAN /\ refreshSubscribers' \subseteq Call
    BY <1>3 DEF Deliver, TypeOK, queue
  <2> QED BY <1>3, <2>1, <2>2 DEF Deliver, TypeOK, page, auth, forms, server
<1>4. ASSUME NEW c \in Call, RefreshGranted(c) PROVE TypeOK'
  <2>1. calls' \in [Call -> CallState]
    BY <1>4, CallStepTypes DEF Interceptor
  <2> QED BY <1>0, <1>4, <2>1 DEF RefreshGranted, WhileProfileLoads, TypeOK, page, forms, server
<1>5. ASSUME NEW c \in Call, RefreshFailed(c) PROVE TypeOK'
  <2>1. calls' \in [Call -> CallState]
    BY <1>5, CallStepTypes DEF Interceptor
  <2> QED BY <1>5, <2>1 DEF RefreshFailed, LeavesPage, TypeOK, page, forms, server
<1>6. ASSUME NEW c \in Call, AfterProfile(c) PROVE TypeOK'
  <2>1. calls' \in [Call -> CallState]
    BY <1>6, CallStepTypes DEF Interceptor
  <2>2. user' \in User \cup {NoUser}
    BY <1>0, <1>6, TokenTypes DEF AfterProfile, TypeOK
  <2> QED BY <1>6, <2>1, <2>2 DEF AfterProfile, TypeOK, page, forms, server
<1>7. CASE BootRefresh
  <2>1. cookie \in sessions /\ issued < MaxTokens =>
          /\ NextToken(cookie) \in Token
          /\ issued + 1 \in 0..MaxTokens /\ expired \in 0..(issued + 1)
    BY IssueTypes DEF TypeOK
  <2> QED BY <1>7, <2>1 DEF BootRefresh, Issue, TypeOK, queue, forms
<1>8. CASE BootProfile
  <2>1. token.user \in User \cup {NoUser}
    BY TokenTypes DEF TypeOK
  <2> QED BY <1>8, <2>1 DEF BootProfile, BootUser, TypeOK, queue, forms, server
<1>9. CASE Load
  <2>1. calls' \in [Call -> CallState]
    <3>1. Ended("gone") \in CallState
      BY CallTypes
    <3> QED BY <1>9, <3>1 DEF Load, TypeOK
  <2>2. signIn' \in [st : {"none", "asked", "profile"}, reply : Reply]
    BY <1>9, TokenTypes DEF Load
  <2> QED BY <1>9, <2>1, <2>2 DEF Load, TypeOK, server
<1>10. CASE SubmitSignIn
  <2>1. signIn' \in [st : {"none", "asked", "profile"}, reply : Reply]
    BY <1>10, TokenTypes DEF SubmitSignIn
  <2> QED BY <1>10, <2>1 DEF SubmitSignIn, TypeOK, page, auth, queue, server
<1>11. CASE AnswerSignIn
  <2>1. signIn \in [st : {"none", "asked", "profile"}, reply : Reply]
    BY DEF TypeOK
  <2>2. CASE signIn' = [signIn EXCEPT !.reply = Failed] /\ UNCHANGED server
    <3>1. signIn' \in [st : {"none", "asked", "profile"}, reply : Reply]
      BY <2>1, <2>2, TokenTypes
    <3> QED BY <1>11, <2>2, <3>1 DEF AnswerSignIn, TypeOK, page, auth, queue, server
  <2>3. ASSUME NEW u \in User \ inactive, issued < MaxTokens,
               signIn' = [signIn EXCEPT !.reply = Granted(NextToken(u))],
               cookie' = u, sessions' = sessions \cup {u}, Issue, ended' = FALSE, UNCHANGED inactive
        PROVE  TypeOK'
    <3>1. NextToken(u) \in Token /\ issued + 1 \in 0..MaxTokens /\ expired \in 0..(issued + 1)
      BY <2>3, IssueTypes
    <3>2. Granted(NextToken(u)) \in Reply
      BY <3>1, TokenTypes
    <3>3. signIn' \in [st : {"none", "asked", "profile"}, reply : Reply]
      BY <2>1, <2>3, <3>2
    <3> QED BY ZenonT(30), <1>11, <2>3, <3>1, <3>3 DEF AnswerSignIn, Issue, TypeOK, page, auth, queue
  <2> QED BY <1>11, <2>2, <2>3 DEF AnswerSignIn
<1>12. CASE SignInAnswered
  <2>1. signIn' \in [st : {"none", "asked", "profile"}, reply : Reply]
    BY <1>12, TokenTypes DEF SignInAnswered, TypeOK
  <2> QED BY <1>12, <2>1 DEF SignInAnswered, TypeOK, page, auth, queue, server
<1>13. CASE StoreLogin
  <2>1. signIn' \in [st : {"none", "asked", "profile"}, reply : Reply]
    BY <1>13, TokenTypes DEF StoreLogin
  <2>2. token' \in Token \cup {NoToken} /\ user' \in User \cup {NoUser}
    BY <1>0, <1>13, TokenTypes DEF StoreLogin, TypeOK, auth
  <2> QED BY <1>13, <2>1, <2>2 DEF StoreLogin, TypeOK, queue, server
<1>14. CASE ClickSignOut \/ SignedOut \/ CloseDeletionSent \/ SignInAgain
  BY <1>14 DEF ClickSignOut, SignedOut, SignsOutTo, CloseDeletionSent, SignInAgain, TypeOK,
               page, auth, queue, forms, server
<1>15. CASE AnswerSignOut
  BY ZenonT(30), <1>15 DEF AnswerSignOut, RevokeSession, TypeOK, page, auth, queue
<1>16. CASE Redirect \/ Navigate
  BY <1>16 DEF Redirect, Navigate, TypeOK, auth, queue, forms, server
<1>17. CASE Expire
  <2>1. expired' \in 0..issued
    BY <1>17, ClientSessionAssumption DEF Expire, TypeOK
  <2> QED BY <1>17, <2>1 DEF Expire, TypeOK, tab, page, auth, queue, forms
<1>18. ASSUME NEW u \in User, Deactivate(u) PROVE TypeOK'
  BY <1>18 DEF Deactivate, TypeOK, tab, page, auth, queue, forms
<1>19. CASE UNCHANGED vars
  BY <1>19 DEF TypeOK, vars, tab, server, page, auth, queue, forms
<1> QED
  BY <1>1, <1>2, <1>3, <1>4, <1>5, <1>6, <1>7, <1>8, <1>9, <1>10, <1>11, <1>12, <1>13, <1>14, <1>15,
     <1>16, <1>17, <1>18, <1>19 DEF Next, Interceptor

\* The tab, what is on its way and the server keep their types, for any
\* accounts, calls and number of tokens.
THEOREM TypeCorrect == Spec => []TypeOK
<1>1. Init => TypeOK
  <2> SUFFICES ASSUME Init PROVE TypeOK
    OBVIOUS
  <2>1. calls \in [Call -> CallState]
    BY CallTypes DEF Init
  <2>2. signIn \in [st : {"none", "asked", "profile"}, reply : Reply]
    BY TokenTypes DEF Init
  <2>3. issued \in 0..MaxTokens /\ expired \in 0..issued
    BY ClientSessionAssumption DEF Init
  <2> QED BY <2>1, <2>2, <2>3 DEF Init, TypeOK
<1> QED
  BY <1>1, TypeStep, PTL DEF Spec

----------------------------------------------------------------------------
\* Sign-out.

\* The server ended the session and the tab is done with the sign-out.
SignedOff == ended /\ signOut = "none" /\ doc # "leaving"

\* What the tab has left then: no token, nor anything on its way that would
\* bring one, and a cookie that no load of the page can use.  Only a load of
\* the page gets there, since both ways out of a sign-out leave the document.
NothingLeft ==
  /\ token = NoToken
  /\ \A c \in Call :
       /\ calls[c].st \notin {"refresh", "profile", "queued"}
       /\ calls[c].st = "sent" => calls[c].sent = NoToken
  /\ signIn.st # "profile" /\ signIn.reply \in {Waiting, Failed}

SignOutInv ==
  /\ ended => cookie = NoUser
  /\ SignedOff => NothingLeft

\* A call that nobody is signed in for, and that ends without a refresh.
LEMMA QuietCallStep ==
  ASSUME TypeOK, SignOutInv, NEW c \in Call, Send(c) \/ AnswerRefresh(c) \/ Interceptor(c)
  PROVE  SignOutInv'
<1>0. calls \in [Call -> CallState] /\ (SignedOff => NothingLeft)
  BY DEF TypeOK, SignOutInv
<1>1. cookie' = cookie /\ ended' = ended /\ signOut' = signOut /\ signIn' = signIn
  BY DEF Interceptor, Send, AnswerRefresh, Deliver, RefreshGranted, RefreshFailed, AfterProfile,
         forms, server
<1>2. SignedOff' => SignedOff
  BY <1>1 DEF SignedOff, Interceptor, Send, AnswerRefresh, Deliver, RefreshGranted, RefreshFailed,
              AfterProfile, LeavesPage, page
<1>3. SUFFICES ASSUME SignedOff', NothingLeft PROVE NothingLeft'
  BY <1>0, <1>1, <1>2 DEF SignOutInv
<1>4. CASE Send(c)
  <2>1. calls' = [calls EXCEPT ![c] = SentWith(NoToken, FALSE)] /\ token' = NoToken
    BY <1>3, <1>4 DEF Send, WithToken, NothingLeft, auth
  <2>2. SentWith(NoToken, FALSE).st = "sent" /\ SentWith(NoToken, FALSE).sent = NoToken
    BY DEF SentWith, InState
  <2>3. \A d \in Call : calls'[d] = IF d = c THEN SentWith(NoToken, FALSE) ELSE calls[d]
    BY <1>0, <2>1
  <2> QED BY <1>1, <1>3, <2>1, <2>2, <2>3 DEF NothingLeft
<1>5. CASE Deliver(c)
  <2>1. ~ChasesRefresh(c)
    BY <1>3, <1>5 DEF Deliver, ChasesRefresh, NothingLeft
  <2>2. PICK s \in {"ok", "refused", "rejected"} : calls' = [calls EXCEPT ![c] = Ended(s)]
    BY <1>5, <2>1 DEF Deliver
  <2>3. Ended(s).st = s
    BY DEF Ended, InState
  <2>4. \A d \in Call : calls'[d] = IF d = c THEN Ended(s) ELSE calls[d]
    BY <1>0, <2>2
  <2>5. token' = token
    BY <1>5 DEF Deliver, auth
  <2> QED BY <1>1, <1>3, <2>3, <2>4, <2>5 DEF NothingLeft
<1>6. ~(AnswerRefresh(c) \/ RefreshGranted(c) \/ RefreshFailed(c) \/ AfterProfile(c))
  BY <1>3 DEF NothingLeft, AnswerRefresh, RefreshGranted, RefreshFailed, AfterProfile
<1> QED
  BY <1>4, <1>5, <1>6 DEF Interceptor

\* The boot, the forms and the server, from a state with nothing left and to it.
LEMMA QuietTabStep ==
  ASSUME TypeOK, SignOutInv,
         \/ BootRefresh \/ BootProfile \/ Load
         \/ SubmitSignIn \/ AnswerSignIn \/ SignInAnswered \/ StoreLogin
         \/ ClickSignOut \/ AnswerSignOut \/ SignedOut
         \/ CloseDeletionSent \/ SignInAgain \/ Redirect \/ Navigate
         \/ Expire \/ \E u \in User : Deactivate(u)
  PROVE  SignOutInv'
<1>0. /\ ended => cookie = NoUser
      /\ SignedOff => NothingLeft
      /\ sessions \subseteq User /\ NoUser \notin User
      /\ signIn \in [st : {"none", "asked", "profile"}, reply : Reply]
  BY ClientSessionAssumption DEF TypeOK, SignOutInv
<1>1. ASSUME UNCHANGED <<calls, signIn, token, cookie, ended>>, SignedOff' => SignedOff PROVE SignOutInv'
  BY <1>0, <1>1 DEF SignOutInv, NothingLeft
<1>2. CASE BootRefresh
  <2>1. ~SignedOff \/ token' = token
    BY <1>0, <1>2 DEF BootRefresh, SignedOff
  <2>2. SignedOff' => SignedOff
    BY <1>2 DEF BootRefresh, SignedOff, forms
  <2> QED BY <1>0, <1>2, <2>1, <2>2 DEF BootRefresh, SignOutInv, NothingLeft, forms
<1>3. CASE BootProfile
  BY <1>1, <1>3 DEF BootProfile, SignedOff, forms, server
<1>4. CASE Load
  <2>1. \A c \in Call : calls'[c] = IF c \in Pending THEN Ended("gone") ELSE calls[c]
    BY <1>4 DEF Load
  <2>2. \A c \in Call : calls'[c].st \notin {"sent", "refresh", "profile", "queued"}
    BY <2>1 DEF Pending, Ended, InState
  <2>3. signIn' = [st |-> "none", reply |-> Waiting] /\ token' = NoToken /\ UNCHANGED <<cookie, ended>>
    BY <1>4 DEF Load, server
  <2> QED BY <1>0, <2>2, <2>3 DEF SignOutInv, NothingLeft
<1>5. CASE SubmitSignIn
  <2>1. signIn' = [st |-> "asked", reply |-> Waiting] /\ UNCHANGED <<calls, token, cookie, ended>>
    BY <1>5 DEF SubmitSignIn, auth, server
  <2>2. SignedOff' => SignedOff
    BY <1>5 DEF SubmitSignIn, SignedOff, page, server
  <2> QED BY <1>0, <2>1, <2>2 DEF SignOutInv, NothingLeft
<1>6. CASE AnswerSignIn
  <2>1. CASE ended' = FALSE
    BY <2>1 DEF SignOutInv, SignedOff
  <2>2. CASE signIn' = [signIn EXCEPT !.reply = Failed] /\ UNCHANGED server
    <3>1. signIn'.reply = Failed /\ signIn'.st = signIn.st
      BY <1>0, <2>2
    <3>2. SignedOff' => SignedOff
      BY <1>6, <2>2 DEF AnswerSignIn, SignedOff, page, server
    <3> QED BY <1>0, <1>6, <2>2, <3>1, <3>2 DEF AnswerSignIn, SignOutInv, NothingLeft, auth, server
  <2> QED BY <1>6, <2>1, <2>2 DEF AnswerSignIn
<1>7. CASE SignInAnswered
  <2>1. UNCHANGED <<calls, token, cookie, ended>> /\ (SignedOff' => SignedOff)
    BY <1>7 DEF SignInAnswered, SignedOff, page, auth, server
  <2>2. SignedOff => signIn' = [st |-> "none", reply |-> Waiting]
    BY <1>0, <1>7 DEF SignInAnswered, NothingLeft
  <2> QED BY <1>0, <2>1, <2>2 DEF SignOutInv, NothingLeft
<1>8. CASE StoreLogin
  <2>1. ~SignedOff
    BY <1>0, <1>8 DEF StoreLogin, NothingLeft
  <2>2. UNCHANGED <<cookie, ended>> /\ ~SignedOff'
    BY <1>8, <2>1 DEF StoreLogin, SignedOff, server
  <2> QED BY <1>0, <2>2 DEF SignOutInv
<1>9. CASE ClickSignOut
  <2>1. UNCHANGED <<cookie, ended>> /\ ~SignedOff'
    BY <1>9 DEF ClickSignOut, SignedOff, server
  <2> QED BY <1>0, <2>1 DEF SignOutInv
<1>10. CASE AnswerSignOut
  <2>1. (ended' => cookie' = NoUser) /\ ~SignedOff'
    BY <1>0, <1>10 DEF AnswerSignOut, RevokeSession, SignedOff
  <2> QED BY <2>1 DEF SignOutInv
<1>11. CASE SignedOut \/ CloseDeletionSent
  <2>1. UNCHANGED <<cookie, ended>> /\ ~SignedOff'
    BY <1>11 DEF SignedOut, SignsOutTo, CloseDeletionSent, SignedOff, server
  <2> QED BY <1>0, <2>1 DEF SignOutInv
<1>12. CASE SignInAgain
  <2>1. token' = NoToken /\ UNCHANGED <<calls, signIn, cookie, ended>> /\ (SignedOff' => SignedOff)
    BY <1>12 DEF SignInAgain, SignedOff, forms, server
  <2> QED BY <1>0, <2>1 DEF SignOutInv, NothingLeft
<1>13. CASE Redirect \/ Navigate
  BY <1>1, <1>13 DEF Redirect, Navigate, SignedOff, auth, forms, server
<1>14. CASE Expire \/ \E u \in User : Deactivate(u)
  BY <1>1, <1>14 DEF Expire, Deactivate, SignedOff, tab, page, auth, forms
<1> QED
  BY <1>2, <1>3, <1>4, <1>5, <1>6, <1>7, <1>8, <1>9, <1>10, <1>11, <1>12, <1>13, <1>14

\* A silent refresh, a queued call or an old token that was in flight when the
\* button of AppShell was pressed does not bring back a session the server has
\* ended (handleLogout; the interceptors of client.ts; initAuth).
THEOREM SignOutFinal == Spec => []SignOutIsFinal
<1>1. Init => SignOutInv
  BY DEF Init, SignOutInv, SignedOff
<1>2. TypeOK /\ SignOutInv /\ [Next]_vars => SignOutInv'
  <2> SUFFICES ASSUME TypeOK, SignOutInv, [Next]_vars PROVE SignOutInv'
    OBVIOUS
  <2>1. CASE UNCHANGED vars
    BY <2>1 DEF SignOutInv, SignedOff, NothingLeft, vars, tab, server, page, auth, forms
  <2> QED BY <2>1, QuietCallStep, QuietTabStep DEF Next
<1>3. SignOutInv => SignOutIsFinal
  BY DEF SignOutInv, SignedOff, NothingLeft, SignOutIsFinal
<1> QED
  BY <1>1, <1>2, <1>3, TypeCorrect, PTL DEF Spec

----------------------------------------------------------------------------
\* The ledger of calls.

Recorded == [c \in Call |-> LedgerState(calls[c])]

\* Whoever is in the queue waits for its refresh.
QueueWaits == \A c \in refreshSubscribers : calls[c].st = "queued"

LEMMA EndsInLedger ==
  ASSUME TypeOK, NEW c \in Call, calls[c].st \in {"sent", "refresh", "profile", "queued"},
         NEW s \in {"ok", "refused", "rejected"}, calls' = [calls EXCEPT ![c] = Ended(s)]
  PROVE  Ledger!End(c)
<1>1. Ended(s).st = s
  BY DEF Ended, InState
<1>2. LedgerState(calls[c]) \in {"sent", "resent"}
  BY DEF LedgerState
<1>3. PICK o \in {"ok", "rejected"} : LedgerState(Ended(s)) = o
  BY <1>1 DEF LedgerState
<1>4. \A d \in Call : calls'[d] = IF d = c THEN Ended(s) ELSE calls[d]
  BY DEF TypeOK
<1>5. Recorded' = [Recorded EXCEPT ![c] = o]
  <2>1. \A d \in Call : LedgerState(calls'[d]) = IF d = c THEN o ELSE LedgerState(calls[d])
    BY <1>3, <1>4
  <2> QED BY <2>1 DEF Recorded
<1> QED
  BY <1>2, <1>5 DEF Ledger!End, Ledger!Open, Recorded

LEMMA CallLedgerStep ==
  ASSUME TypeOK, QueueWaits, [Next]_vars
  PROVE  [Ledger!Next]_Recorded /\ QueueWaits'
<1>0. calls \in [Call -> CallState] /\ refreshSubscribers \subseteq Call
  BY DEF TypeOK
<1>1. ASSUME UNCHANGED <<calls, refreshSubscribers>> PROVE UNCHANGED Recorded /\ QueueWaits'
  BY <1>1 DEF Recorded, QueueWaits
<1>2. ASSUME NEW c \in Call, Send(c) PROVE Ledger!Send(c) /\ QueueWaits'
  <2>1. PICK k : calls[c].st = "unsent" /\ calls' = [calls EXCEPT ![c] = SentWith(k, FALSE)]
    BY <1>2 DEF Send
  <2>2. SentWith(k, FALSE).st = "sent" /\ SentWith(k, FALSE).retry = FALSE
    BY DEF SentWith, InState
  <2>3. LedgerState(calls[c]) = "unsent" /\ LedgerState(SentWith(k, FALSE)) = "sent"
    BY <2>1, <2>2 DEF LedgerState
  <2>4. \A d \in Call : calls'[d] = IF d = c THEN SentWith(k, FALSE) ELSE calls[d]
    BY <1>0, <2>1
  <2>5. Recorded' = [Recorded EXCEPT ![c] = "sent"]
    BY <2>3, <2>4 DEF Recorded
  <2>6. refreshSubscribers' = refreshSubscribers
    BY <1>2 DEF Send, queue
  <2> QED BY <1>0, <2>1, <2>3, <2>4, <2>5, <2>6 DEF Ledger!Send, Recorded, QueueWaits
<1>3. ASSUME NEW c \in Call, AnswerRefresh(c) PROVE UNCHANGED Recorded /\ QueueWaits'
  <2>1. calls[c].st = "refresh" /\ \E r : calls' = [calls EXCEPT ![c].reply = r]
    BY <1>3 DEF AnswerRefresh
  <2>2. \A d \in Call : calls'[d].st = calls[d].st /\ calls'[d].retry = calls[d].retry
    BY <1>0, <2>1 DEF CallState
  <2>3. \A d \in Call : LedgerState(calls'[d]) = LedgerState(calls[d])
    BY <2>2 DEF LedgerState
  <2>4. refreshSubscribers' = refreshSubscribers
    BY <1>3 DEF AnswerRefresh, queue
  <2> QED BY <1>0, <2>2, <2>3, <2>4 DEF Recorded, QueueWaits
<1>4. ASSUME NEW c \in Call, Deliver(c) PROVE (Ledger!End(c) \/ UNCHANGED Recorded) /\ QueueWaits'
  <2>0. calls[c].st = "sent"
    BY <1>4 DEF Deliver
  <2>1. ASSUME NEW s \in {"ok", "refused", "rejected"}, calls' = [calls EXCEPT ![c] = Ended(s)],
               UNCHANGED queue
        PROVE  Ledger!End(c) /\ QueueWaits'
    <3>1. Ledger!End(c)
      BY <2>0, <2>1, EndsInLedger
    <3>2. QueueWaits'
      BY <1>0, <2>0, <2>1 DEF QueueWaits, queue
    <3> QED BY <3>1, <3>2
  <2>2. ASSUME NEW s \in {"refresh", "queued"}, calls[c].retry = FALSE,
               calls'[c].st = s, \A d \in Call : d # c => calls'[d] = calls[d],
               refreshSubscribers' \ refreshSubscribers \subseteq IF s = "queued" THEN {c} ELSE {}
        PROVE  UNCHANGED Recorded /\ QueueWaits'
    <3>1. LedgerState(calls'[c]) = "sent" /\ LedgerState(calls[c]) = "sent"
      BY <2>0, <2>2 DEF LedgerState
    <3>2. \A d \in Call : LedgerState(calls'[d]) = LedgerState(calls[d])
      BY <2>2, <3>1
    <3>3. QueueWaits'
      BY <1>0, <2>0, <2>2 DEF QueueWaits
    <3> QED BY <3>2, <3>3 DEF Recorded
  <2>3. CASE /\ ChasesRefresh(c) /\ refreshSubscribers' = refreshSubscribers \cup {c}
             /\ calls' = [calls EXCEPT ![c].st = "queued", ![c].retry = TRUE]
    <3>1. calls'[c].st = "queued" /\ calls[c].retry = FALSE
      BY <1>0, <2>3 DEF ChasesRefresh, CallState
    <3> QED BY <1>0, <2>2, <2>3, <3>1
  <2>4. CASE /\ ChasesRefresh(c) /\ refreshSubscribers' = refreshSubscribers
             /\ calls' = [calls EXCEPT ![c].st = "refresh", ![c].cookie = cookie, ![c].retry = TRUE]
    <3>1. calls'[c].st = "refresh" /\ calls[c].retry = FALSE
      BY <1>0, <2>4 DEF ChasesRefresh, CallState
    <3> QED BY <1>0, <2>2, <2>4, <3>1
  <2> QED BY <1>4, <2>1, <2>3, <2>4 DEF Deliver
<1>5. ASSUME NEW c \in Call, RefreshGranted(c) PROVE UNCHANGED Recorded /\ QueueWaits'
  <2>1. calls[c].st = "refresh" /\ calls' = [calls EXCEPT ![c].st = "profile"]
          /\ refreshSubscribers' = refreshSubscribers
    BY <1>5 DEF RefreshGranted
  <2>2. calls'[c].st = "profile" /\ \A d \in Call : d # c => calls'[d] = calls[d]
    BY <1>0, <2>1 DEF CallState
  <2>3. \A d \in Call : LedgerState(calls'[d]) = LedgerState(calls[d])
    BY <2>1, <2>2 DEF LedgerState
  <2> QED BY <1>0, <2>1, <2>2, <2>3 DEF Recorded, QueueWaits
<1>6. ASSUME NEW c \in Call, RefreshFailed(c) PROVE Ledger!End(c) /\ QueueWaits'
  <2>1. calls[c].st = "refresh" /\ calls' = [calls EXCEPT ![c] = Ended("rejected")]
          /\ refreshSubscribers' = refreshSubscribers
    BY <1>6 DEF RefreshFailed
  <2>2. Ledger!End(c)
    BY <2>1, EndsInLedger
  <2> QED BY <1>0, <2>1, <2>2 DEF QueueWaits
<1>7. ASSUME NEW c \in Call, AfterProfile(c) PROVE Ledger!Resend /\ QueueWaits'
  <2> DEFINE S == {c} \cup refreshSubscribers
  <2>1. /\ calls[c].st = "profile" /\ refreshSubscribers' = {}
        /\ \A d \in Call : calls'[d] = IF d \in S THEN Resent(c) ELSE calls[d]
    BY <1>7 DEF AfterProfile, Served
  <2>2. \A d \in S : LedgerState(calls[d]) = "sent"
    BY <2>1 DEF QueueWaits, LedgerState
  <2>3. Resent(c).st = "sent" /\ Resent(c).retry = TRUE
    BY DEF Resent, SentWith, InState
  <2>4. LedgerState(Resent(c)) = "resent"
    BY <2>3 DEF LedgerState
  <2>5. Recorded' = [d \in Call |-> IF d \in S THEN "resent" ELSE Recorded[d]]
    BY <2>1, <2>4 DEF Recorded
  <2>6. S \in SUBSET {d \in Call : Recorded[d] = "sent"} /\ S # {}
    BY <1>0, <2>2 DEF Recorded
  <2> QED BY <2>1, <2>5, <2>6 DEF Ledger!Resend, Recorded, QueueWaits
<1>8. CASE Load
  <2>1. \A c \in Call : calls'[c] = IF c \in Pending THEN Ended("gone") ELSE calls[c]
    BY <1>8 DEF Load
  <2>2. Ended("gone").st = "gone"
    BY DEF Ended, InState
  <2>3. \A c \in Call : (c \in Pending) <=> LedgerState(calls[c]) \in {"sent", "resent"}
    BY <1>0 DEF Pending, LedgerState, CallState
  <2>4. LedgerState(Ended("gone")) = "gone"
    BY <2>2 DEF LedgerState
  <2>5. Ledger!LeavePage
    BY <2>1, <2>3, <2>4 DEF Ledger!LeavePage, Ledger!Open, Recorded
  <2>6. refreshSubscribers' = {}
    BY <1>8 DEF Load
  <2> QED BY <2>5, <2>6 DEF QueueWaits, Ledger!Next
<1>9. CASE \/ BootRefresh \/ BootProfile
           \/ SubmitSignIn \/ AnswerSignIn \/ SignInAnswered \/ StoreLogin
           \/ ClickSignOut \/ AnswerSignOut \/ SignedOut
           \/ CloseDeletionSent \/ SignInAgain \/ Redirect \/ Navigate
           \/ Expire \/ \E u \in User : Deactivate(u)
  BY <1>1, <1>9 DEF BootRefresh, BootProfile, SubmitSignIn, AnswerSignIn, SignInAnswered, StoreLogin,
                    ClickSignOut, AnswerSignOut, SignedOut, CloseDeletionSent, SignInAgain,
                    Redirect, Navigate, Expire, Deactivate, tab, queue
<1>10. CASE UNCHANGED vars
  BY <1>1, <1>10 DEF vars, tab, queue
<1> QED
  BY <1>2, <1>3, <1>4, <1>5, <1>6, <1>7, <1>8, <1>9, <1>10 DEF Next, Interceptor, Ledger!Next

\* Whatever the interceptor does, its callers see a call that is sent, sent at
\* most once more, and ended once: the steps of CallLedger.  Its promise that
\* nothing pends for ever needs fairness and stays with the run.
THEOREM CallsFollowLedger == Spec => Ledger!Init /\ [][Ledger!Next]_Recorded
<1>1. Init => QueueWaits /\ Ledger!Init
  <2>1. Unsent.st = "unsent"
    BY DEF Unsent, InState
  <2>2. LedgerState(Unsent) = "unsent"
    BY <2>1 DEF LedgerState
  <2> QED BY <2>2 DEF Init, QueueWaits, Ledger!Init
<1>2. TypeOK /\ QueueWaits /\ [Next]_vars => [Ledger!Next]_Recorded /\ QueueWaits'
  BY CallLedgerStep
<1> QED
  BY <1>1, <1>2, TypeCorrect, PTL DEF Spec
===============================================================================
