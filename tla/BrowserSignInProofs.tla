-------------------------- MODULE BrowserSignInProofs --------------------------
(***************************************************************************)
(* BrowserSignIn for any number of attempts, providers, addresses and      *)
(* concurrent requests.  First that it does what Accounts does and nothing *)
(* else, from which the type of the accounts follows; then what a callback *)
(* knows of its attempt, and whose consent stands behind a linked row.     *)
(***************************************************************************)
EXTENDS BrowserSignIn, AccountsProofs

-------------------------------------------------------------------------------
(* Accounts.                                                               *)

(* Whatever a step does to a callback, accounts take a step of theirs.      *)
LEMMA AccountStep == BrowserTypeOK /\ [BrowserNext]_browsers => [Next]_vars
<1> SUFFICES ASSUME BrowserTypeOK, [BrowserNext]_browsers PROVE [Next]_vars
  OBVIOUS
<1>1. CASE UNCHANGED browsers
  BY <1>1 DEF browsers
<1>2. ASSUME NEW s \in State, NEW p \in Provider, StartProviderSignIn(s, p) PROVE UNCHANGED vars
  BY <1>2 DEF StartProviderSignIn
<1>3. ASSUME NEW s \in State, NEW u \in Subject, NEW e \in Email, Agree(s, u, e)
      PROVE  UNCHANGED vars
  BY <1>3 DEF Agree
<1>4. ASSUME NEW s \in State, Abandon(s) \/ Expire(s) PROVE UNCHANGED vars
  BY <1>4 DEF Abandon, Expire
<1>5. ASSUME NEW r \in Request, NEW s \in State, NEW c \in codes, CompleteProviderSignIn(r, s, c)
      PROVE  UNCHANGED vars
  BY <1>5 DEF CompleteProviderSignIn
<1>6. ASSUME NEW r \in Request, Exchange(r) \/ ExchangeFails(r) PROVE UNCHANGED vars
  BY <1>6 DEF Exchange, ExchangeFails
<1>7. CASE DeleteExpiredOAuthStates
  BY <1>7 DEF DeleteExpiredOAuthStates
<1>8. ASSUME NEW P \in SUBSET Provider, Restart(P) PROVE Next
  BY <1>8 DEF Restart, Next
<1>9. ASSUME NEW r \in Request, SignInWithClaims(r) PROVE Next
  <2>1. call[r].code \in Code
    BY <1>9 DEF SignInWithClaims, BrowserTypeOK, Calls
  <2>2. /\ SignIn(r, call[r].code.subject, call[r].code.email)
        /\ call[r].code.subject \in Subject /\ call[r].code.email \in Email
    BY <1>9, <2>1 DEF SignInWithClaims, Code
  <2> QED BY <2>2 DEF Next, Step
<1>10. ASSUME NEW r \in Request, NEW u \in Subject, NEW e \in Email, NEW a \in Audience,
              SignInWithProviderToken(r, u, e, a)
       PROVE  Next
  BY <1>10 DEF SignInWithProviderToken, Next, Step
<1>11. ASSUME NEW e \in Email, NEW u \in Subject, NEW i \in Identity, NEW a \in Audience,
              LinkWithProviderToken(e, u, i, a)
       PROVE  Next
  BY <1>11 DEF LinkWithProviderToken, Next
<1>12. CASE Otherwise
  BY <1>12 DEF Otherwise, Next, Step
<1> QED BY <1>1, <1>2, <1>3, <1>4, <1>5, <1>6, <1>7, <1>8, <1>9, <1>10, <1>11, <1>12
        DEF BrowserNext

(* A request that is about a callback is about nothing else.                *)
Callbacks ==
    \A r \in Request :
        IF call[r].at = "idle" THEN call[r] = NoCall
        ELSE req[r] = Idle /\ call[r].state \in taken /\ call[r].code \in Code

(* The rest of the type invariant, of the table and the providers.          *)
Attempts ==
    /\ configured \subseteq Provider
    /\ provider \in [State -> Provider \cup {None}]
    /\ states \cup expired \cup tabs \cup taken \subseteq {s \in State : provider[s] # None}
    /\ codes \subseteq Code
    /\ agreed \subseteq State \X Subject
    /\ consented \subseteq Subject
    /\ call \in [Request -> Calls]

(* The type invariant is what Accounts has of it, and these two.            *)
LEMMA Parts == BrowserTypeOK <=> TypeOK /\ Attempts /\ Callbacks
BY DEF BrowserTypeOK, Attempts, Callbacks

(* A fresh database and an idle process satisfy the type invariant.         *)
LEMMA InitBrowser == BrowserInit => BrowserTypeOK
<1> SUFFICES ASSUME BrowserInit PROVE BrowserTypeOK
  OBVIOUS
<1>1. TypeOK
  BY InitInv DEF BrowserInit, IInv
<1>2. Attempts
  BY NoneIsNoAttempt DEF BrowserInit, Attempts, Calls, NoCall
<1>3. Callbacks
  BY DEF BrowserInit, Callbacks, NoCall
<1> QED BY <1>1, <1>2, <1>3, Parts

(* Rows, tabs, codes and consents go on referring to attempts that were     *)
(* started, whatever a browser, a provider, the sweeper or a restart does.  *)
LEMMA AttemptsStep == BrowserTypeOK /\ [BrowserNext]_browsers => Attempts'
<1> SUFFICES ASSUME BrowserTypeOK, [BrowserNext]_browsers PROVE Attempts'
  OBVIOUS
<1> USE NoneIsNoAttempt, Parts DEF Attempts
<1>1. CASE UNCHANGED browsers
  BY <1>1 DEF browsers, flow
<1>2. ASSUME NEW s \in State, NEW p \in Provider, StartProviderSignIn(s, p) PROVE Attempts'
  BY <1>2 DEF StartProviderSignIn
<1>3. ASSUME NEW s \in State, NEW u \in Subject, NEW e \in Email, Agree(s, u, e)
      PROVE  Attempts'
  BY <1>3 DEF Agree, Code
<1>4. ASSUME NEW s \in State, Abandon(s) \/ Expire(s) PROVE Attempts'
  BY <1>4 DEF Abandon, Expire
<1>5. ASSUME NEW r \in Request, NEW s \in State, NEW c \in codes, CompleteProviderSignIn(r, s, c)
      PROVE  Attempts'
  <2>1. c \in Code
    OBVIOUS
  <2>2. call' \in [Request -> Calls]
    BY <1>5, <2>1 DEF CompleteProviderSignIn, Calls
  <2> QED BY <1>5, <2>2 DEF CompleteProviderSignIn, ConsumeOAuthState
<1>6. ASSUME NEW r \in Request, Exchange(r) \/ ExchangeFails(r) PROVE Attempts'
  <2>1. NoCall \in Calls
    BY DEF NoCall, Calls
  <2>2. CASE Exchange(r)
    <3>1. call[r].code \in Code /\ call[r].state \in State \cup {None}
      BY <2>2 DEF Exchange, Calls
    <3>2. [at |-> "claims", state |-> call[r].state, code |-> call[r].code] \in Calls
      BY <3>1 DEF Calls
    <3>3. call' \in [Request -> Calls]
      BY <2>1, <2>2, <3>2 DEF Exchange
    <3> QED BY <2>2, <3>3 DEF Exchange
  <2>3. CASE ExchangeFails(r)
    BY <2>1, <2>3 DEF ExchangeFails
  <2> QED BY <1>6, <2>2, <2>3
<1>7. CASE DeleteExpiredOAuthStates
  BY <1>7 DEF DeleteExpiredOAuthStates, AgedOut
<1>8. ASSUME NEW P \in SUBSET Provider, Restart(P) PROVE Attempts'
  BY <1>8 DEF Restart, Surviving, NoCall, Calls
<1>9. ASSUME NEW r \in Request, SignInWithClaims(r) PROVE Attempts'
  BY <1>9 DEF SignInWithClaims, NoCall, Calls
<1>10. ASSUME NEW r \in Request, NEW u \in Subject, NEW e \in Email, NEW a \in Audience,
              SignInWithProviderToken(r, u, e, a)
       PROVE  Attempts'
  BY <1>10 DEF SignInWithProviderToken, VerifyIDToken
<1>11. ASSUME NEW e \in Email, NEW u \in Subject, NEW i \in Identity, NEW a \in Audience,
              LinkWithProviderToken(e, u, i, a)
       PROVE  Attempts'
  BY <1>11 DEF LinkWithProviderToken, VerifyIDToken
<1>12. CASE Otherwise
  BY <1>12 DEF Otherwise, flow
<1> QED BY <1>1, <1>2, <1>3, <1>4, <1>5, <1>6, <1>7, <1>8, <1>9, <1>10, <1>11, <1>12
        DEF BrowserNext

(* A request that is idle holds nothing.                                    *)
Idles == \A r \in Request : req[r].at = "idle" => req[r] = Idle

(* What any step of a request does to the requests.                         *)
Turns(r) == /\ req' = [req EXCEPT ![r] = req'[r]]
            /\ req'[r].at # "idle" \/ req'[r] = Idle

(* A step of a request changes that request alone, and one that ends holds  *)
(* nothing.                                                                 *)
LEMMA StepTurns == ASSUME NEW r \in Request, Step(r), TypeOK PROVE Turns(r)
<1> USE DEF TypeOK
<1>1. ASSUME NEW e \in Email, LoginUser(r, e) PROVE Turns(r)
  BY <1>1 DEF LoginUser, Idle, Turns
<1>2. CASE StartSession(r) \/ DeleteIdentity(r) \/ GiveUp(r)
  BY <1>2 DEF StartSession, DeleteIdentity, GiveUp, Turns
<1>3. ASSUME NEW s \in Subject, NEW e \in Email, SignIn(r, s, e) PROVE Turns(r)
  <2>1. CASE req' = [req EXCEPT ![r] = [Idle EXCEPT !.at = "by_email",
                                                    !.subject = s, !.email = e]]
    BY <2>1 DEF Turns, Idle
  <2>2. ASSUME NEW i, req' = [req EXCEPT ![r] = [Idle EXCEPT !.at = "session",
                                                             !.account = owner[i]]]
        PROVE  Turns(r)
    BY <2>2 DEF Turns, Idle
  <2> QED BY <1>3, <2>1, <2>2 DEF SignIn
<1>4. CASE ByEmail(r)
  <2>1. req[r] \in Requests
    BY DEF TypeOK
  <2> QED BY <1>4, <2>1 DEF ByEmail, Turns, Requests
<1>5. ASSUME NEW i \in Identity, CreateUserWithIdentity(r, i) \/ AutoLink(r, i) PROVE Turns(r)
  BY <1>5 DEF CreateUserWithIdentity, AutoLink, Idle, Turns
<1>6. ASSUME NEW e \in Email, NEW i \in Identity, UnlinkIdentity(r, e, i) PROVE Turns(r)
  BY <1>6 DEF UnlinkIdentity, Idle, Turns
<1> QED BY <1>1, <1>2, <1>3, <1>4, <1>5, <1>6 DEF Step

(* A request that Accounts has finished with holds nothing of its work.     *)
LEMMA IdlesStep == TypeOK /\ Idles /\ [Next]_vars => Idles'
<1> SUFFICES ASSUME TypeOK, Idles, [Next]_vars PROVE Idles'
  OBVIOUS
<1>1. ASSUME UNCHANGED req PROVE Idles'
  BY <1>1 DEF Idles
<1>2. ASSUME NEW r \in Request, Step(r) PROVE Idles'
  <2>1. Turns(r)
    BY <1>2, StepTurns
  <2> QED BY <2>1 DEF Turns, Idles, TypeOK
<1>3. ASSUME NEW e \in Email, Register(e) \/ VerifyEmail(e) PROVE Idles'
  BY <1>1, <1>3 DEF Register, VerifyEmail
<1>4. ASSUME NEW e \in Email, NEW s \in Subject, NEW i \in Identity, LinkProviderToken(e, s, i)
      PROVE  Idles'
  BY <1>1, <1>4 DEF LinkProviderToken
<1>5. CASE Crash
  BY <1>5 DEF Crash, Idles
<1>6. CASE UNCHANGED vars
  BY <1>1, <1>6 DEF vars
<1> QED BY <1>2, <1>3, <1>4, <1>5, <1>6 DEF Next

(* A callback under way keeps its request, its attempt and its code until   *)
(* it is over.                                                              *)
LEMMA CallbacksStep == BrowserTypeOK /\ Idles /\ [BrowserNext]_browsers => Callbacks'
<1> SUFFICES ASSUME BrowserTypeOK, Idles, [BrowserNext]_browsers PROVE Callbacks'
  OBVIOUS
<1> USE Parts
<1>1. ASSUME UNCHANGED <<req, call>>,
             \A r \in Request : call[r].at # "idle" => call[r].state \in taken'
      PROVE  Callbacks'
  BY <1>1 DEF Callbacks
<1>2. ASSUME UNCHANGED <<req, call, taken>> PROVE Callbacks'
  BY <1>2, <1>1 DEF Callbacks
<1>3. CASE UNCHANGED browsers
  BY <1>2, <1>3 DEF browsers, flow, vars
<1>4. ASSUME NEW s \in State, NEW p \in Provider, StartProviderSignIn(s, p) PROVE Callbacks'
  <2>1. \A r \in Request : call[r].state # s
    BY <1>4 DEF StartProviderSignIn, Fresh
  <2> QED BY <1>4, <1>1, <2>1 DEF StartProviderSignIn, Callbacks, vars
<1>5. ASSUME NEW s \in State, NEW u \in Subject, NEW e \in Email, Agree(s, u, e)
      PROVE  Callbacks'
  BY <1>2, <1>5 DEF Agree, vars
<1>6. ASSUME NEW s \in State, Abandon(s) \/ Expire(s) PROVE Callbacks'
  BY <1>2, <1>6 DEF Abandon, Expire, vars
<1>7. ASSUME NEW r \in Request, NEW s \in State, NEW c \in codes, CompleteProviderSignIn(r, s, c)
      PROVE  Callbacks'
  <2>1. req[r] = Idle /\ req' = req
    BY <1>7 DEF CompleteProviderSignIn, Free, Idles, vars
  <2>2. c \in Code
    BY DEF Attempts
  <2> QED BY <1>7, <2>1, <2>2 DEF CompleteProviderSignIn, Callbacks, Attempts
<1>8. ASSUME NEW r \in Request, Exchange(r) \/ ExchangeFails(r) PROVE Callbacks'
  BY <1>8 DEF Exchange, ExchangeFails, Callbacks, Attempts, NoCall, vars
<1>9. CASE DeleteExpiredOAuthStates
  BY <1>2, <1>9 DEF DeleteExpiredOAuthStates, vars
<1>10. ASSUME NEW P \in SUBSET Provider, Restart(P) PROVE Callbacks'
  BY <1>10 DEF Restart, Callbacks, NoCall
<1>11. ASSUME NEW r \in Request, SignInWithClaims(r) PROVE Callbacks'
  <2>1. call' = [call EXCEPT ![r] = NoCall] /\ UNCHANGED taken
    BY <1>11 DEF SignInWithClaims
  <2>2. Turns(r)
    <3>1. call[r].code \in Code
      BY <1>11 DEF SignInWithClaims, Attempts, Calls, Callbacks
    <3>2. Step(r)
      BY <1>11, <3>1 DEF SignInWithClaims, Step, Code
    <3> QED BY <3>2, StepTurns
  <2> QED BY <2>1, <2>2 DEF Callbacks, Attempts, Turns, NoCall, TypeOK
<1>12. ASSUME NEW r \in Request, Turns(r), call[r].at = "idle", UNCHANGED <<call, taken>>
       PROVE  Callbacks'
  BY <1>12 DEF Callbacks, Turns, TypeOK
<1>13. ASSUME NEW r \in Request, NEW u \in Subject, NEW e \in Email, NEW a \in Audience,
              SignInWithProviderToken(r, u, e, a)
       PROVE  Callbacks'
  <2>1. Step(r)
    BY <1>13 DEF SignInWithProviderToken, Step
  <2> QED BY <1>12, <1>13, <2>1, StepTurns DEF SignInWithProviderToken, Free
<1>14. ASSUME NEW e \in Email, NEW u \in Subject, NEW i \in Identity, NEW a \in Audience,
              LinkWithProviderToken(e, u, i, a)
       PROVE  Callbacks'
  BY <1>2, <1>14 DEF LinkWithProviderToken, LinkProviderToken
<1>15. CASE Otherwise
  <2>1. UNCHANGED <<call, taken>>
    BY <1>15 DEF Otherwise, flow
  <2>2. ASSUME NEW e \in Email, Register(e) \/ VerifyEmail(e) PROVE Callbacks'
    BY <1>2, <2>1, <2>2 DEF Register, VerifyEmail
  <2>3. ASSUME NEW r \in Request, Step(r), req[r].at # "idle" \/ Free(r) PROVE Callbacks'
    <3>1. call[r].at = "idle"
      BY <2>3 DEF Free, Callbacks, Idle
    <3> QED BY <1>12, <2>1, <2>3, <3>1, StepTurns
  <2>4. ASSUME NEW r \in Request,
               \/ StartSession(r) \/ ByEmail(r) \/ DeleteIdentity(r) \/ GiveUp(r)
               \/ \E i \in Identity : CreateUserWithIdentity(r, i) \/ AutoLink(r, i)
        PROVE  Callbacks'
    <3>1. Step(r) /\ req[r].at # "idle"
      BY <2>4 DEF Step, StartSession, ByEmail, DeleteIdentity, GiveUp, CreateUserWithIdentity,
                  AutoLink
    <3> QED BY <2>3, <3>1
  <2>5. ASSUME NEW r \in Request, Free(r),
               \/ \E e \in Email : LoginUser(r, e)
               \/ \E e \in Email, i \in Identity : UnlinkIdentity(r, e, i)
        PROVE  Callbacks'
    BY <2>3, <2>5 DEF Step
  <2> QED BY <1>15, <2>2, <2>4, <2>5 DEF Otherwise
<1> QED BY <1>3, <1>4, <1>5, <1>6, <1>7, <1>8, <1>9, <1>10, <1>11, <1>13, <1>14, <1>15
        DEF BrowserNext

-------------------------------------------------------------------------------
(* Attempts.                                                               *)

(* What the codes and the callbacks that are under way stand for.           *)
Agreements ==
    /\ \A c \in codes : <<c.nonce, c.subject>> \in agreed
    /\ FinishedByWhoAgreed

(* An attempt leaves the table by being taken, or after its expiry.         *)
LEMMA AttemptLastsStep ==
    BrowserTypeOK /\ AttemptLasts /\ [BrowserNext]_browsers => AttemptLasts'
<1> SUFFICES ASSUME BrowserTypeOK, AttemptLasts, [BrowserNext]_browsers PROVE AttemptLasts'
  OBVIOUS
<1> USE DEF AttemptLasts
<1>1. CASE UNCHANGED flow
  BY <1>1 DEF flow
<1>2. ASSUME NEW s \in State, NEW p \in Provider, StartProviderSignIn(s, p) PROVE AttemptLasts'
  BY <1>2 DEF StartProviderSignIn, Fresh
<1>3. ASSUME NEW s \in State, NEW u \in Subject, NEW e \in Email, Agree(s, u, e)
      PROVE  AttemptLasts'
  BY <1>3 DEF Agree
<1>4. ASSUME NEW s \in State, Abandon(s) \/ Expire(s) PROVE AttemptLasts'
  BY <1>4 DEF Abandon, Expire
<1>5. ASSUME NEW r \in Request, NEW s \in State, NEW c \in codes, CompleteProviderSignIn(r, s, c)
      PROVE  AttemptLasts'
  BY <1>5 DEF CompleteProviderSignIn, ConsumeOAuthState
<1>6. ASSUME NEW r \in Request, Exchange(r) \/ ExchangeFails(r) \/ SignInWithClaims(r)
      PROVE  AttemptLasts'
  BY <1>6 DEF Exchange, ExchangeFails, SignInWithClaims
<1>7. CASE DeleteExpiredOAuthStates
  BY <1>7 DEF DeleteExpiredOAuthStates, AgedOut
<1>8. ASSUME NEW P \in SUBSET Provider, Restart(P) PROVE AttemptLasts'
  BY <1>8 DEF Restart, Surviving
<1>9. ASSUME NEW r \in Request, NEW u \in Subject, NEW e \in Email, NEW a \in Audience,
             SignInWithProviderToken(r, u, e, a)
      PROVE  AttemptLasts'
  BY <1>9 DEF SignInWithProviderToken
<1>10. ASSUME NEW e \in Email, NEW u \in Subject, NEW i \in Identity, NEW a \in Audience,
              LinkWithProviderToken(e, u, i, a)
       PROVE  AttemptLasts'
  BY <1>10 DEF LinkWithProviderToken
<1> QED BY <1>1, <1>2, <1>3, <1>4, <1>5, <1>6, <1>7, <1>8, <1>9, <1>10
        DEF BrowserNext, Otherwise, browsers

(* The DELETE that a callback begins with keeps every other one out.        *)
LEMMA OneCallbackStep ==
    BrowserTypeOK /\ OneCallbackPerStart /\ [BrowserNext]_browsers => OneCallbackPerStart'
<1> SUFFICES ASSUME BrowserTypeOK, OneCallbackPerStart, [BrowserNext]_browsers
             PROVE  OneCallbackPerStart'
  OBVIOUS
<1> USE Parts DEF OneCallbackPerStart, Attempts
<1>1. ASSUME UNCHANGED <<call, provider, configured>>, states' \subseteq states
      PROVE  OneCallbackPerStart'
  BY <1>1
<1>2. ASSUME NEW s \in State, NEW p \in Provider, StartProviderSignIn(s, p)
      PROVE  OneCallbackPerStart'
  BY <1>2 DEF StartProviderSignIn, Fresh, Callbacks
<1>3. ASSUME NEW s \in State, NEW u \in Subject, NEW e \in Email, Agree(s, u, e)
      PROVE  OneCallbackPerStart'
  BY <1>1, <1>3 DEF Agree
<1>4. ASSUME NEW s \in State, Abandon(s) \/ Expire(s) PROVE OneCallbackPerStart'
  BY <1>1, <1>4 DEF Abandon, Expire
<1>5. ASSUME NEW r \in Request, NEW s \in State, NEW c \in codes, CompleteProviderSignIn(r, s, c)
      PROVE  OneCallbackPerStart'
  <2>1. states' = states \ {s} /\ s \in states /\ UNCHANGED <<provider, configured>>
    BY <1>5 DEF CompleteProviderSignIn, ConsumeOAuthState
  <2>2. CASE call' = call
    BY <1>1, <2>1, <2>2
  <2>3. CASE /\ IsConfigured(provider[s])
             /\ call' = [call EXCEPT ![r] = [at |-> "exchange", state |-> s, code |-> c]]
    <3>1. \A q \in Request \ {r} :
             /\ call'[q] = call[q]
             /\ call[q].state # s
      <4>1. ASSUME NEW q \in Request, call[q].state = s PROVE call[q].at # "idle"
        BY <4>1, NoneIsNoAttempt DEF Callbacks, NoCall
      <4> QED BY <2>1, <2>3, <4>1
    <3>2. call'[r].state = s /\ provider[s] \in configured
      BY <2>3 DEF IsConfigured
    <3> QED BY <2>1, <3>1, <3>2
  <2> QED BY <1>5, <2>2, <2>3 DEF CompleteProviderSignIn
<1>6. ASSUME NEW r \in Request, call[r].at # "idle", UNCHANGED <<provider, configured, states>>,
             call' = [call EXCEPT ![r] = call'[r]],
             call'[r] = NoCall \/ call'[r].state = call[r].state
      PROVE  OneCallbackPerStart'
  <2>1. \A q \in Request : call[q].at # "idle" => call[q].state # None
    BY NoneIsNoAttempt DEF Callbacks
  <2> QED BY <1>6, <2>1 DEF NoCall
<1>7. ASSUME NEW r \in Request, Exchange(r) \/ ExchangeFails(r) \/ SignInWithClaims(r)
      PROVE  OneCallbackPerStart'
  <2>1. /\ call[r].at # "idle" /\ UNCHANGED <<provider, configured, states>>
        /\ call' = [call EXCEPT ![r] = call'[r]]
        /\ call'[r] = NoCall \/ call'[r].state = call[r].state
    BY <1>7 DEF Exchange, ExchangeFails, SignInWithClaims
  <2> QED BY <1>6, <2>1
<1>8. CASE DeleteExpiredOAuthStates
  BY <1>1, <1>8 DEF DeleteExpiredOAuthStates, AgedOut
<1>9. ASSUME NEW P \in SUBSET Provider, Restart(P) PROVE OneCallbackPerStart'
  BY <1>9 DEF Restart, NoCall
<1>10. ASSUME NEW r \in Request, NEW u \in Subject, NEW e \in Email, NEW a \in Audience,
              SignInWithProviderToken(r, u, e, a)
       PROVE  OneCallbackPerStart'
  BY <1>1, <1>10 DEF SignInWithProviderToken
<1>11. ASSUME NEW e \in Email, NEW u \in Subject, NEW i \in Identity, NEW a \in Audience,
              LinkWithProviderToken(e, u, i, a)
       PROVE  OneCallbackPerStart'
  BY <1>1, <1>11 DEF LinkWithProviderToken
<1>12. CASE UNCHANGED flow
  BY <1>1, <1>12 DEF flow
<1> QED BY <1>2, <1>3, <1>4, <1>5, <1>7, <1>8, <1>9, <1>10, <1>11, <1>12
        DEF BrowserNext, Otherwise, browsers

(* A code stands for an agreement to the attempt its nonce names, and so    *)
(* does a callback that has compared the nonce.                             *)
LEMMA AgreementsStep ==
    BrowserTypeOK /\ Agreements /\ [BrowserNext]_browsers => Agreements'
<1> SUFFICES ASSUME BrowserTypeOK, Agreements, [BrowserNext]_browsers PROVE Agreements'
  OBVIOUS
<1> USE Parts DEF Agreements, FinishedByWhoAgreed, Attempts
<1>1. ASSUME UNCHANGED call, agreed \subseteq agreed', codes' \subseteq codes PROVE Agreements'
  BY <1>1
<1>2. ASSUME NEW s \in State, NEW p \in Provider, StartProviderSignIn(s, p) PROVE Agreements'
  <2>1. \A c \in codes : c.nonce # s
    BY <1>2 DEF StartProviderSignIn, Fresh
  <2>2. \A r \in Request : call[r].state # s
    BY <1>2 DEF StartProviderSignIn, Fresh
  <2>3. \A t, u : t # s /\ <<t, u>> \in agreed => <<t, u>> \in agreed'
    BY <1>2 DEF StartProviderSignIn
  <2>4. UNCHANGED <<call, codes>>
    BY <1>2 DEF StartProviderSignIn
  <2> QED BY <2>1, <2>2, <2>3, <2>4
<1>3. ASSUME NEW s \in State, NEW u \in Subject, NEW e \in Email, Agree(s, u, e)
      PROVE  Agreements'
  BY <1>3 DEF Agree
<1>4. ASSUME NEW s \in State, Abandon(s) \/ Expire(s) PROVE Agreements'
  BY <1>1, <1>4 DEF Abandon, Expire
<1>5. ASSUME NEW r \in Request, NEW s \in State, NEW c \in codes, CompleteProviderSignIn(r, s, c)
      PROVE  Agreements'
  BY <1>5 DEF CompleteProviderSignIn
<1>6. ASSUME NEW r \in Request, Exchange(r) PROVE Agreements'
  <2>1. call[r].code \in codes /\ codes' \subseteq codes /\ UNCHANGED agreed
    BY <1>6 DEF Exchange
  <2>2. CASE call' = [call EXCEPT ![r] = NoCall]
    BY <2>1, <2>2 DEF NoCall
  <2>3. CASE /\ call' = [call EXCEPT ![r] = [at |-> "claims", state |-> call[r].state,
                                             code |-> call[r].code]]
             /\ call[r].code.nonce = call[r].state
    BY <2>1, <2>3
  <2> QED BY <1>6, <2>2, <2>3 DEF Exchange, NonceOf
<1>7. ASSUME NEW r \in Request, ExchangeFails(r) \/ SignInWithClaims(r) PROVE Agreements'
  BY <1>7 DEF ExchangeFails, SignInWithClaims, NoCall
<1>8. CASE DeleteExpiredOAuthStates
  BY <1>1, <1>8 DEF DeleteExpiredOAuthStates
<1>9. ASSUME NEW P \in SUBSET Provider, Restart(P) PROVE Agreements'
  BY <1>9 DEF Restart, NoCall
<1>10. ASSUME NEW r \in Request, NEW u \in Subject, NEW e \in Email, NEW a \in Audience,
              SignInWithProviderToken(r, u, e, a)
       PROVE  Agreements'
  BY <1>1, <1>10 DEF SignInWithProviderToken
<1>11. ASSUME NEW e \in Email, NEW u \in Subject, NEW i \in Identity, NEW a \in Audience,
              LinkWithProviderToken(e, u, i, a)
       PROVE  Agreements'
  BY <1>1, <1>11 DEF LinkWithProviderToken
<1>12. CASE UNCHANGED flow
  BY <1>1, <1>12 DEF flow
<1> QED BY <1>2, <1>3, <1>4, <1>5, <1>6, <1>7, <1>8, <1>9, <1>10, <1>11, <1>12
        DEF BrowserNext, Otherwise, browsers

-------------------------------------------------------------------------------
(* Consent.                                                                *)

(* Codes, callbacks and sign-ins under way are of accounts whose owners     *)
(* wanted in, so the rows they lead to are.                                 *)
Wanted ==
    /\ \A c \in codes : c.subject \in consented
    /\ \A r \in Request : call[r].at # "idle" => call[r].code.subject \in consented

Asked == \A r \in Request :
            req[r].at \in {"by_email", "create", "link"} => req[r].subject \in consented

(* Owners of the accounts behind codes and callbacks wanted in, for good.   *)
LEMMA WantedStep ==
    BrowserTypeOK /\ Wanted /\ [BrowserNext]_browsers => Wanted' /\ consented \subseteq consented'
<1> SUFFICES ASSUME BrowserTypeOK, Wanted, [BrowserNext]_browsers
             PROVE  Wanted' /\ consented \subseteq consented'
  OBVIOUS
<1> USE Parts DEF Wanted, Attempts
<1>1. ASSUME UNCHANGED call, consented \subseteq consented', codes' \subseteq codes PROVE Wanted'
  BY <1>1
<1>2. ASSUME NEW s \in State, NEW p \in Provider, StartProviderSignIn(s, p)
      PROVE  Wanted' /\ consented \subseteq consented'
  BY <1>1, <1>2 DEF StartProviderSignIn
<1>3. ASSUME NEW s \in State, NEW u \in Subject, NEW e \in Email, Agree(s, u, e)
      PROVE  Wanted' /\ consented \subseteq consented'
  BY <1>3 DEF Agree
<1>4. ASSUME NEW s \in State, Abandon(s) \/ Expire(s)
      PROVE  Wanted' /\ consented \subseteq consented'
  BY <1>1, <1>4 DEF Abandon, Expire
<1>5. ASSUME NEW r \in Request, NEW s \in State, NEW c \in codes, CompleteProviderSignIn(r, s, c)
      PROVE  Wanted' /\ consented \subseteq consented'
  BY <1>5 DEF CompleteProviderSignIn
<1>6. ASSUME NEW r \in Request, Exchange(r) \/ ExchangeFails(r) \/ SignInWithClaims(r)
      PROVE  Wanted' /\ consented \subseteq consented'
  <2>1. /\ call[r].at # "idle" /\ UNCHANGED consented /\ codes' \subseteq codes
        /\ call' = [call EXCEPT ![r] = call'[r]]
        /\ call'[r].at = "idle" \/ call'[r].code = call[r].code
    BY <1>6 DEF Exchange, ExchangeFails, SignInWithClaims, NoCall
  <2> QED BY <2>1
<1>7. CASE DeleteExpiredOAuthStates
  BY <1>1, <1>7 DEF DeleteExpiredOAuthStates
<1>8. ASSUME NEW P \in SUBSET Provider, Restart(P) PROVE Wanted' /\ consented \subseteq consented'
  BY <1>8 DEF Restart, NoCall
<1>9. ASSUME NEW r \in Request, NEW u \in Subject, NEW e \in Email, NEW a \in Audience,
             SignInWithProviderToken(r, u, e, a)
      PROVE  Wanted' /\ consented \subseteq consented'
  BY <1>1, <1>9 DEF SignInWithProviderToken, VerifyIDToken
<1>10. ASSUME NEW e \in Email, NEW u \in Subject, NEW i \in Identity, NEW a \in Audience,
              LinkWithProviderToken(e, u, i, a)
       PROVE  Wanted' /\ consented \subseteq consented'
  BY <1>1, <1>10 DEF LinkWithProviderToken, VerifyIDToken
<1>11. CASE UNCHANGED flow
  BY <1>1, <1>11 DEF flow
<1> QED BY <1>2, <1>3, <1>4, <1>5, <1>6, <1>7, <1>8, <1>9, <1>10, <1>11
        DEF BrowserNext, Otherwise, browsers

(* The same of the requests that are about to write, and of the rows.       *)
Consents == Asked /\ ConsentFirst

(* A row for a provider account is written by a request that carries the    *)
(* consent of its owner, and rows are never given to another.               *)
LEMMA ConsentsStep ==
    BrowserTypeOK /\ Wanted /\ Consents /\ [BrowserNext]_browsers => Consents'
<1> SUFFICES ASSUME BrowserTypeOK, Wanted, Consents, [BrowserNext]_browsers PROVE Consents'
  OBVIOUS
<1>0. consented \subseteq consented' /\ TypeOK
  BY WantedStep, Parts
<1> USE DEF Consents, Asked, ConsentFirst, TypeOK
<1>1. ASSUME UNCHANGED <<subject, req>>, linked' \subseteq linked PROVE Consents'
  BY <1>0, <1>1
<1>2. ASSUME NEW r \in Request, NEW v, req' = [req EXCEPT ![r] = v],
             UNCHANGED subject, linked' \subseteq linked,
             v.at \in {"by_email", "create", "link"} => v.subject \in consented'
      PROVE  Consents'
  <2>1. \A q \in Request : req'[q] = IF q = r THEN v ELSE req[q]
    BY <1>0, <1>2
  <2> QED BY <1>0, <1>2, <2>1
<1>a. ASSUME NEW r \in Request, NEW v, req' = [req EXCEPT ![r] = v],
             UNCHANGED subject, linked' \subseteq linked,
             v.at \in {"idle", "session", "delete"}
      PROVE  Consents'
  BY <1>2, <1>a
<1>3. ASSUME NEW r \in Request, NEW u \in consented', NEW e, SignIn(r, u, e) PROVE Consents'
  <2>0. UNCHANGED <<subject, linked>>
    BY <1>3 DEF SignIn, table
  <2>1. CASE req' = [req EXCEPT ![r] = [Idle EXCEPT !.at = "by_email",
                                                    !.subject = u, !.email = e]]
    <3> DEFINE v == [Idle EXCEPT !.at = "by_email", !.subject = u, !.email = e]
    <3>1. v.subject = u
      BY DEF Idle
    <3>2. req' = [req EXCEPT ![r] = v]
      BY <2>1
    <3> HIDE DEF v
    <3> QED BY ONLY <1>2, <2>0, <3>1, <3>2, u \in consented', r \in Request
  <2>2. ASSUME NEW i \in RowsOf(u),
               req' = [req EXCEPT ![r] = [Idle EXCEPT !.at = "session", !.account = owner[i]]]
        PROVE  Consents'
    <3> DEFINE v == [Idle EXCEPT !.at = "session", !.account = owner[i]]
    <3>1. v.at = "session"
      BY DEF Idle
    <3>2. req' = [req EXCEPT ![r] = v]
      BY <2>2
    <3> HIDE DEF v
    <3> QED BY <1>a, <2>0, <3>1, <3>2
  <2> QED BY <1>3, <2>1, <2>2 DEF SignIn
<1>4. ASSUME NEW i \in Identity, NEW u \in consented', NEW e, Insert(i, u, e),
             \A r \in Request : req'[r].at \in {"by_email", "create", "link"} => req'[r] = req[r]
      PROVE  Consents'
  BY <1>0, <1>4 DEF Insert
<1>5. ASSUME NEW r \in Request, NEW i \in Identity, CreateUserWithIdentity(r, i) \/ AutoLink(r, i)
      PROVE  Consents'
  <2>1. req[r].subject \in consented' /\ Insert(i, req[r].subject, req[r].email)
    BY <1>0, <1>5 DEF CreateUserWithIdentity, AutoLink
  <2>2. \A q \in Request : req'[q].at \in {"by_email", "create", "link"} => req'[q] = req[q]
    <3> DEFINE v == [Idle EXCEPT !.at = "session", !.account = req[r].email]
    <3>1. v.at = "session"
      BY DEF Idle
    <3>2. req' = [req EXCEPT ![r] = v]
      BY <1>5 DEF CreateUserWithIdentity, AutoLink
    <3> HIDE DEF v
    <3> QED BY <1>0, <3>1, <3>2
  <2> QED BY <1>4, <2>1, <2>2
<1>6. ASSUME NEW r \in Request, StartSession(r) \/ DeleteIdentity(r) \/ GiveUp(r) PROVE Consents'
  <2>1. req' = [req EXCEPT ![r] = Idle] /\ UNCHANGED subject /\ linked' \subseteq linked
    BY <1>6 DEF StartSession, DeleteIdentity, GiveUp, table
  <2>2. Idle.at = "idle"
    BY DEF Idle
  <2> QED BY <1>a, <2>1, <2>2
<1>7. ASSUME NEW r \in Request, ByEmail(r) PROVE Consents'
  <2> DEFINE v == IF req[r].email \notin users THEN [req[r] EXCEPT !.at = "create"]
                  ELSE IF MayAutoLink(req[r].email) THEN [req[r] EXCEPT !.at = "link"]
                  ELSE Idle
  <2>1. req' = [req EXCEPT ![r] = v] /\ UNCHANGED <<subject, linked>>
    BY <1>7 DEF ByEmail, table
  <2>2. req[r].subject \in consented'
    BY <1>0, <1>7 DEF ByEmail
  <2>3. v.at \in {"by_email", "create", "link"} => v.subject = req[r].subject
    <3>1. Idle.at = "idle"
      BY DEF Idle
    <3>2. [req[r] EXCEPT !.at = "create"].subject = req[r].subject
      BY <1>0 DEF Requests
    <3>3. [req[r] EXCEPT !.at = "link"].subject = req[r].subject
      BY <1>0 DEF Requests
    <3> QED BY <3>1, <3>2, <3>3
  <2> HIDE DEF v
  <2> QED BY <1>2, <2>1, <2>2, <2>3
<1>8. ASSUME NEW r \in Request, NEW e \in Email,
             LoginUser(r, e) \/ \E i \in Identity : UnlinkIdentity(r, e, i)
      PROVE  Consents'
  <2>1. CASE LoginUser(r, e)
    <3> DEFINE v == [Idle EXCEPT !.at = "session", !.account = e]
    <3>1. v.at = "session"
      BY DEF Idle
    <3>2. req' = [req EXCEPT ![r] = v] /\ UNCHANGED <<subject, linked>>
      BY <2>1 DEF LoginUser, table
    <3> HIDE DEF v
    <3> QED BY <1>a, <3>1, <3>2
  <2>2. ASSUME NEW i \in Identity, UnlinkIdentity(r, e, i) PROVE Consents'
    <3> DEFINE v == [Idle EXCEPT !.at = "delete", !.account = e, !.identity = i]
    <3>1. v.at = "delete"
      BY DEF Idle
    <3>2. req' = [req EXCEPT ![r] = v] /\ UNCHANGED <<subject, linked>>
      BY <2>2 DEF UnlinkIdentity, table
    <3> HIDE DEF v
    <3> QED BY <1>a, <3>1, <3>2
  <2> QED BY <1>8, <2>1, <2>2
<1>9. CASE Otherwise
  <2>1. ASSUME NEW e \in Email, Register(e) \/ VerifyEmail(e) PROVE Consents'
    BY <1>1, <2>1 DEF Register, VerifyEmail
  <2> QED BY <1>5, <1>6, <1>7, <1>8, <1>9, <2>1 DEF Otherwise
<1>10. ASSUME NEW r \in Request, SignInWithClaims(r) PROVE Consents'
  BY <1>0, <1>3, <1>10 DEF SignInWithClaims, Wanted
<1>11. ASSUME NEW r \in Request, NEW u \in Subject, NEW e \in Email, NEW a \in Audience,
              SignInWithProviderToken(r, u, e, a)
       PROVE  Consents'
  <2>1. u \in consented'
    BY <1>11 DEF SignInWithProviderToken, VerifyIDToken, AudienceAllowed
  <2> QED BY <1>3, <1>11, <2>1 DEF SignInWithProviderToken
<1>12. ASSUME NEW e \in Email, NEW u \in Subject, NEW i \in Identity, NEW a \in Audience,
              LinkWithProviderToken(e, u, i, a)
       PROVE  Consents'
  <2>1. u \in consented'
    BY <1>12 DEF LinkWithProviderToken, VerifyIDToken, AudienceAllowed
  <2> QED BY <1>4, <1>12, <2>1 DEF LinkWithProviderToken, LinkProviderToken
<1>13. ASSUME NEW P \in SUBSET Provider, Restart(P) PROVE Consents'
  BY <1>0, <1>13 DEF Restart, Crash, Idle, table
<1>14. CASE UNCHANGED vars
  BY <1>1, <1>14 DEF vars, table
<1>15. ASSUME NEW s \in State,
              \/ \E p \in Provider : StartProviderSignIn(s, p)
              \/ \E u \in Subject, e \in Email : Agree(s, u, e)
              \/ Abandon(s) \/ Expire(s)
              \/ \E r \in Request, c \in codes : CompleteProviderSignIn(r, s, c)
       PROVE  Consents'
  BY <1>14, <1>15 DEF StartProviderSignIn, Agree, Abandon, Expire, CompleteProviderSignIn
<1>16. ASSUME NEW r \in Request, Exchange(r) \/ ExchangeFails(r) PROVE Consents'
  BY <1>14, <1>16 DEF Exchange, ExchangeFails
<1>17. CASE DeleteExpiredOAuthStates
  BY <1>14, <1>17 DEF DeleteExpiredOAuthStates
<1> QED BY <1>9, <1>10, <1>11, <1>12, <1>13, <1>14, <1>15, <1>16, <1>17 DEF BrowserNext, browsers

-------------------------------------------------------------------------------
(* The theorems.                                                           *)

BrowserInv == /\ BrowserTypeOK /\ Idles /\ AttemptLasts /\ OneCallbackPerStart /\ Agreements
              /\ Wanted /\ Consents

(* The inductive invariant: ConsentFirst needs what requests and callbacks  *)
(* carry, FinishedByWhoAgreed what the codes that are out stand for.        *)
LEMMA BrowserInvariant == BrowserSpec => []BrowserInv
<1>1. BrowserInit => BrowserInv
  <2> SUFFICES ASSUME BrowserInit PROVE BrowserInv
    OBVIOUS
  <2>1. BrowserTypeOK
    BY InitBrowser
  <2>2. Idles /\ Asked
    BY DEF BrowserInit, Init, Idles, Asked, Idle
  <2>3. AttemptLasts /\ ConsentFirst
    BY DEF BrowserInit, Init, AttemptLasts, ConsentFirst
  <2>4. OneCallbackPerStart /\ Agreements /\ Wanted
    BY DEF BrowserInit, NoCall, OneCallbackPerStart, Agreements, FinishedByWhoAgreed, Wanted
  <2> QED BY <2>1, <2>2, <2>3, <2>4 DEF BrowserInv, Consents
<1>2. BrowserInv /\ [BrowserNext]_browsers => BrowserInv'
  <2> SUFFICES ASSUME BrowserInv, [BrowserNext]_browsers PROVE BrowserInv'
    OBVIOUS
  <2>1. BrowserTypeOK /\ Idles /\ TypeOK
    BY Parts DEF BrowserInv
  <2>2. [Next]_vars
    BY <2>1, AccountStep
  <2>3. TypeOK' /\ Idles'
    BY <2>1, <2>2, TypeStep, IdlesStep
  <2>4. Attempts' /\ Callbacks'
    BY <2>1, AttemptsStep, CallbacksStep
  <2>5. BrowserTypeOK'
    BY <2>3, <2>4 DEF BrowserTypeOK, Attempts, Callbacks
  <2> QED BY <2>3, <2>5, AttemptLastsStep, OneCallbackStep, AgreementsStep, WantedStep, ConsentsStep
          DEF BrowserInv
<1> QED BY <1>1, <1>2, PTL DEF BrowserSpec

(* BrowserTypeOK: a request is in one part of its work at a time, and what  *)
(* CompleteProviderSignIn goes on with was taken from the table.            *)
THEOREM BrowserTyped == BrowserSpec => []BrowserTypeOK
<1>1. BrowserInv => BrowserTypeOK
  BY DEF BrowserInv
<1> QED BY <1>1, BrowserInvariant, PTL

(* OneCallbackPerStart: ConsumeOAuthState makes a state single use, however *)
(* many callbacks, attempts and processes there are.                        *)
THEOREM OnceOnly == BrowserSpec => []OneCallbackPerStart
<1>1. BrowserInv => OneCallbackPerStart
  BY DEF BrowserInv
<1> QED BY <1>1, BrowserInvariant, PTL

(* FinishedByWhoAgreed: Exchange lets nobody finish an attempt that he did  *)
(* not agree to, with the nonce alone and without PKCE.                     *)
THEOREM Agreed == BrowserSpec => []FinishedByWhoAgreed
<1>1. BrowserInv => FinishedByWhoAgreed
  BY DEF BrowserInv, Agreements
<1> QED BY <1>1, BrowserInvariant, PTL

(* ConsentFirst: no provider account is attached by signInWithProvider or   *)
(* LinkProviderToken before its owner asked one of our clients for it.      *)
THEOREM Consented == BrowserSpec => []ConsentFirst
<1>1. BrowserInv => ConsentFirst
  BY DEF BrowserInv, Consents
<1> QED BY <1>1, BrowserInvariant, PTL

(* AttemptLasts: sweeps and restarts cost nobody an attempt younger than    *)
(* ten minutes.                                                             *)
THEOREM Lasting == BrowserSpec => []AttemptLasts
<1>1. BrowserInv => AttemptLasts
  BY DEF BrowserInv
<1> QED BY <1>1, BrowserInvariant, PTL

(* ImplementsAccounts: through the browser or with a token, a sign-in does  *)
(* to the accounts what signInWithProvider does in Accounts.                *)
THEOREM Refinement == BrowserSpec => ImplementsAccounts
<1>1. BrowserInit => Init
  BY DEF BrowserInit
<1>2. BrowserTypeOK /\ [BrowserNext]_browsers => [Next]_vars
  BY AccountStep
<1> QED BY <1>1, <1>2, BrowserTyped, PTL DEF BrowserSpec, Spec, ImplementsAccounts

(* So what Accounts guarantees holds for browsers and native clients alike: *)
(* no session before a proven address, one account for a provider account,  *)
(* nobody locked out but by two unlinks that overlap.                       *)
THEOREM SafeHoweverSignedIn ==
    BrowserSpec => [](NothingBeforeProof /\ OneAccountPerSubject /\ LockedOutOnlyByOverlap)
<1> QED BY Refinement, ProofFirst, OneAccount, LockedOut, PTL DEF ImplementsAccounts
===============================================================================
