----------------------------- MODULE BrowserSignIn -----------------------------
(***************************************************************************)
(* How a sign-in reaches signInWithProvider of Accounts: the browser flow  *)
(* of oidc_web.go over the table oauth_states, and the token of a native   *)
(* client.  The callback deletes its row, then looks for the provider in   *)
(* this process, then exchanges the code, and only then signs in; other    *)
(* callbacks, the sweeper, an expiry or a restart may come between.        *)
(*                                                                         *)
(* State, nonce and code verifier are drawn together and never apart, so   *)
(* all three are named by the State.  The providers are external: a code   *)
(* carries the nonce of the URL that was agreed to and is good for one     *)
(* exchange.  Whether a provider enforces PKCE is up to it, so nothing     *)
(* here relies on it.  Any code may arrive with any state.  The name of a  *)
(* State may be drawn again when nothing refers to it any more.            *)
(***************************************************************************)
EXTENDS Accounts

CONSTANTS State, Provider,
          ProviderOf,     \* the provider a Subject belongs to
          Audience,       \* applications that provider tokens are made out to
          AllowedAudience \* the ones of our clients, Google.audiences

ASSUME ProvidersOfSubjects == ProviderOf \in [Subject -> Provider]
ASSUME NoneIsNoAttempt == None \notin State \cup Provider

VARIABLES
    configured, \* Service.providers of the running process
    states,     \* rows of oauth_states
    provider,   \* oauth_states.provider, kept after the row is gone
    expired,    \* rows with expires_at <= now()
    tabs,       \* authorization URLs still open in a browser
    codes,      \* codes the providers have given out
    call,       \* callbacks between their DELETE and their sign-in
    \* history, read by the properties only
    taken,      \* attempts that a callback has taken
    agreed,     \* who agreed to which attempt
    consented   \* provider accounts whose owner wanted in here

flow     == <<configured, states, provider, expired, tabs, codes, call, taken, agreed, consented>>
browsers == <<vars, flow>>

Code == [nonce : State, subject : Subject, email : Email]
NoCall == [at |-> "idle", state |-> None, code |-> None]

BrowserInit ==
    /\ Init
    /\ configured \in SUBSET Provider
    /\ states = {} /\ expired = {} /\ tabs = {} /\ codes = {}
    /\ provider = [s \in State |-> None]
    /\ call = [r \in Request |-> NoCall]
    /\ taken = {} /\ agreed = {} /\ consented = {}

Free(r) == req[r].at = "idle" /\ call[r].at = "idle"

\* newOpaqueToken: a state nobody has heard of.
Fresh(s) == /\ s \notin states \cup tabs
            /\ \A c \in codes : c.nonce # s
            /\ \A r \in Request : call[r].state # s

-------------------------------------------------------------------------------
(* The browser flow.                                                       *)

\* StartProviderSignIn, which answers with the URL to open.
StartProviderSignIn(s, p) ==
    /\ p \in configured
    /\ Fresh(s)
    /\ states' = states \cup {s}
    /\ expired' = expired \ {s}
    /\ provider' = [provider EXCEPT ![s] = p]
    /\ tabs' = tabs \cup {s}
    /\ taken' = taken \ {s}
    /\ agreed' = {a \in agreed : a[1] # s}
    /\ UNCHANGED <<vars, configured, codes, call, consented>>

\* External: the owner of a provider account agrees, and the browser is sent
\* back with a code.  Bound: one code of an attempt is out at a time.
Agree(s, u, e) ==
    /\ s \in tabs /\ ProviderOf[u] = provider[s]
    /\ \A c \in codes : c.nonce # s
    /\ codes' = codes \cup {[nonce |-> s, subject |-> u, email |-> e]}
    /\ agreed' = agreed \cup {<<s, u>>}
    /\ consented' = consented \cup {u}
    /\ UNCHANGED <<vars, configured, states, provider, expired, tabs, call, taken>>

\* External: the tab is closed, a code times out at the provider.
Abandon(s) ==
    /\ \/ s \in tabs
       \/ \E c \in codes : c.nonce = s
    /\ tabs' = tabs \ {s}
    /\ codes' = {c \in codes : c.nonce # s}
    /\ UNCHANGED <<vars, configured, states, provider, expired, call, taken, agreed, consented>>

\* Mutant: the row is read and stays.
ReadOnly(s) == states

\* "Deleting as it is read makes the state single use."
ConsumeOAuthState(s) == states \ {s}

\* s.providers[st.Provider], in the process that got the callback.
IsConfigured(p) == p \in configured

\* CompleteProviderSignIn up to the exchange.  The answer to the DELETE may be
\* lost, and the provider may be unknown: the row is gone either way.
CompleteProviderSignIn(r, s, c) ==
    /\ Free(r)
    /\ s \in states \ expired
    /\ states' = ConsumeOAuthState(s)
    /\ taken' = taken \cup {s}
    /\ \/ /\ IsConfigured(provider[s])
          /\ call' = [call EXCEPT ![r] = [at |-> "exchange", state |-> s, code |-> c]]
       \/ call' = call
    /\ UNCHANGED <<vars, configured, provider, expired, tabs, codes, agreed, consented>>

\* Mutant: the nonce in the ID token is not compared.
AnyNonce(c, s) == TRUE

\* idToken.Nonce != nonce
NonceOf(c, s) == c.nonce = s

\* Exchange: the provider takes its own code once, and the ID token that
\* comes back was made for this attempt.
Exchange(r) ==
    LET c == call[r].code IN
    /\ call[r].at = "exchange"
    /\ c \in codes
    /\ ProviderOf[c.subject] = provider[call[r].state]
    /\ codes' = codes \ {c}
    /\ call' = [call EXCEPT ![r] = IF NonceOf(c, call[r].state)
                                   THEN [at |-> "claims", state |-> call[r].state, code |-> c]
                                   ELSE NoCall]
    /\ UNCHANGED <<vars, configured, states, provider, expired, tabs, taken, agreed, consented>>

\* The exchange fails, before or after the provider has taken the code.
ExchangeFails(r) ==
    /\ call[r].at = "exchange"
    /\ codes' \in {codes, codes \ {call[r].code}}
    /\ call' = [call EXCEPT ![r] = NoCall]
    /\ UNCHANGED <<vars, configured, states, provider, expired, tabs, taken, agreed, consented>>

\* Mutant: the callback goes on to the session and to the sign-in once more.
SignInAgain(r) ==
    /\ call[r].at = "claims"
    /\ SignIn(r, call[r].code.subject, call[r].code.email)
    /\ UNCHANGED flow

\* signInWithProvider with the claims of the ID token.
SignInWithClaims(r) ==
    /\ call[r].at = "claims"
    /\ SignIn(r, call[r].code.subject, call[r].code.email)
    /\ call' = [call EXCEPT ![r] = NoCall]
    /\ UNCHANGED <<configured, states, provider, expired, tabs, codes, taken, agreed, consented>>

-------------------------------------------------------------------------------
(* A native client brings an ID token of its own.                          *)

\* Mutant: SkipClientIDCheck, and nothing in its place.
AnyAudience(a) == TRUE

\* audienceAllowed
AudienceAllowed(a) == a \in AllowedAudience

\* verifyProviderToken.  Owners ask for tokens for other applications too;
\* only one made out to our clients says that they want in here.
VerifyIDToken(u, a) ==
    /\ ProviderOf[u] \in configured
    /\ AudienceAllowed(a)
    /\ consented' = consented \cup {v \in {u} : a \in AllowedAudience}

SignInWithProviderToken(r, u, e, a) ==
    /\ Free(r)
    /\ VerifyIDToken(u, a)
    /\ SignIn(r, u, e)
    /\ UNCHANGED <<configured, states, provider, expired, tabs, codes, call, taken, agreed>>

LinkWithProviderToken(e, u, i, a) ==
    /\ VerifyIDToken(u, a)
    /\ LinkProviderToken(e, u, i)
    /\ UNCHANGED <<configured, states, provider, expired, tabs, codes, call, taken, agreed>>

-------------------------------------------------------------------------------
(* Time, and the process.                                                  *)

\* Ten minutes pass.
Expire(s) == /\ s \in states \ expired
             /\ expired' = expired \cup {s}
             /\ UNCHANGED <<vars, configured, states, provider, tabs, codes, call, taken, agreed, consented>>

\* WHERE expires_at <= now()
AgedOut == states \cap expired

DeleteExpiredOAuthStates ==
    /\ AgedOut # {}
    /\ states' = states \ AgedOut
    /\ UNCHANGED <<vars, configured, provider, expired, tabs, codes, call, taken, agreed, consented>>

\* Mutant: attempts live in the process, as in a map.
InMemory == {}

\* "It has to survive a restart in the middle of a login."
Surviving == states

\* The process dies, and the next one may know other providers.
Restart(P) ==
    /\ Crash
    /\ configured' = P
    /\ states' = Surviving
    /\ call' = [r \in Request |-> NoCall]
    /\ UNCHANGED <<provider, expired, tabs, codes, taken, agreed, consented>>

\* Everything Accounts does otherwise.
Otherwise ==
    /\ \/ \E e \in Email : Register(e) \/ VerifyEmail(e)
       \/ \E r \in Request :
             \/ /\ Free(r)
                /\ \/ \E e \in Email : LoginUser(r, e)
                   \/ \E e \in Email, i \in Identity : UnlinkIdentity(r, e, i)
             \/ StartSession(r)
             \/ ByEmail(r)
             \/ \E i \in Identity : CreateUserWithIdentity(r, i) \/ AutoLink(r, i)
             \/ DeleteIdentity(r)
             \/ GiveUp(r)
    /\ UNCHANGED flow

BrowserNext ==
    \/ \E s \in State, p \in Provider : StartProviderSignIn(s, p)
    \/ \E s \in State, u \in Subject, e \in Email : Agree(s, u, e)
    \/ \E s \in State : Abandon(s) \/ Expire(s)
    \/ \E r \in Request :
          \/ \E s \in State, c \in codes : CompleteProviderSignIn(r, s, c)
          \/ Exchange(r) \/ ExchangeFails(r) \/ SignInWithClaims(r)
          \/ \E u \in Subject, e \in Email, a \in Audience :
                SignInWithProviderToken(r, u, e, a)
    \/ \E e \in Email, u \in Subject, i \in Identity, a \in Audience :
          LinkWithProviderToken(e, u, i, a)
    \/ DeleteExpiredOAuthStates
    \/ \E P \in SUBSET Provider : Restart(P)
    \/ Otherwise

BrowserSpec == BrowserInit /\ [][BrowserNext]_browsers

-------------------------------------------------------------------------------
(* Properties.                                                             *)

Calls == [at : {"idle", "exchange", "claims"}, state : State \cup {None},
          code : Code \cup {None}]

(* Type invariant: rows, tabs, codes and callbacks refer to attempts that   *)
(* were started, and a request is in one part of its work at a time.        *)
BrowserTypeOK ==
    /\ TypeOK
    /\ configured \subseteq Provider
    /\ provider \in [State -> Provider \cup {None}]
    /\ states \cup expired \cup tabs \cup taken \subseteq {s \in State : provider[s] # None}
    /\ codes \subseteq Code
    /\ agreed \subseteq State \X Subject
    /\ consented \subseteq Subject
    /\ call \in [Request -> Calls]
    /\ \A r \in Request :
          IF call[r].at = "idle" THEN call[r] = NoCall
          ELSE req[r] = Idle /\ call[r].state \in taken /\ call[r].code \in Code

(* A started sign-in is carried on by one callback at most, however many    *)
(* copies of the callback URL arrive at once, and only by a process that    *)
(* knows its provider: CompleteProviderSignIn deletes the row before all.   *)
OneCallbackPerStart ==
    \A r \in Request : call[r].at # "idle" =>
        /\ call[r].state \notin states
        /\ provider[call[r].state] \in configured
        /\ \A q \in Request \ {r} : call[q].state # call[r].state

(* Who is signed in agreed to this very attempt: a code of one attempt does *)
(* not finish another, whatever state it arrives with (Exchange).           *)
FinishedByWhoAgreed ==
    \A r \in Request : call[r].at = "claims" =>
        <<call[r].state, call[r].code.subject>> \in agreed

(* A provider account is attached to an account here, by whichever way it   *)
(* came, only after its owner asked one of our clients for it: a token made *)
(* out to another application opens nothing (verify, audienceAllowed).      *)
ConsentFirst == \A i \in linked : subject[i] \in consented

(* An attempt that is open in a browser can be finished until it is taken   *)
(* or ten minutes old, through sweeps and restarts: a row "has to survive a *)
(* restart in the middle of a login" (oauth_states, not a map).             *)
AttemptLasts == tabs \subseteq states \cup expired \cup taken

(* However a sign-in arrives, accounts see the steps of Accounts only.      *)
ImplementsAccounts == Spec
===============================================================================
