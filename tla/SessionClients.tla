---------------------------- MODULE SessionClients ----------------------------
(***************************************************************************)
(* The two ends of a session: the handlers of internal/auth/handler.go,    *)
(* which take a refresh token from a cookie or from a body and answer with *)
(* one or the other, and the clients, whose answers may overtake           *)
(* one another.  In between run the steps of RefreshChains.                *)
(*                                                                         *)
(* A client is a browser, with a cookie jar its tabs share and a memory    *)
(* scripts can read, or an app, which has no jar but may say anything in   *)
(* X-Client-Platform.  It presents only what it holds.  A token is taken   *)
(* out of a cookie by the server alone (HttpOnly), so what is in the jar   *)
(* never gets into the memory.                                             *)
(*                                                                         *)
(* A request reaches its first statement in the step that sends it; only   *)
(* answers travel.  One that lingered on its way there would be one more   *)
(* refresh that is under way when another answer arrives.                  *)
(***************************************************************************)
EXTENDS RefreshChains

CONSTANT Client

ASSUME NoneIsNoClient == None \notin Client
ASSUME NoneIsNoForm   == None \notin {"cookie", "body", "clear", "web", "app"}

Form == {"cookie", "body"}

VARIABLES
    jar,        \* the refresh cookie of a client
    memory,     \* the refresh token it was given in a body last
    asked,      \* per request, who asks and how the answer is to go back
    wire,       \* answers on their way
    \* history, read by the properties only
    holder,     \* the client a token was sent to
    form,       \* how it was
    lifetime,   \* the platform whose refresh lifetime it was given
    left,       \* whether a client was told that it is signed out, and when
    disturbed   \* chains a failure, a lost or overlapping request or a logout hit

clients   == <<jar, memory, asked, wire>>
ledger    == <<holder, form, lifetime>>
account   == <<ledger, left, disturbed>>
clientVars == <<vars, clients, account>>

Nobody == [client |-> None, form |-> None, platform |-> None]

ClientInit ==
    /\ Init
    /\ jar = [c \in Client |-> None]
    /\ memory = [c \in Client |-> None]
    /\ asked = [r \in Request |-> Nobody]
    /\ wire = {}
    /\ holder = [t \in Token |-> None]
    /\ form = [t \in Token |-> None]
    /\ lifetime = [t \in Token |-> None]
    /\ left = [c \in Client |-> "no"]
    /\ disturbed = {}

\* Mutant: sessionResponse has forgotten the cookie.
AnswerInBody(c, f, t) ==
    [to |-> c, form |-> IF f = "cookie" THEN "body" ELSE f, token |-> t]

Answer(c, f, t) == [to |-> c, form |-> f, token |-> t]

\* Request r is over.
Forget(r) == asked' = [asked EXCEPT ![r] = Nobody]

\* A token of the chain has been spent and the next one has not arrived.
Awaited(f) == Issuing(f) # {} \/ \E m \in wire : m.form \in Form /\ family[m.token] = f

-------------------------------------------------------------------------------
(* Asking.                                                                 *)

\* LoginUser and SignInWithProviderToken go by the header, there being nothing
\* else; CompleteProviderSignIn is the case of platform "web".
SignIn(c, r, u, f, platform) ==
    /\ StartSession(r, u, f)
    /\ asked' = [asked EXCEPT ![r] =
                    [client |-> c, platform |-> platform,
                     form |-> IF platform = "web" THEN "cookie" ELSE "body"]]
    /\ UNCHANGED <<jar, memory, wire, account>>

\* presentedRefreshToken: a token in the body wins over the cookie, if any.
Presents(c, source, t) ==
    /\ t # None
    /\ t = IF source = "body" THEN memory[c] ELSE jar[c]

\* Mutant: the platform header decides how the answer goes back.
ByHeader(source, platform) == IF platform = "web" THEN "cookie" ELSE "body"

\* "Answered the way it was asked."
AnswerForm(source, platform) == source

\* Mutant: the header is believed.
AsDeclared(source, platform) == platform

\* "A cookie means a browser, whatever the header says."
PlatformOf(source, platform) == IF source = "cookie" THEN "web" ELSE platform

Asks(c, r, source, platform) ==
    asked' = [asked EXCEPT ![r] = [client   |-> c,
                                   form     |-> AnswerForm(source, platform),
                                   platform |-> PlatformOf(source, platform)]]

\* RefreshSession, the first statement of Refresh included.
RefreshSession(c, r, t, source, platform) ==
    /\ Presents(c, source, t)
    /\ \/ /\ UseWon(r, t) \/ UseLost(r, t)
          /\ Asks(c, r, source, platform)
          /\ disturbed' = IF Awaited(family[t]) THEN disturbed \cup {family[t]}
                                                ELSE disturbed
       \/ /\ UseUnanswered(r, t)
          /\ disturbed' = disturbed \cup {family[t]}
          /\ UNCHANGED asked
    /\ UNCHANGED <<jar, memory, wire, ledger, left>>

\* The Logout handler, with a token that has a row.
LogoutSession(c, r, t, source) ==
    /\ Presents(c, source, t)
    /\ Logout(r, t)
    /\ asked' = [asked EXCEPT ![r] = [client |-> c, form |-> "clear", platform |-> None]]
    /\ disturbed' = disturbed \cup {family[t]}
    /\ UNCHANGED <<jar, memory, wire, ledger, left>>

\* The Logout handler, with a token nobody knows or none at all; a body that
\* names an empty one hides the cookie.
LogoutNothing(c) ==
    /\ wire' = wire \cup {Answer(c, "clear", None)}
    /\ UNCHANGED <<vars, jar, memory, asked, account>>

-------------------------------------------------------------------------------
(* Answering.                                                              *)

\* What the client is sent, for the history.
Enter(r, t) == /\ holder' = [holder EXCEPT ![t] = asked[r].client]
               /\ form' = [form EXCEPT ![t] = asked[r].form]
               /\ lifetime' = [lifetime EXCEPT ![t] = asked[r].platform]

\* issueSession succeeds and sessionResponse puts the token where it goes.
SessionResponse(r, t) ==
    /\ Issue(r, t, TRUE)
    /\ wire' = wire \cup {Answer(asked[r].client, asked[r].form, t)}
    /\ Enter(r, t)
    /\ Forget(r)
    /\ UNCHANGED <<jar, memory, left, disturbed>>

\* issueSession fails, before or after the row is there: an error goes back.
NoSession(r) ==
    /\ \/ IssueFailed(r) /\ UNCHANGED ledger
       \/ \E t \in Token : Issue(r, t, FALSE) /\ Enter(r, t)
    /\ disturbed' = disturbed \cup {req[r].family}
    /\ Forget(r)
    /\ UNCHANGED <<jar, memory, wire, left>>

\* The lookup and the revocation behind a refresh or a logout; the logout is
\* answered the same whatever came of it, the refresh with an error.
Examine(r) ==
    /\ Lookup(r)
    /\ IF Reused(req[r].token) THEN UNCHANGED asked ELSE Forget(r)
    /\ UNCHANGED <<jar, memory, wire, account>>

EndOfChain(r) ==
    /\ Revoke(r) \/ GiveUp(r)
    /\ wire' = IF asked[r].form = "clear"
               THEN wire \cup {Answer(asked[r].client, "clear", None)} ELSE wire
    /\ Forget(r)
    /\ UNCHANGED <<jar, memory, account>>

-------------------------------------------------------------------------------
(* The network, time and crashes.                                          *)

\* A session that goes on in the cookie of the client: a refresh that has spent
\* a token for it, or the answer to one.
UnderWay(c) ==
    \/ \E r \in Request : /\ req[r].at = "issue" /\ req[r].token # None
                          /\ asked[r].client = c /\ asked[r].form = "cookie"
    \/ \E m \in wire : m.to = c /\ m.form = "cookie" /\ parent[m.token] # None

\* Mutant: the cookie that expires has another path than the one that is there.
OtherPath(c) == jar

\* expiredRefreshCookie, in the browser
WithoutCookie(c) == [jar EXCEPT ![c] = None]

\* A cookie replaces the one in the jar, a body the token in memory; a new
\* session undoes having left.
Deliver(m) ==
    /\ m \in wire
    /\ wire' = wire \ {m}
    /\ CASE m.form = "cookie" ->
              /\ jar' = [jar EXCEPT ![m.to] = m.token]
              /\ left' = IF parent[m.token] = None THEN [left EXCEPT ![m.to] = "no"] ELSE left
              /\ UNCHANGED memory
         [] m.form = "body" ->
              /\ memory' = [memory EXCEPT ![m.to] = m.token]
              /\ UNCHANGED <<jar, left>>
         [] m.form = "clear" ->
              /\ jar' = WithoutCookie(m.to)
              /\ left' = [left EXCEPT ![m.to] = IF UnderWay(m.to) THEN "overtaking" ELSE "yes"]
              /\ UNCHANGED memory
    /\ UNCHANGED <<vars, asked, ledger, disturbed>>

Lose(m) ==
    /\ m \in wire
    /\ wire' = wire \ {m}
    /\ disturbed' = IF m.form = "clear" THEN disturbed
                    ELSE disturbed \cup {family[m.token]}
    /\ UNCHANGED <<vars, jar, memory, asked, ledger, left>>

\* MaxAge runs out, or the user clears the cookies.
DropCookie(c) ==
    /\ jar[c] # None
    /\ jar' = [jar EXCEPT ![c] = None]
    /\ UNCHANGED <<vars, memory, asked, wire, account>>

Background ==
    /\ (\E t \in Token : Expire(t)) \/ (\E old \in SUBSET Token \ {{}} : Sweep(old))
    /\ UNCHANGED <<clients, account>>

Restart ==
    /\ Crash
    /\ disturbed' = disturbed \cup ({req[r].family : r \in Request} \ {None})
    /\ asked' = [r \in Request |-> Nobody]
    /\ UNCHANGED <<jar, memory, wire, ledger, left>>

ClientNext ==
    \/ \E c \in Client, r \in Request :
          \/ \E u \in User, f \in Family, p \in {"web", "app"} : SignIn(c, r, u, f, p)
          \/ \E t \in Token, s \in Form :
                \/ \E p \in {"web", "app"} : RefreshSession(c, r, t, s, p)
                \/ LogoutSession(c, r, t, s)
    \/ \E c \in Client : LogoutNothing(c) \/ DropCookie(c)
    \/ \E r \in Request : \/ \E t \in Token : SessionResponse(r, t)
                          \/ NoSession(r)
                          \/ Examine(r)
                          \/ EndOfChain(r)
    \/ \E m \in wire : Deliver(m) \/ Lose(m)
    \/ Background
    \/ Restart

ClientSpec == ClientInit /\ [][ClientNext]_clientVars

-------------------------------------------------------------------------------
(* Properties.                                                             *)

HandedOver(t, c, f) == t \in delivered /\ holder[t] = c /\ form[t] = f

HeldOK ==
    /\ jar \in [Client -> Token \cup {None}]
    /\ memory \in [Client -> Token \cup {None}]
    /\ \A c \in Client : /\ jar[c] # None => HandedOver(jar[c], c, "cookie")
                         /\ memory[c] # None => HandedOver(memory[c], c, "body")

WireOK ==
    /\ wire \subseteq [to : Client, form : Form \cup {"clear"}, token : Token \cup {None}]
    /\ \A m \in wire : m.form \in Form => HandedOver(m.token, m.to, m.form)

AskedOK ==
    /\ asked \in [Request -> [client   : Client \cup {None},
                             form     : Form \cup {"clear", None},
                             platform : {"web", "app", None}]]
    /\ \A r \in Request : req[r].at = "issue" => /\ asked[r].client # None
                                                 /\ asked[r].form \in Form
                                                 /\ asked[r].platform # None
    /\ \A r \in Request : asked[r].form = "clear" => asked[r].client # None

LedgerOK ==
    /\ holder \in [Token -> Client \cup {None}]
    /\ form \in [Token -> Form \cup {None}]
    /\ lifetime \in [Token -> {"web", "app", None}]
    /\ left \in [Client -> {"no", "yes", "overtaking"}]
    /\ disturbed \subseteq Family

(* Type invariant: what clients hold and answers carry was delivered, to    *)
(* them and the way it was handed over.                                     *)
ClientTypeOK == HeldOK /\ WireOK /\ AskedOK /\ LedgerOK

(* A session stays with the client it was begun for, and stays what it was: *)
(* one that began in a cookie stays in cookies, with the lifetime of the    *)
(* web, one that began in a body stays out of them, whatever header later   *)
(* requests bear (RefreshSession, sessionResponse).                         *)
OneTransportPerChain ==
    /\ \A s, t \in Minted : family[s] = family[t] =>
          holder[s] = holder[t] /\ form[s] = form[t]
    /\ \A t \in Minted : form[t] = "cookie" => lifetime[t] = "web"

(* A client that waits for every answer, gets it, and does not log out is   *)
(* never signed out, as long as nothing fails at the server: its chain is   *)
(* not revoked, and the token it holds, once no answer is awaited, is one   *)
(* that was not spent.  "It would keep presenting the spent one and trip    *)
(* reuse detection on the very next call" is what RefreshSession is written *)
(* to avoid.                                                                *)
PatientClientStaysIn ==
    /\ closed \subseteq disturbed
    /\ \A c \in Client : \A t \in {jar[c], memory[c]} \ {None} :
          family[t] \in disturbed \/ Awaited(family[t]) \/ t \notin spent \cup revoked

(* What the Logout handler says of clearing the cookie: "a client that      *)
(* asked to leave is never left holding a token".  It is true unless the    *)
(* logout was answered in the middle of a refresh of another tab, whose     *)
(* answer sets the cookie again (Logout, sessionResponse); signing in       *)
(* again, of course, ends it.                                               *)
LeavesWithNothing ==
    \A c \in Client : left[c] = "yes" => jar[c] = None /\ ~UnderWay(c)
===============================================================================
