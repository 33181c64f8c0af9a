--------------------------------- MODULE Edge ---------------------------------
(***************************************************************************)
(* One request on its way through the HTTP stack of newHTTPServer and the  *)
(* generated server: the middlewares from the outside in, the mux, the     *)
(* binding of parameters and body, the handler, and the answer.  Each step *)
(* is the code of one layer; what the request holds is chosen where a      *)
(* layer looks at it.  Requests share nothing here but the limiter, which  *)
(* is RateLimit; what the handlers do is in the other modules, and here    *)
(* only how they end.                                                      *)
(*                                                                         *)
(* External: net/http with its mux (a pattern of GET takes HEAD too; an    *)
(* unknown path is 404, a known one with another method 405; the status    *)
(* is sent once, and 200 if nobody says otherwise), and the validator of   *)
(* ValidateSpec.  Paths are clean: the mux redirects the others.           *)
(***************************************************************************)
EXTENDS Operations, Versions

CONSTANTS Path,     \* the paths that are asked for
          Version,  \* versions of clients, and minima
          MaxHops,  \* proxies in front of the server
          Written   \* what callers write into X-Forwarded-For

ASSUME EdgeAssumption == /\ Path \subseteq Seq(STRING)
                         /\ Version \subseteq Seq(Component)
                         /\ Number \subseteq Nat
                         /\ MaxHops \in Nat
                         /\ Written \subseteq Seq({"lie", "blank"})

VARIABLES
    config,    \* which of VALIDATE_SPEC, RATE_LIMIT_ENABLED and APP_ENV=local hold
    method,
    path,
    at,        \* the layer that is next
    key,       \* in RateLimit: whom the request is attributed to, and how
    token,     \* what Authenticate found in the header
    user,      \* the user id in the context
    op,        \* what the mux has chosen
    valid,     \* the validator has passed the request
    upgrade,   \* in GetAppConfig: what is decided for whom
    done,      \* the handler has done what it was asked
    panicked,
    sent,      \* the status on the wire
    recorder,  \* statusRecorder
    logged     \* the status in the log

request == <<config, method, path>>
answer  == <<sent, recorder>>
vars == <<request, at, key, token, user, op, valid, upgrade, done, panicked, answer, logged>>

Methods == {"GET", "HEAD", "POST", "OPTIONS"}
Settings == {"VALIDATE_SPEC", "RATE_LIMIT_ENABLED", "local"}

Layers == {"cors", "validate", "limit", "allow", "authenticate", "route", "bind", "decode",
           "handle", "visit", "encode"}

NoKey      == [ip |-> "none", hops |-> 0, proxies |-> 0]
NoDecision == [platform |-> "none", version |-> <<>>, minimum |-> <<>>, forced |-> FALSE]

\* RequestID and RequestLog come first: the id is not modelled, and the recorder
\* is there unless the path is a probe's.
Init ==
    /\ config \in SUBSET Settings
    /\ method \in Methods /\ path \in Path
    /\ at = "cors"
    /\ key = NoKey
    /\ token = "unread" /\ user = "none"
    /\ op = "none"
    /\ valid = FALSE
    /\ upgrade = NoDecision
    /\ done = FALSE /\ panicked = FALSE
    /\ sent = 0
    /\ recorder = [status |-> 200, written |-> "no"]
    /\ logged = 0

-------------------------------------------------------------------------------
(* Answers.                                                                *)

\* An empty segment of a path, an empty entry of a header.
Blank == "blank"

Quiet == path \in {<<"healthz">>, <<"readyz">>}

\* Mutant: the recorder keeps the last status.
RecordLast(status) == [status |-> status, written |-> "yes"]

\* statusRecorder.WriteHeader
Record(status) ==
    IF recorder.written = "yes" THEN recorder ELSE [status |-> status, written |-> "yes"]

\* WriteHeader, of the recorder if there is one.  The second call changes
\* nothing.
WriteHeader(status) ==
    /\ sent' = IF sent = 0 THEN status ELSE sent
    /\ recorder' = IF Quiet THEN recorder ELSE Record(status)

\* Write, before which net/http sends 200 if there was no WriteHeader.
WriteBody ==
    /\ sent' = IF sent = 0 THEN 200 ELSE sent
    /\ recorder' = IF Quiet THEN recorder ELSE [recorder EXCEPT !.written = "yes"]

\* Mutant: whoever refuses a request forgets to answer it.
Silently(status) == UNCHANGED answer /\ at' = "end"

\* httperr.Response, httperr.Request, http.Error
Refuse(status) == WriteHeader(status) /\ at' = "end"

Pass(layer) == at' = layer /\ UNCHANGED answer

-------------------------------------------------------------------------------
(* The middlewares.                                                        *)

\* The preflight of an allowed origin ends here.  BodyLimit follows, which shows
\* when the body is decoded.
CORS ==
    /\ at = "cors"
    /\ \/ method = "OPTIONS" /\ Refuse(204)
       \/ Pass(IF "VALIDATE_SPEC" \in config THEN "validate"
               ELSE IF "RATE_LIMIT_ENABLED" \in config THEN "limit" ELSE "authenticate")
    /\ UNCHANGED <<request, key, token, user, op, valid, upgrade, done, panicked, logged>>

\* A pattern takes a path of as many segments, a wild one any but an empty one.
Takes(pattern, p) ==
    /\ Len(pattern) = Len(p)
    /\ \A i \in 1..Len(p) : pattern[i] = p[i] \/ (pattern[i] \in Wild /\ p[i] # Blank)

Pages == {<<"openapi.json">>, <<"docs">>, <<"dev">>}

\* What the contract describes may pass; the validator looks at more than is
\* told apart here.
ValidateSpec ==
    /\ at = "validate"
    /\ LET next == IF "RATE_LIMIT_ENABLED" \in config THEN "limit" ELSE "authenticate" IN
       \/ path \in Pages /\ Pass(next) /\ valid' = valid
       \/ path \notin Pages /\ Refuse(400) /\ valid' = valid
       \/ /\ \E o \in Operation : Routes[o][1] = method /\ Takes(Routes[o][2], path)
          /\ Pass(next) /\ valid' = TRUE
    /\ UNCHANGED <<request, key, token, user, op, upgrade, done, panicked, logged>>

\* Mutant: one place too far to the left.
OneFurther(forwarded, remote, hops) ==
    LET i == Len(forwarded) - hops
    IN  IF hops > 0 /\ i \in 1..Len(forwarded) /\ forwarded[i] # Blank THEN forwarded[i]
        ELSE remote

ClientIP(forwarded, remote, hops) ==
    LET i == Len(forwarded) + 1 - hops
    IN  IF hops > 0 /\ i \in 1..Len(forwarded) /\ forwarded[i] # Blank THEN forwarded[i]
        ELSE remote

\* The header that arrives: every proxy has added whom it heard the request
\* from, to the line that was there: Get reads the first line only.  Without a header the split of the empty string is one blank entry.
Forwarded(written, proxies) ==
    LET heard == [i \in 1..proxies |-> IF i = 1 THEN "caller" ELSE "proxy"]
    IN  IF written \o heard = <<>> THEN <<Blank>> ELSE written \o heard

\* RateLimit, before it asks the limiter.
Attribute ==
    /\ at = "limit"
    /\ \E written \in Written, hops, proxies \in 0..MaxHops :
          key' = [ip |-> ClientIP(Forwarded(written, proxies),
                                  IF proxies = 0 THEN "caller" ELSE "proxy", hops),
                  hops |-> hops, proxies |-> proxies]
    /\ Pass("allow")
    /\ UNCHANGED <<request, token, user, op, valid, upgrade, done, panicked, logged>>

\* A limiter that fails lets the request through.
RateLimit ==
    /\ at = "allow"
    /\ Refuse(429) \/ Pass("authenticate")
    /\ key' = NoKey
    /\ UNCHANGED <<request, token, user, op, valid, upgrade, done, panicked, logged>>

publicPaths ==
    {<<"healthz">>, <<"readyz">>, <<"v1", "auth", "register">>, <<"v1", "auth", "login">>,
     <<"v1", "auth", "verify-email">>, <<"v1", "auth", "verify-email", "resend">>,
     <<"v1", "auth", "refresh">>, <<"v1", "auth", "logout">>, <<"v1", "auth", "providers">>,
     <<"v1", "app", "config">>} \cup Pages

publicPatterns ==
    {<<"v1", "auth", "any provider", "start">>, <<"v1", "auth", "any provider", "callback">>,
     <<"v1", "auth", "any provider", "token">>}

\* cleanPath, and the Trim of matchPattern: a slash at the end does not count.
CleanPath(p) == IF Len(p) > 1 /\ p[Len(p)] = Blank THEN SubSeq(p, 1, Len(p) - 1) ELSE p

IsPublic(p) == p \in publicPaths \/ \E pattern \in publicPatterns : Takes(pattern, p)

\* What the Authorization header may hold: nothing, another scheme or a blank,
\* no JWT or one of another key, secret or algorithm, one that is expired or never
\* expires, of another type, or of a subject that is no id.
Token == {"missing", "no bearer", "forged", "expired", "endless", "other type", "nobody", "good"}

\* Mutant: the time is not looked at.
AnyTime(t) == t \in {"expired", "good"}

\* bearerToken and HS256.Verify
Verify(t) == t = "good"

Authenticate ==
    /\ at = "authenticate"
    /\ \/ /\ IsPublic(CleanPath(path))
          /\ Pass("route") /\ UNCHANGED <<token, user>>
       \/ /\ ~IsPublic(CleanPath(path))
          /\ token' \in Token
          /\ IF Verify(token') THEN Pass("route") /\ user' = "subject"
             ELSE Refuse(401) /\ user' = user
    /\ UNCHANGED <<request, key, op, valid, upgrade, done, panicked, logged>>

-------------------------------------------------------------------------------
(* The mux and the generated server.                                       *)

\* Where a path is served, and with which method.  The console is local.
Served(p) == {o \in Operation : Takes(Routes[o][2], p)}
Page(p) == p \in Pages /\ (p = <<"dev">> => "local" \in config)
MethodOf(o) == IF o = "page" THEN "GET" ELSE Routes[o][1]

ServeHTTP ==
    /\ at = "route"
    /\ LET here == IF Page(path) THEN {"page"} ELSE Served(path)
           mine == {o \in here : method = MethodOf(o) \/ (method = "HEAD" /\ MethodOf(o) = "GET")}
       IN  \/ here = {} /\ Refuse(404) /\ op' = op
           \/ here # {} /\ mine = {} /\ Refuse(405) /\ op' = op
           \/ \E o \in mine : op' = o /\ Pass(IF o = "page" THEN "encode" ELSE "bind")
    /\ UNCHANGED <<request, key, token, user, valid, upgrade, done, panicked, logged>>

\* A parameter that is missing, there twice, or of another format.  The validator
\* is not relied on for any of these: it may let a second value or a broken UUID
\* pass.
Bind ==
    /\ at = "bind"
    /\ \/ Parameters(op) # {} /\ Refuse(400)
       \/ Pass("decode")
    /\ UNCHANGED <<request, key, token, user, op, valid, upgrade, done, panicked, logged>>

\* A body that is broken, too long or, if it is required, missing.
Decode ==
    /\ at = "decode"
    /\ \/ Body(op) # "unread" /\ ~valid /\ Refuse(400)
       \/ Pass("handle")
    /\ UNCHANGED <<request, key, token, user, op, valid, upgrade, done, panicked, logged>>

Platform == {"ios", "iOS", "android", "web", "none"}

Handle ==
    /\ at = "handle"
    /\ IF op \in RequireUser /\ user = "none"
       THEN Refuse(500) /\ UNCHANGED <<done, upgrade>>
       ELSE \/ \E err \in Errors(op) : Refuse(HTTPStatus(err)) /\ UNCHANGED <<done, upgrade>>
            \/ /\ op # "GetAppConfig"
               /\ Pass("visit") /\ done' = TRUE /\ upgrade' = upgrade
            \/ /\ op = "GetAppConfig"
               /\ \E platform \in Platform, version, ios, android \in Version :
                     LET gate == [ios |-> ios, android |-> android] IN
                     upgrade' = [platform |-> platform, version |-> version,
                                 minimum |-> MinimumFor(gate, platform),
                                 forced |-> Decide(gate, platform, version)]
               /\ Pass("visit") /\ done' = TRUE
    /\ UNCHANGED <<request, key, token, user, op, valid, panicked, logged>>

\* Visit, up to its WriteHeader.  An answer that cannot be encoded is an error
\* like any other; the tokens of sessionJSONResponse, which writes its header
\* before it encodes, always can.
Visit ==
    /\ at = "visit"
    /\ \/ \E status \in Answers(op) :
             /\ WriteHeader(status)
             /\ at' = IF Bodiless(status) THEN "end" ELSE "encode"
       \/ op \in NamesAddress /\ Refuse(500)
    /\ upgrade' = NoDecision
    /\ UNCHANGED <<request, key, token, user, op, valid, done, panicked, logged>>

\* The body, or the page.  A failed write is answered once more, in vain; pages
\* only log it.
Encode ==
    /\ at = "encode"
    /\ \/ WriteBody /\ at' = "end"
       \/ op # "page" /\ Refuse(500)
    /\ UNCHANGED <<request, key, token, user, op, valid, upgrade, done, panicked, logged>>

\* Recover: a panic in any layer inside it.
Recover ==
    /\ at \in Layers
    /\ Refuse(500)
    /\ panicked' = TRUE
    /\ key' = NoKey /\ upgrade' = NoDecision
    /\ UNCHANGED <<request, token, user, op, valid, done, logged>>

\* The line of RequestLog, and the end of the exchange.
Log ==
    /\ at = "end"
    /\ at' = "logged"
    /\ logged' = IF Quiet THEN 0 ELSE recorder.status
    /\ sent' = IF sent = 0 THEN 200 ELSE sent
    /\ UNCHANGED <<request, key, token, user, op, valid, upgrade, done, panicked, recorder>>

Over == at = "logged" /\ UNCHANGED vars

Next == \/ CORS \/ ValidateSpec \/ Attribute \/ RateLimit \/ Authenticate
        \/ ServeHTTP \/ Bind \/ Decode \/ Handle \/ Visit \/ Encode
        \/ Recover \/ Log \/ Over

Spec == Init /\ [][Next]_vars

-------------------------------------------------------------------------------
(* Properties.                                                             *)

(* Type invariant: a request is attributed only inside RateLimit, a user is *)
(* there only after Authenticate, and a status is sent before the end.      *)
EdgeTypeOK ==
    /\ config \subseteq Settings /\ method \in Methods /\ path \in Path
    /\ at \in Layers \cup {"end", "logged"}
    /\ key \in [ip : {"none", "caller", "proxy", "lie"}, hops : 0..MaxHops, proxies : 0..MaxHops]
    /\ token \in Token \cup {"unread"}
    /\ user \in {"none", "subject"}
    /\ op \in Operation \cup {"none", "page"}
    /\ valid \in BOOLEAN /\ done \in BOOLEAN /\ panicked \in BOOLEAN
    /\ sent \in 0..599 /\ logged \in 0..599
    /\ recorder \in [status : 200..599, written : {"no", "yes"}]
    /\ at # "allow" <=> key = NoKey
    /\ at \in {"end", "logged"} => sent # 0
    /\ at \in {"bind", "decode", "handle", "visit"} => op \in Operation /\ sent = 0

(* The log says what the client was told, whatever failed after the header  *)
(* was out, and an operation that was carried out is not answered as a      *)
(* failure, but for a panic and for an address that cannot be encoded: it   *)
(* was registered all the same (statusRecorder, httperr.Response, Recover,  *)
(* the Visit methods).                                                      *)
HonestAnswer ==
    at = "logged" =>
        /\ Quiet \/ logged = sent
        /\ done /\ sent >= 400 /\ sent # 503 => panicked \/ op \in NamesAddress

\* The operations that the contract opens to everyone, and the two probes, which
\* it does not.
Open == {"RegisterUser", "LoginUser", "RefreshSession", "Logout", "ListProviders",
         "StartProviderSignIn", "CompleteProviderSignIn", "SignInWithProviderToken",
         "VerifyEmail", "ResendEmailVerification", "GetAppConfig"}
Probes == {"GetHealthz", "GetReadyz"}

(* Lists of paths, patterns, routes and requireUser agree: whoever reaches  *)
(* a handler that is not open has shown a good token, one that needs a user *)
(* has one, nobody is asked for a token in order to get one, and without    *)
(* one a path that is not open does not even show whether it exists         *)
(* (app.publicPaths, Authenticate, HandlerWithOptions, requireUser).        *)
UserFromToken ==
    /\ op \in Operation \ (Open \cup Probes) => token = "good" /\ user = "subject"
    /\ token # "unread" => Served(path) \cap (Open \cup Probes) = {}
    /\ token \notin {"unread", "good"} => op = "none" /\ sent = 401

(* "the entry that many places from the right is the one the nearest        *)
(* trusted proxy wrote": with no more hops configured than there are        *)
(* proxies, a caller cannot choose whom its requests are counted for, and   *)
(* with as many it is the caller itself (ClientIP).                         *)
CountedForCaller ==
    at = "allow" =>
        /\ key.hops <= key.proxies => key.ip # "lie"
        /\ key.hops = key.proxies => key.ip = "caller"

\* Statuses that the contract does not have: binding and decoding, and errors,
\* which no type of the generated code describes.
Unwritten(o) ==
    CASE o \in {"GetAppConfig", "Logout", "UnlinkIdentity"} -> {400}
      [] o = "StartProviderSignIn"         -> {400, 422}
      [] o = "CompleteProviderSignIn"      -> {401, 502}
      [] o = "SignInWithProviderToken"     -> {502}
      [] o = "LinkIdentity"                -> {400, 502}
      [] o \in {"GetMe", "ListIdentities"} -> {404}
      [] OTHER -> {}

(* What an operation answers is in the contract, or a 500, or in a list     *)
(* that is complete (docs/openapi.yaml, errors.go, the strict handlers).    *)
Contract ==
    op \in Operation /\ sent # 0 => sent \in Responses(op) \cup Unwritten(op) \cup {500}

\* The order of versions: the first number that differs decides, and numbers
\* that are not there are zero.
OlderAt(a, b, i) == /\ NumberOf(a, i) < NumberOf(b, i)
                    /\ \A j \in 1..(i - 1) : NumberOf(a, j) = NumberOf(b, j)
Older(a, b) == \E i \in 1..(Len(a) + Len(b)) : OlderAt(a, b, i)

\* Versions of which every component can be read, and of which none can.
Readable(version)   == \A i \in 1..Len(version) : version[i].text # "junk"
Unreadable(version) == \A i \in 1..Len(version) : version[i].text = "junk"

(* Nobody is told to upgrade without a version, or on a platform without a  *)
(* minimum; and of the versions that can be read exactly those are told     *)
(* that are older than the minimum, not one as new as that in fewer numbers *)
(* (Compare, Decide).                                                       *)
UpgradeDecision ==
    upgrade # NoDecision =>
        LET gated == /\ upgrade.platform \in {"ios", "iOS", "android"}
                     /\ upgrade.version # <<>> /\ upgrade.minimum # <<>>
        IN  /\ upgrade.forced => gated
            /\ Readable(upgrade.version) =>
                   (upgrade.forced <=> gated /\ Older(upgrade.version, upgrade.minimum))

(* What the comment of Decide says, and the contract of GetAppConfig: an    *)
(* unreadable version is never forced to upgrade.                           *)
UnreadableNeverForced == upgrade.forced => ~Unreadable(upgrade.version)
===============================================================================
