------------------------------ MODULE EdgeProofs ------------------------------
(***************************************************************************)
(* What is proved of Edge, for every path, header, version and number of   *)
(* proxies.  First the tables: which paths are public, whom the header     *)
(* names, which statuses an operation can end with.  Then the way of a     *)
(* request, in four parts that are inductive together, and at the end the  *)
(* order of versions.                                                      *)
(***************************************************************************)
EXTENDS Edge, SequenceTheorems, WellFoundedInduction, TLAPS

\* The segments that are words of a route.
Fixed == {"v1", "auth", "me", "app", "config", "healthz", "readyz", "openapi.json", "docs", "dev",
          "register", "login", "verify-email", "resend", "refresh", "logout", "providers",
          "start", "callback", "token", "identities", "unlink", "calculations"}

(* What the provers need of paths of up to five segments.                   *)
LEMMA Tuples ==
    ASSUME NEW S
    PROVE  \A a, b, c, d, e \in S :
              /\ <<a>> \in Seq(S) /\ Len(<<a>>) = 1
              /\ <<a, b>> \in Seq(S) /\ Len(<<a, b>>) = 2 /\ <<a, b>>[2] = b
              /\ <<a, b, c>> \in Seq(S) /\ Len(<<a, b, c>>) = 3 /\ <<a, b, c>>[2] = b
              /\ <<a, b, c, d>> \in Seq(S) /\ Len(<<a, b, c, d>>) = 4 /\ <<a, b, c, d>>[2] = b
              /\ <<a, b, c, d, e>> \in Seq(S) /\ Len(<<a, b, c, d, e>>) = 5
              /\ <<a, b, c, d, e>>[2] = b
OBVIOUS

(* A public path is made of words, and none begins like the paths of the    *)
(* handlers that need a user.                                               *)
LEMMA PublicPaths ==
    \A q \in publicPaths : /\ q \in Seq(Fixed) /\ Len(q) > 0
                           /\ Len(q) > 1 => q[2] \in {"auth", "app"}
<1> SUFFICES ASSUME NEW q \in publicPaths
             PROVE  /\ q \in Seq(Fixed) /\ Len(q) > 0
                    /\ Len(q) > 1 => q[2] \in {"auth", "app"}
  OBVIOUS
<1>1. {"v1", "auth", "app", "config", "healthz", "readyz", "openapi.json", "docs", "dev",
       "register", "login", "verify-email", "resend", "refresh", "logout", "providers"} \subseteq Fixed
  BY DEF Fixed
<1>2. CASE q \in {<<"healthz">>, <<"readyz">>, <<"openapi.json">>, <<"docs">>, <<"dev">>}
  <2>1. PICK a \in Fixed : q = <<a>>
    BY <1>1, <1>2
  <2> QED BY <2>1, Tuples
<1>3. CASE q \in {<<"v1", "auth", "register">>, <<"v1", "auth", "login">>,
     <<"v1", "auth", "verify-email">>, <<"v1", "auth", "refresh">>, <<"v1", "auth", "logout">>,
     <<"v1", "auth", "providers">>, <<"v1", "app", "config">>}
  <2>1. PICK a \in Fixed, b \in Fixed, c \in Fixed : q = <<a, b, c>> /\ b \in {"auth", "app"}
    BY <1>1, <1>3
  <2> QED BY <2>1, Tuples
<1>4. CASE q = <<"v1", "auth", "verify-email", "resend">>
  <2>1. PICK a \in Fixed, b \in Fixed, c \in Fixed, d \in Fixed : q = <<a, b, c, d>> /\ b = "auth"
    BY <1>1, <1>4
  <2> QED BY <2>1, Tuples
<1> QED BY <1>2, <1>3, <1>4 DEF publicPaths, Pages

(* The public patterns are all of sign-in.                                  *)
LEMMA PublicPatterns ==
    \A q \in publicPatterns : q \in Seq(Fixed \cup Wild) /\ Len(q) > 1 /\ q[2] = "auth"
<1> SUFFICES ASSUME NEW q \in publicPatterns
             PROVE  q \in Seq(Fixed \cup Wild) /\ Len(q) > 1 /\ q[2] = "auth"
  OBVIOUS
<1> DEFINE S == Fixed \cup Wild
<1>1. {"v1", "auth", "start", "callback", "token", "any provider"} \subseteq S
  BY DEF Fixed, Wild
<1> HIDE DEF S
<1>2. PICK a \in S, b \in S, c \in S, d \in S : q = <<a, b, c, d>> /\ b = "auth"
  BY <1>1 DEF publicPatterns
<1> QED BY <1>2, Tuples DEF S

(* Every open operation and every probe is served where the lists open it.  *)
LEMMA OpenRoutes ==
    \A o \in Open \cup Probes : Routes[o][2] \in publicPaths \cup publicPatterns
<1> SUFFICES ASSUME NEW o \in Open \cup Probes
             PROVE  Routes[o][2] \in publicPaths \cup publicPatterns
  OBVIOUS
<1> USE DEF Routes, Operation, System, Session, Registration, Provider, Own,
            publicPaths, publicPatterns
<1>1. CASE o \in Probes
  BY <1>1 DEF Probes
<1>2. CASE o \in {"RegisterUser", "LoginUser", "RefreshSession", "Logout", "ListProviders"}
  BY <1>2
<1>3. CASE o \in {"StartProviderSignIn", "CompleteProviderSignIn", "SignInWithProviderToken"}
  BY <1>3
<1>4. CASE o \in {"VerifyEmail", "ResendEmailVerification", "GetAppConfig"}
  BY <1>4
<1> QED BY <1>1, <1>2, <1>3, <1>4 DEF Open

(* The other operations are not served below /v1/auth or /v1/app.           *)
LEMMA OwnRoutes ==
    \A o \in Own : /\ Routes[o][2] \in Seq(Fixed \cup Wild) /\ Len(Routes[o][2]) > 1
                   /\ Routes[o][2][2] \in {"me", "calculations"}
<1> SUFFICES ASSUME NEW o \in Own
             PROVE  /\ Routes[o][2] \in Seq(Fixed \cup Wild) /\ Len(Routes[o][2]) > 1
                    /\ Routes[o][2][2] \in {"me", "calculations"}
  OBVIOUS
<1> DEFINE S == Fixed \cup Wild
           q == Routes[o][2]
<1>1. {"v1", "me", "identities", "unlink", "calculations", "any provider", "any id"} \subseteq S
  BY DEF Fixed, Wild
<1>2. q \in {<<"v1", "me">>, <<"v1", "calculations">>, <<"v1", "me", "identities">>,
             <<"v1", "me", "identities", "any provider">>,
             <<"v1", "me", "identities", "any id", "unlink">>}
  BY DEF Routes, Operation, System, Session, Registration, Provider, Own
<1> HIDE DEF S, q
<1>3. q \in Seq(S) /\ Len(q) > 1 /\ q[2] \in {"me", "calculations"}
  <2>1. CASE q \in {<<"v1", "me">>, <<"v1", "calculations">>}
    <3>1. PICK a \in S, b \in S : q = <<a, b>> /\ b \in {"me", "calculations"}
      BY <1>1, <2>1
    <3> QED BY <3>1, Tuples
  <2>2. CASE q = <<"v1", "me", "identities">>
    <3>1. PICK a \in S, b \in S, c \in S : q = <<a, b, c>> /\ b = "me"
      BY <1>1, <2>2
    <3> QED BY <3>1, Tuples
  <2>3. CASE q = <<"v1", "me", "identities", "any provider">>
    <3>1. PICK a \in S, b \in S, c \in S, d \in S : q = <<a, b, c, d>> /\ b = "me"
      BY <1>1, <2>3
    <3> QED BY <3>1, Tuples
  <2>4. CASE q = <<"v1", "me", "identities", "any id", "unlink">>
    <3>1. PICK a \in S, b \in S, c \in S, d \in S, e \in S : q = <<a, b, c, d, e>> /\ b = "me"
      BY <1>1, <2>4
    <3> QED BY <3>1, Tuples
  <2> QED BY <1>2, <2>1, <2>2, <2>3, <2>4
<1> QED BY <1>3 DEF S, q

(* A path that a route takes has no slash at its end to be dropped.         *)
LEMMA Kept ==
    ASSUME NEW S, NEW p \in Seq(S), NEW pattern \in Seq(Fixed \cup Wild), Len(pattern) > 0,
           Takes(pattern, p)
    PROVE  CleanPath(p) = p
<1>1. Blank \notin Fixed \cup Wild
  BY DEF Blank, Fixed, Wild
<1>2. pattern[Len(pattern)] # Blank
  BY <1>1
<1> QED BY <1>2 DEF Takes, CleanPath

(* A pattern without wild segments takes only itself.                       *)
LEMMA Literal ==
    ASSUME NEW S, NEW p \in Seq(S), NEW pattern \in Seq(Fixed), Takes(pattern, p)
    PROVE  p = pattern
<1>1. Fixed \cap Wild = {}
  BY DEF Fixed, Wild
<1>2. Len(p) = Len(pattern) /\ \A i \in 1..Len(p) : p[i] = pattern[i]
  BY <1>1 DEF Takes
<1> QED BY <1>2, SeqEqual

(* Nobody is asked for a token where an open operation is served ...        *)
LEMMA OpenIsPublic ==
    ASSUME NEW S, NEW p \in Seq(S), NEW o \in Open \cup Probes, Takes(Routes[o][2], p)
    PROVE  IsPublic(CleanPath(p))
<1> DEFINE pattern == Routes[o][2]
<1>1. pattern \in publicPaths \cup publicPatterns /\ Takes(pattern, p)
  BY OpenRoutes
<1> HIDE DEF pattern
<1>2. pattern \in publicPaths => pattern \in Seq(Fixed) /\ Len(pattern) > 0
  BY PublicPaths
<1>3. pattern \in Seq(Fixed \cup Wild) /\ Len(pattern) > 0
  BY <1>1, <1>2, PublicPatterns, SeqMonotonic
<1>4. CleanPath(p) = p
  BY <1>1, <1>3, Kept
<1> QED BY <1>1, <1>2, <1>4, Literal DEF IsPublic

(* ... and everybody is where another one is.                               *)
LEMMA OwnIsNotPublic ==
    ASSUME NEW S, NEW p \in Seq(S), NEW o \in Own, Takes(Routes[o][2], p)
    PROVE  ~IsPublic(CleanPath(p))
<1> DEFINE pattern == Routes[o][2]
<1>1. /\ Takes(pattern, p) /\ pattern \in Seq(Fixed \cup Wild)
      /\ Len(pattern) > 1 /\ pattern[2] \in {"me", "calculations"}
  BY OwnRoutes
<1> HIDE DEF pattern
<1>2. CleanPath(p) = p
  BY <1>1, Kept
<1>3. pattern[2] \notin Wild
  BY <1>1 DEF Wild
<1>4. Len(p) > 1 /\ p[2] \in {"me", "calculations"}
  BY <1>1, <1>3 DEF Takes
<1>5. p \notin publicPaths
  BY <1>4, PublicPaths
<1>6. ASSUME NEW q \in publicPatterns, Takes(q, p)
      PROVE  FALSE
  <2>1. Len(q) > 1 /\ q[2] = "auth" /\ "auth" \notin Wild
    BY PublicPatterns DEF Wild
  <2> QED BY <1>4, <1>6, <2>1 DEF Takes
<1> QED BY <1>2, <1>5, <1>6 DEF IsPublic

-------------------------------------------------------------------------------
(* The address.                                                            *)

(* Who a request is counted for: a proxy wrote it if there are at least as  *)
(* many proxies as hops, and the first proxy if there are as many.          *)
LEMMA Attributed ==
    ASSUME NEW written \in Seq({"lie", "blank"}), NEW hops \in Nat, NEW proxies \in Nat
    PROVE  LET ip == ClientIP(Forwarded(written, proxies),
                              IF proxies = 0 THEN "caller" ELSE "proxy", hops)
           IN  /\ ip \in {"caller", "proxy", "lie"}
               /\ hops <= proxies => ip # "lie"
               /\ hops = proxies => ip = "caller"
<1> DEFINE heard  == [i \in 1..proxies |-> IF i = 1 THEN "caller" ELSE "proxy"]
           header == Forwarded(written, proxies)
           remote == IF proxies = 0 THEN "caller" ELSE "proxy"
           place  == Len(header) + 1 - hops
           ip     == ClientIP(header, remote, hops)
           Entry  == {"caller", "proxy", "lie", "blank"}
<1>1. ip = IF hops > 0 /\ place \in 1..Len(header) /\ header[place] # "blank"
           THEN header[place] ELSE remote
  BY DEF ClientIP, Blank
<1>2. header = IF written \o heard = <<>> THEN <<"blank">> ELSE written \o heard
  BY DEF Forwarded, Blank
<1>3. /\ {"lie", "blank"} \subseteq Entry
      /\ \A s \in Entry : s # "blank" => s \in {"caller", "proxy", "lie"}
      /\ heard \in [1..proxies -> Entry]
      /\ <<"blank">> \in Seq(Entry)
  OBVIOUS
<1>4. \A i \in 1..proxies : heard[i] = IF i = 1 THEN "caller" ELSE "proxy"
  OBVIOUS
<1> HIDE DEF Entry, heard, header, ip
<1>5. /\ heard \in Seq(Entry) /\ Len(heard) = proxies
      /\ written \in Seq(Entry) /\ Len(written) \in Nat
  BY <1>3, SeqDef, SeqMonotonic, LenProperties
<1>6. /\ header \in Seq(Entry)
      /\ proxies > 0 =>
            /\ Len(header) = Len(written) + proxies
            /\ \A i \in 1..proxies : header[Len(written) + i] = heard[i]
  <2>1. /\ written \o heard \in Seq(Entry)
        /\ Len(written \o heard) = Len(written) + proxies
        /\ \A i \in 1..Len(written) + proxies :
              (written \o heard)[i] = IF i <= Len(written) THEN written[i]
                                      ELSE heard[i - Len(written)]
    BY <1>5, ConcatProperties
  <2>2. \A i \in 1..proxies : (written \o heard)[Len(written) + i] = heard[i]
    <3> TAKE i \in 1..proxies
    <3>1. /\ Len(written) + i \in 1..Len(written) + proxies
          /\ ~(Len(written) + i <= Len(written))
          /\ Len(written) + i - Len(written) = i
      BY <1>5
    <3> QED BY <3>1, <2>1
  <2>3. proxies > 0 => written \o heard # <<>>
    BY <2>1, <1>5, EmptySeq
  <2> QED BY <1>2, <1>3, <2>1, <2>2, <2>3
<1>7. place \in 1..Len(header) => header[place] \in Entry
  BY <1>6, ElementOfSeq
<1>8. ASSUME hops > 0, hops <= proxies
      PROVE  /\ place \in 1..Len(header)
             /\ header[place] = IF hops = proxies THEN "caller" ELSE "proxy"
  <2>1. /\ place = Len(written) + (proxies + 1 - hops) /\ proxies + 1 - hops \in 1..proxies
        /\ proxies > 0 /\ (proxies + 1 - hops = 1 <=> hops = proxies)
    <3>1. /\ proxies > 0 /\ proxies + 1 - hops \in 1..proxies
          /\ (proxies + 1 - hops = 1 <=> hops = proxies)
      BY <1>8
    <3>2. Len(header) = Len(written) + proxies
      BY <1>6, <3>1
    <3> QED BY <3>1, <3>2, <1>5
  <2>2. heard[proxies + 1 - hops] = IF hops = proxies THEN "caller" ELSE "proxy"
    BY <2>1, <1>4
  <2>3. header[Len(written) + (proxies + 1 - hops)] = heard[proxies + 1 - hops]
    BY <2>1, <1>6
  <2>4. place \in 1..Len(header)
    <3>1. Len(header) = Len(written) + proxies
      BY <2>1, <1>6
    <3> QED BY <3>1, <2>1, <1>5
  <2> QED BY <2>1, <2>2, <2>3, <2>4
<1> HIDE DEF place
<1>9. CASE hops = 0
  BY <1>1, <1>9 DEF ip, header
<1>10. CASE hops > 0
  <2>1. ip \in {"caller", "proxy", "lie"}
    BY <1>1, <1>3, <1>7
  <2>2. hops <= proxies => ip # "lie" /\ (hops = proxies => ip = "caller")
    BY <1>1, <1>8, <1>10
  <2>3. hops = proxies => hops <= proxies
    OBVIOUS
  <2> QED BY <2>1, <2>2, <2>3 DEF ip, header
<1> QED BY <1>9, <1>10

-------------------------------------------------------------------------------
(* The contract.                                                           *)

(* The tables of an operation are those of its family.                      *)
LEMMA Families ==
    ASSUME NEW o \in Operation
    PROVE  /\ o \in System => /\ Errors(o) = {} /\ Responses(o) = SystemResponses(o)
                              /\ Parameters(o) = SystemParameters(o) /\ Body(o) = "unread"
           /\ o \in Session => /\ Errors(o) = SessionErrors(o) /\ Responses(o) = SessionResponses(o)
                               /\ Parameters(o) = SessionParameters(o) /\ Body(o) = SessionBody(o)
           /\ o \in Registration =>
                 /\ Errors(o) = RegistrationErrors(o) /\ Responses(o) = RegistrationResponses(o)
                 /\ Parameters(o) = {} /\ Body(o) = "required"
           /\ o \in Provider =>
                 /\ Errors(o) = ProviderErrors(o) /\ Responses(o) = ProviderResponses(o)
                 /\ Parameters(o) = ProviderParameters(o) /\ Body(o) = ProviderBody(o)
           /\ o \in Own => /\ Errors(o) = OwnErrors(o) /\ Responses(o) = OwnResponses(o)
                           /\ Parameters(o) = OwnParameters(o) /\ Body(o) = OwnBody(o)
<1>1. /\ System \cap Session = {} /\ System \cap Registration = {} /\ System \cap Provider = {}
      /\ System \cap Own = {} /\ Session \cap Registration = {} /\ Session \cap Provider = {}
      /\ Session \cap Own = {} /\ Registration \cap Provider = {} /\ Registration \cap Own = {}
      /\ Provider \cap Own = {}
  BY DEF System, Session, Registration, Provider, Own
<1>2. CASE o \in System
  BY <1>1, <1>2 DEF Errors, Responses, Parameters, Body, SystemErrors, SystemBody
<1>3. CASE o \in Session
  BY <1>1, <1>3 DEF Errors, Responses, Parameters, Body
<1>4. CASE o \in Registration
  BY <1>1, <1>4 DEF Errors, Responses, Parameters, Body, RegistrationParameters, RegistrationBody
<1>5. CASE o \in Provider
  BY <1>1, <1>5 DEF Errors, Responses, Parameters, Body
<1>6. CASE o \in Own
  BY <1>1, <1>6 DEF Errors, Responses, Parameters, Body
<1> QED BY <1>2, <1>3, <1>4, <1>5, <1>6 DEF Operation

(* HTTPStatus, error by error.                                              *)
LEMMA Statuses ==
    /\ HTTPStatus("OAuthStateInvalid") = 400
    /\ \A e \in {"InvalidCredentials", "ProviderTokenInvalid", "RefreshInvalid"} :
          HTTPStatus(e) = 401
    /\ \A e \in {"EmailNotVerified", "ProviderEmailUnverified"} : HTTPStatus(e) = 403
    /\ \A e \in {"UserNotFound", "IdentityNotFound"} : HTTPStatus(e) = 404
    /\ \A e \in {"EmailTaken", "LinkNeedsVerifiedEmail", "IdentityAlreadyLinked",
                 "LastAuthMethod"} : HTTPStatus(e) = 409
    /\ HTTPStatus("TokenNotUsable") = 410
    /\ HTTPStatus("Validation") = 422 /\ HTTPStatus("Calculation") = 422
    /\ HTTPStatus("TooManyAttempts") = 429
    /\ HTTPStatus("Internal") = 500
    /\ HTTPStatus("ProviderNotConfigured") = 501
    /\ HTTPStatus("ProviderClaimsIncomplete") = 502
BY DEF HTTPStatus

(* What an operation may refuse or answer is in its contract, or listed.    *)
LEMMA Ends ==
    ASSUME NEW o \in Operation
    PROVE  /\ \A err \in Errors(o) :
                 HTTPStatus(err) \in Responses(o) \cup Unwritten(o) \cup {500}
           /\ Answers(o) \subseteq Responses(o)
           /\ Parameters(o) # {} \/ Body(o) # "unread" => 400 \in Responses(o) \cup Unwritten(o)
<1>1. CASE o \in System
  BY <1>1, Families DEF System, SystemResponses, SystemParameters, Answers, Unwritten
<1>2. CASE o \in Session
  <2>1. \A err \in SessionErrors(o) : HTTPStatus(err) \in SessionResponses(o) \cup {500}
    BY <1>2, Statuses DEF Session, SessionErrors, SessionResponses
  <2>2. Answers(o) \subseteq SessionResponses(o)
    BY <1>2 DEF Session, Answers, SessionResponses
  <2>3. SessionParameters(o) # {} \/ SessionBody(o) # "unread" =>
           400 \in SessionResponses(o) \cup Unwritten(o)
    BY <1>2 DEF Session, SessionParameters, SessionBody, SessionResponses, Unwritten
  <2> QED BY <1>2, <2>1, <2>2, <2>3, Families
<1>3. CASE o \in Registration
  <2>1. \A err \in RegistrationErrors(o) : HTTPStatus(err) \in RegistrationResponses(o) \cup {500}
    BY <1>3, Statuses DEF Registration, RegistrationErrors, RegistrationResponses
  <2>2. Answers(o) \subseteq RegistrationResponses(o) /\ 400 \in RegistrationResponses(o)
    BY <1>3 DEF Registration, Answers, RegistrationResponses
  <2> QED BY <1>3, <2>1, <2>2, Families
<1>4. CASE o \in Provider
  <2>1. \A err \in ProviderErrors(o) :
           HTTPStatus(err) \in ProviderResponses(o) \cup Unwritten(o) \cup {500}
    <3>1. CASE o = "StartProviderSignIn"
      BY <3>1, Statuses DEF ProviderErrors, ProviderResponses, Unwritten
    <3>2. CASE o = "CompleteProviderSignIn"
      BY <3>2, Statuses DEF ProviderErrors, ProviderResponses, Unwritten, ProviderTokenErrors,
                            ProviderSignInErrors
    <3>3. CASE o = "SignInWithProviderToken"
      BY <3>3, Statuses DEF ProviderErrors, ProviderResponses, Unwritten, ProviderTokenErrors,
                            ProviderSignInErrors
    <3> QED BY <1>4, <3>1, <3>2, <3>3 DEF Provider
  <2>2. Answers(o) \subseteq ProviderResponses(o)
    BY <1>4 DEF Provider, Answers, ProviderResponses
  <2>3. 400 \in ProviderResponses(o) \cup Unwritten(o)
    BY <1>4 DEF Provider, ProviderResponses, Unwritten
  <2> QED BY <1>4, <2>1, <2>2, <2>3, Families
<1>5. CASE o \in Own
  <2>1. \A err \in OwnErrors(o) : HTTPStatus(err) \in OwnResponses(o) \cup Unwritten(o) \cup {500}
    <3>1. CASE o \in {"GetMe", "ListIdentities"}
      BY <3>1, Statuses DEF OwnErrors, OwnResponses, Unwritten
    <3>2. CASE o = "UnlinkIdentity"
      BY <3>2, Statuses DEF OwnErrors, OwnResponses, Unwritten
    <3>3. CASE o = "LinkIdentity"
      BY <3>3, Statuses DEF OwnErrors, OwnResponses, Unwritten, ProviderTokenErrors
    <3>4. CASE o = "Calculate"
      <4>1. \A p, a, b : Calculate(p, a, b) \subseteq {"Calculation"}
        BY DEF Calculate, ParseOperand, Evaluate
      <4>2. OwnErrors(o) \subseteq {"Calculation"}
        BY <3>4, <4>1 DEF OwnErrors
      <4> QED BY <3>4, <4>2, Statuses DEF OwnResponses
    <3> QED BY <1>5, <3>1, <3>2, <3>3, <3>4 DEF Own
  <2>2. Answers(o) \subseteq OwnResponses(o)
    BY <1>5 DEF Own, Answers, OwnResponses
  <2>3. OwnParameters(o) # {} \/ OwnBody(o) # "unread" => 400 \in OwnResponses(o) \cup Unwritten(o)
    BY <1>5 DEF Own, OwnParameters, OwnBody, OwnResponses, Unwritten
  <2> QED BY <1>5, <2>1, <2>2, <2>3, Families
<1> QED BY <1>1, <1>2, <1>3, <1>4, <1>5 DEF Operation

-------------------------------------------------------------------------------
(* The request.                                                            *)

(* Statuses that handlers and errors can have.                              *)
LEMMA StatusRange ==
    /\ \A err : HTTPStatus(err) \in 400..599
    /\ \A o \in Operation : Answers(o) \subseteq {200, 201, 204, 302, 503}
BY DEF HTTPStatus, Answers

(* How far the request has come, and what has been sent by then.            *)
Order ==
    /\ at \in Layers \ {"encode"} => sent = 0
    /\ at \in {"cors", "validate", "limit", "allow", "authenticate", "route"} => op = "none"
    /\ at = "visit" => done
    /\ at = "encode" => op = "page" \/ (done /\ sent # 0)
    /\ done => at \in {"visit", "encode", "end", "logged"} /\ op \in Operation
    /\ done /\ sent # 0 =>
          sent \in {200, 201, 204, 302, 503} \/ panicked \/ op \in NamesAddress

(* The key of a request that is not attributed.                             *)
LEMMA NoKeyIs ==
    NoKey \in [ip : {"none", "caller", "proxy", "lie"}, hops : 0..MaxHops, proxies : 0..MaxHops]
BY EdgeAssumption DEF NoKey

(* A request that arrives is in order ...                                   *)
LEMMA InitOrder == Init => EdgeTypeOK /\ Order
<1> SUFFICES ASSUME Init PROVE EdgeTypeOK /\ Order
  OBVIOUS
<1>1. /\ config \subseteq Settings /\ method \in Methods /\ path \in Path
      /\ recorder \in [status : 200..599, written : {"no", "yes"}]
  BY DEF Init
<1>2. key \in [ip : {"none", "caller", "proxy", "lie"}, hops : 0..MaxHops, proxies : 0..MaxHops]
  BY NoKeyIs DEF Init
<1>3. at = "cors" /\ key = NoKey /\ token = "unread" /\ user = "none" /\ op = "none" 
      /\ sent = 0 /\ logged = 0
  BY DEF Init
<1>4. valid \in BOOLEAN /\ panicked \in BOOLEAN /\ done \in BOOLEAN /\ ~done
  BY DEF Init
<1> QED BY <1>1, <1>2, <1>3, <1>4 DEF EdgeTypeOK, Order, Layers

(* ... and stays so: what is sent is sent once, and by whoever ends it.     *)
LEMMA NextOrder == EdgeTypeOK /\ Order /\ [Next]_vars => EdgeTypeOK' /\ Order'
<1> SUFFICES ASSUME EdgeTypeOK, Order, [Next]_vars PROVE EdgeTypeOK' /\ Order'
  OBVIOUS
<1> USE DEF EdgeTypeOK, Order, Refuse, Pass, WriteHeader, Record, request, answer, Layers
<1>1. CASE CORS
  BY <1>1 DEF CORS
<1>2. CASE ValidateSpec
  <2>1. /\ valid' \in BOOLEAN /\ at' \in {"limit", "authenticate", "end"}
        /\ IF at' = "end" THEN Refuse(400) ELSE UNCHANGED answer
        /\ UNCHANGED <<request, key, token, user, op, upgrade, done, panicked, logged>>
        /\ at = "validate"
    BY <1>2 DEF ValidateSpec
  <2> QED BY <2>1
<1>3. CASE Attribute
  <2>1. PICK written \in Written, hops \in 0..MaxHops, proxies \in 0..MaxHops :
          key' = [ip |-> ClientIP(Forwarded(written, proxies),
                                  IF proxies = 0 THEN "caller" ELSE "proxy", hops),
                  hops |-> hops, proxies |-> proxies]
    BY <1>3 DEF Attribute
  <2>2. key' \in [ip : {"caller", "proxy", "lie"}, hops : 0..MaxHops, proxies : 0..MaxHops]
    <3>1. written \in Seq({"lie", "blank"}) /\ hops \in Nat /\ proxies \in Nat
      BY EdgeAssumption
    <3> QED BY <2>1, <3>1, Attributed
  <2>3. key' # NoKey
    BY <2>2 DEF NoKey
  <2> QED BY <1>3, <2>2, <2>3 DEF Attribute
<1>4. CASE RateLimit
  BY <1>4, NoKeyIs DEF RateLimit
<1>5. CASE Authenticate
  BY <1>5 DEF Authenticate
<1>6. CASE ServeHTTP
  BY <1>6 DEF ServeHTTP, Served
<1>7. CASE Bind
  BY <1>7 DEF Bind
<1>8. CASE Decode
  BY <1>8 DEF Decode
<1>9. CASE Handle
  <2>1. /\ at = "handle" /\ at' \in {"visit", "end"}
        /\ UNCHANGED <<request, key, token, user, op, valid, panicked, logged>>
    BY <1>9 DEF Handle
  <2>2. CASE at' = "visit"
    <3>1. done' = TRUE /\ UNCHANGED answer
      BY <1>9, <2>2 DEF Handle
    <3> QED BY <2>1, <2>2, <3>1
  <2>3. CASE at' = "end"
    <3>1. done' = done /\ \E status \in 400..599 : WriteHeader(status)
      BY <1>9, <2>3, StatusRange DEF Handle
    <3> QED BY <2>1, <2>3, <3>1
  <2> QED BY <2>1, <2>2, <2>3
<1>10. CASE Visit
  <2>1. /\ at = "visit" /\ at' \in {"encode", "end"} /\ op \in Operation
        /\ UNCHANGED <<request, key, token, user, op, valid, done, panicked, logged>>
    BY <1>10 DEF Visit
  <2>2. \E status \in {200, 201, 204, 302, 500, 503} :
           /\ WriteHeader(status)
           /\ status = 500 => op \in NamesAddress /\ at' = "end"
    BY <1>10, <2>1, StatusRange DEF Visit
  <2>3. PICK status \in {200, 201, 204, 302, 500, 503} :
           /\ WriteHeader(status)
           /\ status = 500 => op \in NamesAddress /\ at' = "end"
    BY <2>2
  <2>4. sent' = status /\ status \in 200..599
    BY <2>1, <2>3
  <2>5. recorder' \in [status : 200..599, written : {"no", "yes"}]
    BY <2>3, <2>4
  <2>6. EdgeTypeOK'
    BY <2>1, <2>4, <2>5
  <2> QED BY <2>1, <2>3, <2>4, <2>6
<1>11. CASE Encode
  BY <1>11 DEF Encode, WriteBody
<1>12. CASE Recover
  BY <1>12, NoKeyIs DEF Recover
<1>13. CASE Log
  BY <1>13 DEF Log
<1>14. CASE UNCHANGED vars
  BY <1>14 DEF vars
<1> QED BY <1>1, <1>2, <1>3, <1>4, <1>5, <1>6, <1>7, <1>8, <1>9, <1>10, <1>11, <1>12, <1>13,
           <1>14 DEF Next, Over

(* What the recorder of a request that is logged holds.                     *)
Recording ==
    /\ ~Quiet => recorder = IF sent = 0 THEN [status |-> 200, written |-> "no"]
                            ELSE [status |-> sent, written |-> "yes"]
    /\ at = "logged" => Quiet \/ logged = sent

(* The recorder sees what net/http sends.                                   *)
LEMMA Recorded ==
    ASSUME NEW status \in 200..599, WriteHeader(status), UNCHANGED path, Recording, EdgeTypeOK,
           at # "logged", at' # "logged"
    PROVE  Recording'
BY DEF WriteHeader, Record, Recording, EdgeTypeOK, Quiet

(* It does so in every step, and Log reads it.                              *)
LEMMA NextRecording == EdgeTypeOK /\ Order /\ Recording /\ [Next]_vars => Recording'
<1> SUFFICES ASSUME EdgeTypeOK, Order, Recording, [Next]_vars PROVE Recording'
  OBVIOUS
<1>1. ASSUME UNCHANGED <<answer, path>>, at' # "logged"
      PROVE  Recording'
  BY <1>1 DEF Recording, answer, Quiet
<1>2. ASSUME NEW status \in 200..599, Refuse(status), UNCHANGED path, at # "logged"
      PROVE  Recording'
  BY <1>2, Recorded DEF Refuse
<1>3. CASE Next /\ at \notin {"visit", "encode", "end", "logged"}
  <2>1. /\ UNCHANGED path /\ at' # "logged"
        /\ UNCHANGED answer \/ \E status \in 200..599 : Refuse(status)
    <3>1. CASE CORS \/ ValidateSpec \/ Attribute \/ RateLimit \/ Authenticate
      BY <3>1 DEF CORS, ValidateSpec, Attribute, RateLimit, Authenticate, Pass, request, Refuse
    <3>2. CASE ServeHTTP \/ Bind \/ Decode \/ Recover
      BY <3>2 DEF ServeHTTP, Bind, Decode, Recover, Pass, request, Refuse
    <3>3. CASE Handle
      BY <3>3, StatusRange DEF Handle, Pass, request, Refuse
    <3> QED BY <1>3, <3>1, <3>2, <3>3 DEF Next, Over, Visit, Encode, Log
  <2> QED BY <1>1, <1>2, <1>3, <2>1
<1>4. CASE Visit
  <2>1. op \in Operation
    BY <1>4 DEF Visit, EdgeTypeOK
  <2>2. /\ at = "visit" /\ at' \in {"end", "encode"} /\ UNCHANGED path
        /\ \E status \in 200..599 : WriteHeader(status)
    BY <1>4, <2>1, StatusRange DEF Visit, Refuse, request
  <2> QED BY <2>2, Recorded
<1>5. CASE Encode
  <2>1. CASE Refuse(500)
    BY <1>2, <1>5, <2>1 DEF Encode, request
  <2>2. CASE WriteBody /\ at' = "end"
    BY <1>5, <2>2 DEF Encode, WriteBody, Recording, Quiet, request
  <2> QED BY <1>5, <2>1, <2>2 DEF Encode
<1>6. CASE Recover
  BY <1>2, <1>6 DEF Recover, request, Layers
<1>7. CASE Log
  <2>1. sent # 0 /\ sent' = sent /\ UNCHANGED <<path, recorder>> /\ (Quiet \/ logged' = recorder.status)
    BY <1>7 DEF Log, EdgeTypeOK, request
  <2> QED BY <2>1 DEF Recording, Quiet
<1>8. CASE UNCHANGED vars
  BY <1>8 DEF vars, request, answer, Recording, Quiet
<1> QED BY <1>3, <1>4, <1>5, <1>6, <1>7, <1>8 DEF Next, Over, CORS, ValidateSpec, Attribute,
           RateLimit, Authenticate, ServeHTTP, Bind, Decode, Handle

(* Whoever is past Authenticate.                                            *)
Shown ==
    /\ at \in {"cors", "validate", "limit", "allow", "authenticate"} =>
          token = "unread" /\ user = "none"
    /\ token # "unread" => ~IsPublic(CleanPath(path))
    /\ at = "route" \/ op \in Operation =>
          IsPublic(CleanPath(path)) \/ (token = "good" /\ user = "subject")
    /\ op \in Operation => Takes(Routes[op][2], path)
    /\ token \notin {"unread", "good"} => at \in {"end", "logged"} /\ op = "none" /\ sent = 401

(* Nobody has shown anything at first ...                                   *)
LEMMA InitShown == Init => Shown
BY DEF Init, Shown, Operation, System, Session, Registration, Provider, Own

(* ... and only Authenticate lets a request on, if its path is public or    *)
(* its token good.                                                          *)
LEMMA NextShown == EdgeTypeOK /\ Order /\ Shown /\ [Next]_vars => Shown'
<1> SUFFICES ASSUME EdgeTypeOK, Order, Shown, [Next]_vars PROVE Shown'
  OBVIOUS
<1>0. "none" \notin Operation /\ "page" \notin Operation
  BY DEF Operation, System, Session, Registration, Provider, Own
<1>1. ASSUME UNCHANGED <<path, token, user, op>>, at \notin {"end", "logged"},
             at' \notin {"cors", "route"}, at' = "authenticate" => token = "unread" /\ user = "none",
             at' \in {"validate", "limit", "allow"} => token = "unread" /\ user = "none"
      PROVE  Shown'
  BY <1>1 DEF Shown
<1>2. CASE CORS \/ ValidateSpec \/ Attribute \/ RateLimit
  <2>1. /\ UNCHANGED <<path, token, user, op>> /\ at \in {"cors", "validate", "limit", "allow"}
        /\ at' \in {"validate", "limit", "allow", "authenticate", "end"}
    BY <1>2 DEF CORS, ValidateSpec, Attribute, RateLimit, Pass, Refuse, request
  <2> QED BY <2>1, <1>1 DEF Shown
<1>3. CASE Authenticate
  <2>1. CASE IsPublic(CleanPath(path))
    BY <1>3, <2>1, <1>0 DEF Authenticate, Pass, Shown, request, Order
  <2>2. CASE ~IsPublic(CleanPath(path)) /\ Verify(token')
    BY <1>3, <2>2, <1>0 DEF Authenticate, Pass, Shown, request, Verify, Order
  <2>3. CASE ~IsPublic(CleanPath(path)) /\ ~Verify(token')
    BY <1>3, <2>3, <1>0 DEF Authenticate, Refuse, WriteHeader, Shown, request, Verify, Order, Layers
  <2> QED BY <2>1, <2>2, <2>3
<1>4. CASE ServeHTTP
  <2>1. at = "route" /\ UNCHANGED <<path, token, user>> /\ at' \in {"bind", "encode", "end"}
    BY <1>4 DEF ServeHTTP, Pass, Refuse, request
  <2>2. op' = op \/ op' = "page" \/ (op' \in Operation /\ Takes(Routes[op'][2], path))
    BY <1>4 DEF ServeHTTP, Served
  <2> QED BY <2>1, <2>2, <1>0 DEF Shown, Order
<1>5. CASE Bind \/ Decode \/ Handle \/ Visit \/ Encode \/ Recover
  <2>1. /\ UNCHANGED <<path, token, user, op>> /\ at \notin {"end", "logged"}
        /\ at' \in {"decode", "handle", "visit", "encode", "end"}
    BY <1>5 DEF Bind, Decode, Handle, Visit, Encode, Recover, Pass, Refuse, request, Layers
  <2> QED BY <2>1, <1>1
<1>6. CASE Log
  BY <1>6 DEF Log, Shown, request, EdgeTypeOK
<1>7. CASE UNCHANGED vars
  BY <1>7 DEF vars, request, answer, Shown
<1> QED BY <1>2, <1>3, <1>4, <1>5, <1>6, <1>7 DEF Next, Over

(* All of it is inductive together.                                         *)
IInv == EdgeTypeOK /\ Order /\ Recording /\ Shown /\ Contract

(* Every step that answers an operation answers as its tables say.          *)
LEMMA NextContract == EdgeTypeOK /\ Order /\ Contract /\ [Next]_vars => Contract'
<1> SUFFICES ASSUME EdgeTypeOK, Order, Contract, [Next]_vars PROVE Contract'
  OBVIOUS
<1> DEFINE Mine(o) == Responses(o) \cup Unwritten(o) \cup {500}
<1>0. "none" \notin Operation /\ "page" \notin Operation
  BY DEF Operation, System, Session, Registration, Provider, Own
<1>1. ASSUME UNCHANGED op, sent' = sent \/ sent' = 500 \/ (op \in Operation => sent' \in Mine(op))
      PROVE  Contract'
  BY <1>1 DEF Contract
<1>2. CASE CORS \/ ValidateSpec \/ Attribute \/ RateLimit \/ Authenticate
  <2>1. UNCHANGED op /\ op = "none"
    BY <1>2 DEF CORS, ValidateSpec, Attribute, RateLimit, Authenticate, Order
  <2> QED BY <2>1, <1>0, <1>1
<1>3. CASE ServeHTTP
  <2>1. (op' = op /\ op = "none") \/ UNCHANGED answer
    BY <1>3 DEF ServeHTTP, Pass, Order
  <2>2. sent = 0
    BY <1>3 DEF ServeHTTP, Order, Layers
  <2> QED BY <2>1, <2>2, <1>0 DEF Contract, answer
<1>4. CASE Bind
  <2>1. op \in Operation /\ UNCHANGED op
    BY <1>4 DEF Bind, EdgeTypeOK
  <2>2. CASE Parameters(op) # {} /\ Refuse(400)
    <3>1. 400 \in Mine(op)
      BY <2>1, <2>2, Ends
    <3> QED BY <2>1, <2>2, <3>1, <1>1 DEF Refuse, WriteHeader
  <2>3. CASE UNCHANGED answer
    BY <2>1, <2>3, <1>1 DEF answer
  <2> QED BY <1>4, <2>2, <2>3 DEF Bind, Pass
<1>5. CASE Decode
  <2>1. op \in Operation /\ UNCHANGED op
    BY <1>5 DEF Decode, EdgeTypeOK
  <2>2. CASE Body(op) # "unread" /\ Refuse(400)
    <3>1. 400 \in Mine(op)
      BY <2>1, <2>2, Ends
    <3> QED BY <2>1, <2>2, <3>1, <1>1 DEF Refuse, WriteHeader
  <2>3. CASE UNCHANGED answer
    BY <2>1, <2>3, <1>1 DEF answer
  <2> QED BY <1>5, <2>2, <2>3 DEF Decode, Pass
<1>6. CASE Handle
  <2>1. op \in Operation /\ UNCHANGED op
    BY <1>6 DEF Handle, EdgeTypeOK
  <2>2. \/ UNCHANGED answer \/ Refuse(500)
        \/ \E err \in Errors(op) : Refuse(HTTPStatus(err))
    BY <1>6 DEF Handle, Pass
  <2>3. ASSUME NEW err \in Errors(op), Refuse(HTTPStatus(err))
        PROVE  Contract'
    <3>1. HTTPStatus(err) \in Mine(op)
      BY <2>1, Ends
    <3> QED BY <2>1, <2>3, <3>1, <1>1 DEF Refuse, WriteHeader
  <2>4. CASE UNCHANGED answer \/ Refuse(500)
    BY <2>1, <2>4, <1>1 DEF answer, Refuse, WriteHeader
  <2> QED BY <2>2, <2>3, <2>4
<1>7. CASE Visit
  <2>1. op \in Operation /\ UNCHANGED op
    BY <1>7 DEF Visit, EdgeTypeOK
  <2>2. Refuse(500) \/ \E status \in Answers(op) : WriteHeader(status)
    BY <1>7 DEF Visit
  <2>3. Answers(op) \subseteq Mine(op)
    BY <2>1, Ends
  <2> QED BY <2>1, <2>2, <2>3, <1>1 DEF Refuse, WriteHeader
<1>8. CASE Encode
  <2>1. (UNCHANGED op /\ op = "page") \/ UNCHANGED <<op, sent>>
    BY <1>8 DEF Encode, Order, WriteBody, Refuse, WriteHeader
  <2> QED BY <2>1, <1>0, <1>1
<1>9. CASE Recover
  BY <1>9, <1>1 DEF Recover, Refuse, WriteHeader
<1>10. CASE Log
  BY <1>10, <1>1 DEF Log, EdgeTypeOK
<1>11. CASE UNCHANGED vars
  BY <1>11, <1>1 DEF vars, answer
<1> QED BY <1>2, <1>3, <1>4, <1>5, <1>6, <1>7, <1>8, <1>9, <1>10, <1>11 DEF Next, Over

(* The invariant.                                                           *)
LEMMA Inductive == Spec => []IInv
<1>1. Init => IInv
  BY InitOrder, InitShown DEF IInv, Init, Recording, Contract
<1>2. IInv /\ [Next]_vars => IInv'
  BY NextOrder, NextRecording, NextShown, NextContract DEF IInv
<1> QED BY <1>1, <1>2, PTL DEF Spec

(* EdgeTypeOK: every layer leaves the request as the next one expects it.   *)
THEOREM TypeSafe == Spec => []EdgeTypeOK
<1>1. IInv => EdgeTypeOK
  BY DEF IInv
<1> QED BY <1>1, Inductive, PTL

(* HonestAnswer: the line in the log has the status the client got, and     *)
(* what was carried out is not answered as a failure.                       *)
THEOREM Honest == Spec => []HonestAnswer
<1>1. IInv => HonestAnswer
  <2> SUFFICES ASSUME IInv PROVE HonestAnswer
    OBVIOUS
  <2>1. at = "logged" => Quiet \/ logged = sent
    BY DEF IInv, Recording
  <2>2. done /\ sent >= 400 /\ sent # 503 => panicked \/ op \in NamesAddress
    BY DEF IInv, Order
  <2> QED BY <2>1, <2>2 DEF HonestAnswer
<1> QED BY <1>1, Inductive, PTL

(* UserFromToken: for every path, whatever its segments, the lists of       *)
(* public paths and the routes agree.                                       *)
THEOREM Known == Spec => []UserFromToken
<1>1. IInv => UserFromToken
  <2> SUFFICES ASSUME IInv PROVE UserFromToken
    OBVIOUS
  <2>1. PICK S : path \in Seq(S)
    BY EdgeAssumption DEF IInv, EdgeTypeOK
  <2>2. ASSUME op \in Operation \ (Open \cup Probes)
        PROVE  token = "good" /\ user = "subject"
    <3>1. op \in Own
      BY <2>2 DEF Operation, System, Session, Registration, Provider, Open, Probes
    <3>2. ~IsPublic(CleanPath(path))
      BY <2>1, <2>2, <3>1, OwnIsNotPublic DEF IInv, Shown
    <3> QED BY <2>2, <3>2 DEF IInv, Shown
  <2>3. ASSUME token # "unread", NEW o \in Open \cup Probes, o \in Served(path)
        PROVE  FALSE
    BY <2>1, <2>3, OpenIsPublic DEF IInv, Shown, Served
  <2>4. token \notin {"unread", "good"} => op = "none" /\ sent = 401
    BY DEF IInv, Shown
  <2> QED BY <2>2, <2>3, <2>4 DEF UserFromToken
<1> QED BY <1>1, Inductive, PTL

(* CountedForCaller: for every header and any number of proxies and hops.   *)
THEOREM Counted == Spec => []CountedForCaller
<1>1. Init => CountedForCaller
  BY DEF Init, CountedForCaller
<1>2. EdgeTypeOK /\ CountedForCaller /\ [Next]_vars => CountedForCaller'
  <2> SUFFICES ASSUME EdgeTypeOK, CountedForCaller, [Next]_vars PROVE CountedForCaller'
    OBVIOUS
  <2>1. CASE Attribute
    <3>1. PICK written \in Written, hops \in 0..MaxHops, proxies \in 0..MaxHops :
            key' = [ip |-> ClientIP(Forwarded(written, proxies),
                                    IF proxies = 0 THEN "caller" ELSE "proxy", hops),
                    hops |-> hops, proxies |-> proxies]
      BY <2>1 DEF Attribute
    <3>2. written \in Seq({"lie", "blank"}) /\ hops \in Nat /\ proxies \in Nat
      BY EdgeAssumption
    <3>3. /\ hops <= proxies => key'.ip # "lie"
          /\ hops = proxies => key'.ip = "caller"
      BY <3>1, <3>2, Attributed
    <3>4. key'.hops = hops /\ key'.proxies = proxies
      BY <3>1
    <3> QED BY <3>3, <3>4 DEF CountedForCaller
  <2>2. CASE Next /\ ~Attribute
    <3>1. at' # "allow"
      BY <2>2 DEF Next, CORS, ValidateSpec, RateLimit, Authenticate, ServeHTTP, Bind, Decode, Handle,
                  Visit, Encode, Recover, Log, Over, Pass, Refuse, vars
    <3> QED BY <3>1 DEF CountedForCaller
  <2>3. CASE UNCHANGED vars
    BY <2>3 DEF vars, CountedForCaller
  <2> QED BY <2>1, <2>2, <2>3
<1> QED BY <1>1, <1>2, TypeSafe, PTL DEF Spec

(* Contract: no operation answers with a status that is neither in the      *)
(* contract nor in the list of those it lacks.                              *)
THEOREM InContract == Spec => []Contract
<1>1. IInv => Contract
  BY DEF IInv
<1> QED BY <1>1, Inductive, PTL

-------------------------------------------------------------------------------
(* Versions, of any length.                                                *)

\* What CHOOSE finds in Compare.
LEMMA Least ==
    ASSUME NEW S \in SUBSET Nat, S # {}
    PROVE  \E i \in S : \A j \in S : i <= j
<1> DEFINE R == OpToRel(<, Nat)
<1>1. IsWellFoundedOn(R, Nat)
  BY NatLessThanWellFounded
<1>2. \A x, y \in Nat : y < x => <<y, x>> \in R
  BY DEF OpToRel
<1> HIDE DEF R
<1>3. PICK i \in S : \A y \in S : ~(<<y, i>> \in R)
  BY <1>1, WFMin
<1>4. \A j \in S : ~(j < i)
  BY <1>2, <1>3, Zenon
<1> QED BY <1>4, SMT

\* A number is one, and is zero beyond the end.
LEMMA Numbers ==
    ASSUME NEW a \in Seq(Component)
    PROVE  /\ Len(a) \in Nat
           /\ \A i \in Nat \ {0} : NumberOf(a, i) \in Nat /\ (i > Len(a) => NumberOf(a, i) = 0)
<1>1. Len(a) \in Nat /\ \A i \in 1..Len(a) : a[i] \in Component
  OBVIOUS
<1>2. ASSUME NEW i \in Nat \ {0}
      PROVE  NumberOf(a, i) \in Nat /\ (i > Len(a) => NumberOf(a, i) = 0)
  <2>1. CASE i > Len(a)
    BY <2>1 DEF NumberOf
  <2>2. CASE i <= Len(a)
    <3>1. i \in 1..Len(a)
      BY <1>1, <2>2
    <3>2. a[i].number \in Nat
      BY <1>1, <3>1, EdgeAssumption DEF Component
    <3> QED BY <1>1, <2>2, <3>2 DEF NumberOf
  <2> QED BY <1>1, <2>1, <2>2
<1> QED BY <1>1, <1>2

\* Builds that no number tells apart.
Alike(a, b) == \A i \in Nat \ {0} : NumberOf(a, i) = NumberOf(b, i)

\* Beyond the longer version there is nothing to compare.
LEMMA OlderSomewhere ==
    ASSUME NEW a \in Seq(Component), NEW b \in Seq(Component), NEW i \in Nat \ {0},
           OlderAt(a, b, i)
    PROVE  i <= Len(b) /\ Older(a, b)
<1>1. i <= Len(b)
  BY Numbers DEF OlderAt
<1>2. i \in 1..(Len(a) + Len(b))
  BY <1>1, Numbers
<1> QED BY <1>1, <1>2 DEF Older

\* Compare finds the first difference, if there is one.
LEMMA FirstDifference ==
    ASSUME NEW a \in Seq(Component), NEW b \in Seq(Component)
    PROVE  \/ Compare(a, b) = 0 /\ Alike(a, b)
           \/ \E i \in Nat \ {0} :
                 /\ Compare(a, b) = NumberOf(a, i) - NumberOf(b, i)
                 /\ NumberOf(a, i) # NumberOf(b, i)
                 /\ \A j \in 1..(i - 1) : NumberOf(a, j) = NumberOf(b, j)
<1> DEFINE differ == {i \in 1..Longest(a, b) : NumberOf(a, i) # NumberOf(b, i)}
<1>1. /\ Longest(a, b) \in Nat /\ Longest(a, b) >= Len(a) /\ Longest(a, b) >= Len(b)
  BY Numbers DEF Longest
<1>2. differ \in SUBSET Nat
  BY <1>1
<1>3. CASE differ = {}
  <2>1. Compare(a, b) = 0
    BY <1>3 DEF Compare
  <2>2. ASSUME NEW i \in Nat \ {0} PROVE NumberOf(a, i) = NumberOf(b, i)
    <3>1. CASE i <= Longest(a, b)
      BY <1>1, <1>3, <3>1
    <3>2. CASE i > Longest(a, b)
      BY <1>1, <3>2, Numbers
    <3> QED BY <1>1, <3>1, <3>2
  <2> QED BY <2>1, <2>2 DEF Alike
<1>4. CASE differ # {}
  <2> DEFINE first == CHOOSE i \in differ : \A j \in differ : i <= j
  <2>1. first \in differ /\ \A j \in differ : first <= j
    <3>1. \E i \in differ : \A j \in differ : i <= j
      BY <1>2, <1>4, Least
    <3> QED BY <3>1
  <2>2. Compare(a, b) = NumberOf(a, first) - NumberOf(b, first)
    BY <1>4 DEF Compare
  <2>3. ASSUME NEW j \in 1..(first - 1) PROVE NumberOf(a, j) = NumberOf(b, j)
    <3>1. j \in 1..Longest(a, b) /\ ~(first <= j)
      BY <1>1, <2>1
    <3> QED BY <2>1, <3>1
  <2> HIDE DEF first
  <2> QED BY <1>1, <2>1, <2>2, <2>3
<1> QED BY <1>3, <1>4

\* Compare is the order of versions, whatever their lengths.
LEMMA CompareIsOlder ==
    ASSUME NEW a \in Seq(Component), NEW b \in Seq(Component)
    PROVE  /\ Compare(a, b) \in Int
           /\ Compare(a, b) < 0 <=> Older(a, b)
           /\ Compare(a, b) > 0 <=> Older(b, a)
           /\ Compare(a, b) = 0 <=> Alike(a, b)
<1> USE Numbers
<1>1. ASSUME Alike(a, b) PROVE ~Older(a, b) /\ ~Older(b, a)
  BY <1>1 DEF Alike, Older, OlderAt
<1>2. ASSUME NEW x \in Seq(Component), NEW y \in Seq(Component), Older(x, y)
      PROVE  ~Alike(x, y) /\ ~Older(y, x)
  <2>1. PICK i \in Nat \ {0} : OlderAt(x, y, i)
    BY <1>2 DEF Older
  <2>2. ASSUME NEW j \in Nat \ {0}, OlderAt(y, x, j) PROVE FALSE
    <3>1. CASE i = j
      BY <2>1, <2>2, <3>1 DEF OlderAt
    <3>2. CASE i < j
      BY <2>1, <2>2, <3>2 DEF OlderAt
    <3>3. CASE j < i
      BY <2>1, <2>2, <3>3 DEF OlderAt
    <3> QED BY <3>1, <3>2, <3>3
  <2>3. ~Alike(x, y)
    BY <2>1 DEF Alike, OlderAt
  <2>4. \A j \in 1..(Len(y) + Len(x)) : j \in Nat \ {0}
    OBVIOUS
  <2> QED BY <2>2, <2>3, <2>4 DEF Older
<1>3. CASE Compare(a, b) = 0 /\ Alike(a, b)
  BY <1>1, <1>3
<1>4. ASSUME NEW i \in Nat \ {0},
             Compare(a, b) = NumberOf(a, i) - NumberOf(b, i),
             NumberOf(a, i) # NumberOf(b, i),
             \A j \in 1..(i - 1) : NumberOf(a, j) = NumberOf(b, j)
      PROVE  /\ Compare(a, b) < 0 <=> Older(a, b)
             /\ Compare(a, b) > 0 <=> Older(b, a)
             /\ Compare(a, b) = 0 <=> Alike(a, b)
  <2>1. CASE NumberOf(a, i) < NumberOf(b, i)
    <3>1. Older(a, b)
      BY <1>4, <2>1, OlderSomewhere DEF OlderAt
    <3>2. ~Alike(a, b) /\ ~Older(b, a)
      BY <1>2, <3>1
    <3> QED BY <1>4, <2>1, <3>1, <3>2
  <2>2. CASE NumberOf(b, i) < NumberOf(a, i)
    <3>1. Older(b, a)
      BY <1>4, <2>2, OlderSomewhere DEF OlderAt
    <3>2. ~Alike(b, a) /\ ~Older(a, b)
      BY <1>2, <3>1
    <3>3. ~Alike(a, b)
      BY <3>2 DEF Alike
    <3> QED BY <1>4, <2>2, <3>1, <3>2, <3>3
  <2> QED BY <1>4, <2>1, <2>2
<1>5. Compare(a, b) \in Int
  BY FirstDifference
<1> QED BY <1>3, <1>4, <1>5, FirstDifference

\* An older one of two versions that are alike, or of two in order, is older.
LEMMA OlderThanOlder ==
    ASSUME NEW a \in Seq(Component), NEW b \in Seq(Component), NEW c \in Seq(Component)
    PROVE  /\ Alike(a, b) /\ Older(b, c) => Older(a, c)
           /\ Older(a, b) /\ Alike(b, c) => Older(a, c)
           /\ Older(a, b) /\ Older(b, c) => Older(a, c)
<1> USE Numbers
<1>1. ASSUME Alike(a, b), Older(b, c) PROVE Older(a, c)
  <2>1. PICK i \in Nat \ {0} : OlderAt(b, c, i)
    BY <1>1 DEF Older
  <2>2. OlderAt(a, c, i)
    BY <1>1, <2>1 DEF OlderAt, Alike
  <2> QED BY <2>2, OlderSomewhere
<1>2. ASSUME Older(a, b), Alike(b, c) PROVE Older(a, c)
  <2>1. PICK i \in Nat \ {0} : OlderAt(a, b, i)
    BY <1>2 DEF Older
  <2>2. OlderAt(a, c, i)
    BY <1>2, <2>1 DEF OlderAt, Alike
  <2> QED BY <2>2, OlderSomewhere
<1>3. ASSUME Older(a, b), Older(b, c) PROVE Older(a, c)
  <2>1. PICK i \in Nat \ {0} : OlderAt(a, b, i)
    BY <1>3 DEF Older
  <2>2. PICK j \in Nat \ {0} : OlderAt(b, c, j)
    BY <1>3 DEF Older
  <2>3. CASE i <= j
    <3>1. NumberOf(b, i) <= NumberOf(c, i)
      <4>1. i = j \/ i \in 1..(j - 1)
        BY <2>3
      <4>2. NumberOf(b, i) < NumberOf(c, i) \/ NumberOf(b, i) = NumberOf(c, i)
        BY <2>2, <4>1 DEF OlderAt
      <4>3. NumberOf(b, i) \in Nat /\ NumberOf(c, i) \in Nat
        OBVIOUS
      <4> QED BY <4>2, <4>3
    <3>2. NumberOf(a, i) < NumberOf(c, i)
      BY <2>1, <3>1 DEF OlderAt
    <3>3. \A k \in 1..(i - 1) : NumberOf(a, k) = NumberOf(c, k)
      BY <2>1, <2>2, <2>3 DEF OlderAt
    <3> QED BY <3>2, <3>3, OlderSomewhere DEF OlderAt
  <2>4. CASE j < i
    <3>1. OlderAt(a, c, j)
      BY <2>1, <2>2, <2>4 DEF OlderAt
    <3> QED BY <3>1, OlderSomewhere
  <2> QED BY <2>3, <2>4
<1> QED BY <1>1, <1>2, <1>3

(* Compare is a preorder on versions of any length that tells any two       *)
(* apart that differ in a number, and no others: "1.2" and "1.2.0" are the  *)
(* same build, and so are a build and its beta.                             *)
THEOREM VersionsAreOrdered ==
    ASSUME NEW a \in Seq(Component), NEW b \in Seq(Component), NEW c \in Seq(Component)
    PROVE  /\ Compare(a, b) < 0 <=> Compare(b, a) > 0
           /\ Compare(a, b) <= 0 /\ Compare(b, c) <= 0 => Compare(a, c) <= 0
           /\ Compare(a, b) = 0 <=> \A i \in Nat \ {0} : NumberOf(a, i) = NumberOf(b, i)
<1>1. /\ Compare(a, b) \in Int /\ Compare(b, c) \in Int
      /\ Compare(b, a) \in Int /\ Compare(a, c) \in Int
  BY CompareIsOlder
<1>2. Alike(a, b) /\ Alike(b, c) => Alike(a, c)
  BY DEF Alike
<1>3. Compare(a, b) <= 0 /\ Compare(b, c) <= 0 => Compare(a, c) <= 0
  BY <1>1, <1>2, CompareIsOlder, OlderThanOlder
<1>4. Compare(a, b) = 0 <=> \A i \in Nat \ {0} : NumberOf(a, i) = NumberOf(b, i)
  BY CompareIsOlder DEF Alike
<1> QED BY <1>3, <1>4, CompareIsOlder

\* Which minimum a platform has.
LEMMA Minima ==
    ASSUME NEW gate, NEW platform \in Platform
    PROVE  /\ platform \in {"ios", "iOS"} => MinimumFor(gate, platform) = gate.ios
           /\ platform = "android" => MinimumFor(gate, platform) = gate.android
           /\ platform \in {"web", "none"} => MinimumFor(gate, platform) = <<>>
<1>1. CASE platform \in {"ios", "iOS"}
  BY <1>1 DEF MinimumFor, ToLower
<1>2. CASE platform = "android"
  BY <1>2 DEF MinimumFor, ToLower
<1>3. CASE platform \in {"web", "none"}
  BY <1>3 DEF MinimumFor, ToLower
<1> QED BY <1>1, <1>2, <1>3 DEF Platform

(* Raising a minimum frees nobody from an upgrade, and a newer build is     *)
(* forced only if every older one is.                                       *)
THEOREM GateIsMonotone ==
    ASSUME NEW low \in [{"ios", "android"} -> Seq(Component)],
           NEW high \in [{"ios", "android"} -> Seq(Component)],
           \A p \in {"ios", "android"} : Compare(low[p], high[p]) <= 0,
           NEW platform \in Platform,
           NEW old \in Seq(Component), NEW new \in Seq(Component),
           Compare(old, new) <= 0, old # <<>>,
           Decide(low, platform, new)
    PROVE  Decide(high, platform, old)
<1>1. PICK p \in {"ios", "android"} :
         MinimumFor(low, platform) = low[p] /\ MinimumFor(high, platform) = high[p]
  <2>1. platform \notin {"web", "none"}
    BY Minima DEF Decide
  <2>2. platform \in {"ios", "iOS", "android"}
    BY <2>1 DEF Platform
  <2> QED BY <2>2, Minima
<1>2. Compare(new, low[p]) < 0
  BY <1>1 DEF Decide
<1>3. Compare(old, high[p]) < 0
  <2>1. Older(new, low[p]) /\ (Alike(low[p], high[p]) \/ Older(low[p], high[p]))
    <3>1. low[p] \in Seq(Component) /\ high[p] \in Seq(Component)
      OBVIOUS
    <3>2. Compare(low[p], high[p]) <= 0 /\ Compare(low[p], high[p]) \in Int
      BY <3>1, CompareIsOlder
    <3>3. Compare(low[p], high[p]) < 0 \/ Compare(low[p], high[p]) = 0
      BY <3>2
    <3> QED BY <1>2, <3>1, <3>3, CompareIsOlder
  <2>2. Older(new, high[p])
    BY <2>1, OlderThanOlder
  <2>3. Alike(old, new) \/ Older(old, new)
    <3>1. Compare(old, new) \in Int
      BY CompareIsOlder
    <3>2. Compare(old, new) < 0 \/ Compare(old, new) = 0
      BY <3>1
    <3> QED BY <3>2, CompareIsOlder
  <2>4. Older(old, high[p])
    BY <2>2, <2>3, OlderThanOlder
  <2> QED BY <2>4, CompareIsOlder
<1>4. high[p] # <<>>
  <2>1. Older(old, high[p])
    BY <1>3, CompareIsOlder
  <2>2. PICK i \in Nat \ {0} : OlderAt(old, high[p], i)
    BY <2>1, Numbers DEF Older
  <2>3. i <= Len(high[p])
    BY <2>2, OlderSomewhere
  <2> QED BY <2>3
<1> QED BY <1>1, <1>3, <1>4 DEF Decide

(* How far the promise to unreadable versions holds: they count as zero, so *)
(* they are forced to upgrade by every minimum that is above zero, and by   *)
(* no other.                                                                *)
THEOREM UnreadableIsZero ==
    ASSUME NEW gate \in [{"ios", "android"} -> Seq(Component)], NEW platform \in Platform,
           NEW version \in Seq(Component), version # <<>>, Unreadable(version)
    PROVE  LET minimum == MinimumFor(gate, platform)
           IN  Decide(gate, platform, version)
                   <=> \E i \in 1..Len(minimum) : NumberOf(minimum, i) # 0
<1> DEFINE minimum == MinimumFor(gate, platform)
<1>1. minimum \in Seq(Component)
  <2>1. <<>> \in Seq(Component)
    OBVIOUS
  <2> QED BY <2>1, Minima DEF Platform
<1>2. \A i \in Nat \ {0} : NumberOf(version, i) = 0
  BY DEF NumberOf, Unreadable
<1>3. Decide(gate, platform, version) <=> minimum # <<>> /\ Older(version, minimum)
  BY <1>1, CompareIsOlder DEF Decide
<1> HIDE DEF minimum
<1>4. ASSUME Older(version, minimum)
      PROVE  minimum # <<>> /\ \E i \in 1..Len(minimum) : NumberOf(minimum, i) # 0
  <2>1. PICK i \in Nat \ {0} : OlderAt(version, minimum, i)
    BY <1>4, Numbers DEF Older
  <2>2. i <= Len(minimum) /\ NumberOf(minimum, i) # 0
    BY <1>1, <1>2, <2>1, OlderSomewhere, Numbers DEF OlderAt
  <2> QED BY <1>1, <2>2
<1>5. ASSUME NEW k \in 1..Len(minimum), NumberOf(minimum, k) # 0
      PROVE  Older(version, minimum)
  <2>1. ~Alike(version, minimum) /\ ~Older(minimum, version)
    <3>1. k \in Nat \ {0} /\ NumberOf(version, k) # NumberOf(minimum, k)
      BY <1>1, <1>2, <1>5
    <3>2. ASSUME NEW i \in Nat \ {0}, OlderAt(minimum, version, i) PROVE FALSE
      BY <1>1, <1>2, <3>2, Numbers DEF OlderAt
    <3>3. \A i \in 1..(Len(minimum) + Len(version)) : i \in Nat \ {0}
      OBVIOUS
    <3> QED BY <3>1, <3>2, <3>3 DEF Alike, Older
  <2>2. /\ Compare(version, minimum) \in Int
        /\ Compare(version, minimum) # 0 /\ ~(Compare(version, minimum) > 0)
    BY <1>1, <2>1, CompareIsOlder
  <2>3. Compare(version, minimum) < 0
    BY <2>2
  <2> QED BY <1>1, <2>3, CompareIsOlder
<1> QED BY <1>3, <1>4, <1>5 DEF minimum

(* UpgradeDecision: for minima and versions of any length.                  *)
THEOREM Upgraded == Spec => []UpgradeDecision
<1>1. Init => UpgradeDecision
  BY DEF Init, UpgradeDecision
<1>2. UpgradeDecision /\ [Next]_vars => UpgradeDecision'
  <2> SUFFICES ASSUME UpgradeDecision, [Next]_vars, upgrade' # upgrade,
                      upgrade' # NoDecision
               PROVE  UpgradeDecision'
    BY DEF UpgradeDecision
  <2>1. Handle
    BY DEF Next, CORS, ValidateSpec, Attribute, RateLimit, Authenticate, ServeHTTP, Bind,
           Decode, Visit, Encode, Recover, Log, Over, vars
  <2>2. PICK platform \in Platform, version \in Version, ios \in Version, android \in Version :
           upgrade' = [platform |-> platform, version |-> version,
                       minimum |-> MinimumFor([ios |-> ios, android |-> android], platform),
                       forced |-> Decide([ios |-> ios, android |-> android], platform, version)]
    BY <2>1 DEF Handle
  <2> DEFINE minimum == MinimumFor([ios |-> ios, android |-> android], platform)
  <2>3. /\ platform \in {"ios", "iOS"} => minimum = ios
        /\ platform = "android" => minimum = android
        /\ platform \in {"web", "none"} => minimum = <<>>
    BY Minima
  <2> HIDE DEF minimum
  <2>4. platform \in {"ios", "iOS", "android"} =>
            (Compare(version, minimum) < 0 <=> Older(version, minimum))
    BY <2>3, CompareIsOlder, EdgeAssumption
  <2>5. upgrade'.forced <=> /\ minimum # <<>> /\ version # <<>>
                            /\ Compare(version, minimum) < 0
    BY <2>2 DEF minimum, Decide
  <2>6. upgrade'.platform = platform /\ upgrade'.version = version /\ upgrade'.minimum = minimum
    BY <2>2 DEF minimum
  <2> QED BY <2>3, <2>4, <2>5, <2>6 DEF UpgradeDecision, Platform
<1> QED BY <1>1, <1>2, PTL DEF Spec
===============================================================================
