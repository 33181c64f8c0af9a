------------------------------ MODULE Operations ------------------------------
(***************************************************************************)
(* The eighteen operations of the API as the generated code and the        *)
(* handlers have them: where they are served, what is bound from a request *)
(* before the handler runs, which statuses the contract gives them, and    *)
(* how their handlers end.  A path is the sequence of its segments.        *)
(***************************************************************************)
EXTENDS Integers, Sequences

System       == {"GetHealthz", "GetReadyz", "GetAppConfig"}
Session      == {"LoginUser", "Logout", "ListProviders", "RefreshSession"}
Registration == {"RegisterUser", "VerifyEmail", "ResendEmailVerification"}
Provider     == {"CompleteProviderSignIn", "StartProviderSignIn", "SignInWithProviderToken"}
Own          == {"Calculate", "GetMe", "ListIdentities", "UnlinkIdentity", "LinkIdentity"}

Operation == System \cup Session \cup Registration \cup Provider \cup Own

\* A segment of a pattern that takes any segment but the empty one.
Wild == {"any provider", "any id"}

Routes ==
    [op \in Operation |->
        CASE op = "RegisterUser"            -> <<"POST", <<"v1", "auth", "register">>>>
          [] op = "LoginUser"               -> <<"POST", <<"v1", "auth", "login">>>>
          [] op = "RefreshSession"          -> <<"POST", <<"v1", "auth", "refresh">>>>
          [] op = "Logout"                  -> <<"POST", <<"v1", "auth", "logout">>>>
          [] op = "ListProviders"           -> <<"GET", <<"v1", "auth", "providers">>>>
          [] op = "StartProviderSignIn"     -> <<"GET", <<"v1", "auth", "any provider", "start">>>>
          [] op = "CompleteProviderSignIn"  -> <<"GET", <<"v1", "auth", "any provider", "callback">>>>
          [] op = "SignInWithProviderToken" -> <<"POST", <<"v1", "auth", "any provider", "token">>>>
          [] op = "ListIdentities"          -> <<"GET", <<"v1", "me", "identities">>>>
          [] op = "LinkIdentity"            -> <<"POST", <<"v1", "me", "identities", "any provider">>>>
          [] op = "UnlinkIdentity"          -> <<"POST", <<"v1", "me", "identities", "any id", "unlink">>>>
          [] op = "VerifyEmail"             -> <<"POST", <<"v1", "auth", "verify-email">>>>
          [] op = "ResendEmailVerification" -> <<"POST", <<"v1", "auth", "verify-email", "resend">>>>
          [] op = "GetMe"                   -> <<"GET", <<"v1", "me">>>>
          [] op = "Calculate"               -> <<"POST", <<"v1", "calculations">>>>
          [] op = "GetAppConfig"            -> <<"GET", <<"v1", "app", "config">>>>
          [] op = "GetHealthz"              -> <<"GET", <<"healthz">>>>
          [] op = "GetReadyz"               -> <<"GET", <<"readyz">>>>]

-------------------------------------------------------------------------------
(* ServerInterfaceWrapper: the parameters whose binding may fail.  A header *)
(* may be there twice, a query parameter too, or be missing where it is     *)
(* required, and an id may be no UUID.  Cookies and providers are any text. *)

SystemParameters(op) == IF op = "GetAppConfig" THEN {"platform", "version"} ELSE {}
SessionParameters(op) == IF op \in {"LoginUser", "RefreshSession"} THEN {"platform"} ELSE {}
RegistrationParameters(op) == {}
ProviderParameters(op) ==
    CASE op = "CompleteProviderSignIn"  -> {"state", "code"}
      [] op = "StartProviderSignIn"     -> {"redirect_to"}
      [] op = "SignInWithProviderToken" -> {"platform"}
OwnParameters(op) == IF op = "UnlinkIdentity" THEN {"id"} ELSE {}

Parameters(op) ==
    CASE op \in System       -> SystemParameters(op)
      [] op \in Session      -> SessionParameters(op)
      [] op \in Registration -> RegistrationParameters(op)
      [] op \in Provider     -> ProviderParameters(op)
      [] op \in Own          -> OwnParameters(op)

Parameter == UNION {Parameters(op) : op \in Operation}

(* strictHandler: which bodies are decoded.  An optional one may be empty,  *)
(* though not broken; a required one may be neither, whatever the handler   *)
(* would make of a missing body.                                            *)

SystemBody(op) == "unread"
SessionBody(op) == CASE op = "LoginUser" -> "required"
                     [] op \in {"Logout", "RefreshSession"} -> "optional"
                     [] op = "ListProviders" -> "unread"
RegistrationBody(op) == "required"
ProviderBody(op) == IF op = "SignInWithProviderToken" THEN "required" ELSE "unread"
OwnBody(op) == IF op \in {"Calculate", "LinkIdentity"} THEN "required" ELSE "unread"

Body(op) ==
    CASE op \in System       -> SystemBody(op)
      [] op \in Session      -> SessionBody(op)
      [] op \in Registration -> RegistrationBody(op)
      [] op \in Provider     -> ProviderBody(op)
      [] op \in Own          -> OwnBody(op)

(* The responses the generated code has types for, which are those of the   *)
(* contract.                                                                *)

SystemResponses(op) == IF op = "GetReadyz" THEN {200, 503} ELSE {200}
SessionResponses(op) ==
    CASE op = "LoginUser"      -> {200, 400, 401, 403, 429}
      [] op = "Logout"         -> {204}
      [] op = "ListProviders"  -> {200}
      [] op = "RefreshSession" -> {200, 400, 401}
RegistrationResponses(op) ==
    CASE op = "RegisterUser"            -> {201, 400, 409, 422}
      [] op = "VerifyEmail"             -> {204, 400, 410}
      [] op = "ResendEmailVerification" -> {204, 400}
ProviderResponses(op) ==
    CASE op = "CompleteProviderSignIn"  -> {302, 400, 403, 409, 501}
      [] op = "StartProviderSignIn"     -> {302, 501}
      [] op = "SignInWithProviderToken" -> {200, 400, 401, 403, 409, 501}
OwnResponses(op) ==
    CASE op = "Calculate"      -> {200, 400, 401, 422}
      [] op = "GetMe"          -> {200, 401}
      [] op = "ListIdentities" -> {200, 401}
      [] op = "UnlinkIdentity" -> {204, 401, 404, 409}
      [] op = "LinkIdentity"   -> {201, 401, 403, 409, 501}

Responses(op) ==
    CASE op \in System       -> SystemResponses(op)
      [] op \in Session      -> SessionResponses(op)
      [] op \in Registration -> RegistrationResponses(op)
      [] op \in Provider     -> ProviderResponses(op)
      [] op \in Own          -> OwnResponses(op)

-------------------------------------------------------------------------------
(* The calculator: an operand is text, and the operation may be any.        *)

Operand == {"missing", "too long", "not a number", "zero", "number"}
Arithmetic == {"add", "subtract", "multiply", "divide", "other"}

ParseOperand(raw) == IF raw \in {"zero", "number"} THEN {} ELSE {"Calculation"}

Evaluate(operation, b) ==
    IF operation = "other" \/ (operation = "divide" /\ b = "zero") THEN {"Calculation"} ELSE {}

Calculate(operation, a, b) == ParseOperand(a) \cup ParseOperand(b) \cup Evaluate(operation, b)

-------------------------------------------------------------------------------
(* The handlers.  Each ends with one of its answers or with an error; any   *)
(* other error than these is a 500.                                         *)

HTTPStatus(err) ==
    CASE err = "OAuthStateInvalid" -> 400
      [] err \in {"InvalidCredentials", "ProviderTokenInvalid", "RefreshInvalid"} -> 401
      [] err \in {"EmailNotVerified", "ProviderEmailUnverified"} -> 403
      [] err \in {"UserNotFound", "IdentityNotFound"} -> 404
      [] err \in {"EmailTaken", "LinkNeedsVerifiedEmail", "IdentityAlreadyLinked",
                  "LastAuthMethod"} -> 409
      [] err = "TokenNotUsable" -> 410
      [] err \in {"Validation", "Calculation"} -> 422
      [] err = "TooManyAttempts" -> 429
      [] err = "ProviderNotConfigured" -> 501
      [] err = "ProviderClaimsIncomplete" -> 502
      [] OTHER -> 500

\* signInWithProvider
ProviderSignInErrors ==
    {"ProviderEmailUnverified", "ProviderClaimsIncomplete", "EmailTaken",
     "LinkNeedsVerifiedEmail", "IdentityAlreadyLinked", "Internal"}

\* verifyProviderToken, with the errors of Google
ProviderTokenErrors ==
    {"ProviderTokenInvalid", "ProviderNotConfigured", "ProviderClaimsIncomplete"}

SystemErrors(op) == {}

\* Mutant: a logout that revokes nothing says so.
LogoutTells(op) ==
    CASE op = "LoginUser"      -> {"TooManyAttempts", "InvalidCredentials", "EmailNotVerified",
                                   "Internal"}
      [] op = "Logout"         -> {"RefreshInvalid"}
      [] op = "ListProviders"  -> {"Internal"}
      [] op = "RefreshSession" -> {"RefreshInvalid", "Internal"}

SessionErrors(op) ==
    CASE op = "LoginUser"      -> {"TooManyAttempts", "InvalidCredentials", "EmailNotVerified",
                                   "Internal"}
      [] op = "Logout"         -> {}
      [] op = "ListProviders"  -> {"Internal"}
      [] op = "RefreshSession" -> {"RefreshInvalid", "Internal"}

RegistrationErrors(op) ==
    CASE op = "RegisterUser"            -> {"Validation", "EmailTaken", "Internal"}
      [] op = "VerifyEmail"             -> {"TokenNotUsable", "Internal"}
      [] op = "ResendEmailVerification" -> {}

ProviderErrors(op) ==
    CASE op = "StartProviderSignIn"     -> {"Validation", "ProviderNotConfigured", "Internal"}
      [] op = "CompleteProviderSignIn"  -> {"OAuthStateInvalid"} \cup ProviderTokenErrors
                                             \cup ProviderSignInErrors
      [] op = "SignInWithProviderToken" -> ProviderTokenErrors \cup ProviderSignInErrors

OwnErrors(op) ==
    CASE op \in {"GetMe", "ListIdentities"} -> {"UserNotFound", "Internal"}
      [] op = "UnlinkIdentity" -> {"LastAuthMethod", "IdentityNotFound", "Internal"}
      [] op = "LinkIdentity"   -> ProviderTokenErrors
                                    \cup {"ProviderEmailUnverified", "IdentityAlreadyLinked",
                                          "Internal"}
      [] op = "Calculate"      ->
            UNION {Calculate(o, a, b) : o \in Arithmetic, a \in Operand, b \in Operand}

Errors(op) ==
    CASE op \in System       -> SystemErrors(op)
      [] op \in Session      -> SessionErrors(op)
      [] op \in Registration -> RegistrationErrors(op)
      [] op \in Provider     -> ProviderErrors(op)
      [] op \in Own          -> OwnErrors(op)

\* What a handler answers when it has done its work.
Answers(op) ==
    CASE op = "GetReadyz" -> {200, 503}
      [] op \in {"RegisterUser", "LinkIdentity"} -> {201}
      [] op \in {"Logout", "VerifyEmail", "ResendEmailVerification", "UnlinkIdentity"} -> {204}
      [] op \in {"StartProviderSignIn", "CompleteProviderSignIn"} -> {302}
      [] OTHER -> {200}

\* The handlers that call requireUser.
RequireUser == Own \ {"Calculate"}

\* The Visit methods that write a header and no body.
Bodiless(status) == status \in {204, 302}

\* The answers that hold an address as openapi_types.Email, which refuses to
\* encode some that mail.ParseAddress takes, such as one with a display name.
NamesAddress == {"RegisterUser", "GetMe"}

===============================================================================
