----------------------------- MODULE Configuration -----------------------------
(***************************************************************************)
(* config.Load: the environment, read once at boot.  A raw value is        *)
(* missing (or blank), junk that its parser refuses, or a value.  Values   *)
(* are numbers: a text is told apart from the empty one only, JWT_SECRET   *)
(* is its length, APP_ENV is 1 local, 2 staging, 3 production or 4         *)
(* anything else, a boolean is 0 or 1, a list its length, and a duration   *)
(* or a rate a whole number of units.  NaN, a rate that is no number, has  *)
(* 0 for its value.                                                        *)
(***************************************************************************)
EXTENDS Integers, FiniteSets

Texts == {"APP_LOG_LEVEL", "APP_BASE_URL", "HTTP_PORT", "JWT_KEY_ID",
          "MIN_CLIENT_VERSION_IOS", "MIN_CLIENT_VERSION_ANDROID", "CLIENT_UPGRADE_MESSAGE",
          "SMTP_HOST", "SMTP_USERNAME", "SMTP_PASSWORD", "SMTP_FROM", "SMTP_FROM_NAME",
          "GOOGLE_CLIENT_ID", "GOOGLE_CLIENT_SECRET", "GOOGLE_REDIRECT_URL", "APP_ENV"}
Required == {"POSTGRES_DSN", "JWT_SECRET"}
Lists == {"HTTP_ALLOWED_ORIGINS", "GOOGLE_ALLOWED_AUDIENCES"}
Booleans == {"VALIDATE_SPEC", "RATE_LIMIT_ENABLED"}
Durations == {"HTTP_READ_TIMEOUT", "HTTP_WRITE_TIMEOUT", "HTTP_IDLE_TIMEOUT",
              "HTTP_SHUTDOWN_TIMEOUT", "ACCESS_TOKEN_TTL", "EMAIL_TOKEN_TTL",
              "REFRESH_TOKEN_TTL_WEB", "REFRESH_TOKEN_TTL_MOBILE"}
Positive == {"HTTP_MAX_BODY_BYTES", "POSTGRES_MAX_CONNS", "POSTGRES_MIN_CONNS", "SMTP_PORT",
             "RATE_LIMIT_IP_BURST", "RATE_LIMIT_LOGIN_BURST", "RATE_LIMIT_RESEND_BURST"}
Rates == {"RATE_LIMIT_IP_PER_SECOND", "RATE_LIMIT_LOGIN_PER_MINUTE",
          "RATE_LIMIT_RESEND_PER_HOUR"}
AboveZero == Positive \cup Rates
NonNegative == {"HTTP_TRUSTED_PROXY_HOPS"}

Numbers == Booleans \cup Durations \cup Positive \cup Rates \cup NonNegative
Key == Texts \cup Required \cup Lists \cup Numbers

Missing == [given |-> "missing", n |-> 0]
Junk    == [given |-> "junk", n |-> 0]
Value(n) == [given |-> "value", n |-> n]
NaN     == [given |-> "nan", n |-> 0]  \* of a rate: ParseFloat reads it

\* What getenv answers for a key, as its parser takes it.
Raw(k, raw) == \/ raw = Missing
               \/ k \in Numbers /\ raw = Junk
               \/ k \in Rates /\ raw = NaN
               \/ /\ raw.given = "value" /\ raw.n \in Int
                  /\ k \in Texts \cup Required => raw.n > 0

\* What str, int32, float, boolean and duration answer for a missing value.
\* Texts that default to "" and lists are 0; the others that no check reads, 1.
Default ==
    [k \in Key |->
        CASE k \in Required \cup Lists \cup NonNegative \cup {"VALIDATE_SPEC"} -> 0
          [] k = "POSTGRES_MAX_CONNS" -> 10
          [] k = "POSTGRES_MIN_CONNS" -> 2
          [] k \in {"MIN_CLIENT_VERSION_IOS", "MIN_CLIENT_VERSION_ANDROID", "SMTP_HOST",
                    "SMTP_USERNAME", "SMTP_PASSWORD", "SMTP_FROM", "GOOGLE_CLIENT_ID",
                    "GOOGLE_CLIENT_SECRET", "GOOGLE_REDIRECT_URL"} -> 0
          [] OTHER -> 1]

\* Mutant: a number out of range is taken for a missing one, without a word.
OnlyJunk(k, raw) ==
    \/ k \in Required /\ raw = Missing
    \/ k \in Numbers /\ raw = Junk

\* p.add in required, int32, int32NonNegative, float, boolean and duration.
\* A duration may be zero or negative, and NaN <= 0 does not hold.
Refused(k, raw) ==
    \/ k \in Required /\ raw = Missing
    \/ k \in Numbers /\ raw = Junk
    \/ k \in AboveZero /\ raw.given = "value" /\ raw.n <= 0
    \/ k \in NonNegative /\ raw.given = "value" /\ raw.n < 0

\* Every getter: the default stands in for what is missing, and, so that the
\* other checks have something to look at, for what cannot be used.
InRange(k, raw) == /\ raw.given \in {"value", "nan"}
                   /\ k \in AboveZero => raw.n > 0 \/ raw = NaN
                   /\ k \in NonNegative => raw.n >= 0
Parsed(env) == [k \in Key |-> IF InRange(k, env[k]) THEN env[k].n ELSE Default[k]]

On(c, k) == c[k] # 0

\* The keys that the problems of validate name.
HalfConfigured(c, switch, needs) == {k \in needs : On(c, switch) /\ ~On(c, k)}
Invalid(c) ==
    {k \in {"APP_ENV"} : c[k] \notin 1..3}
      \cup {k \in {"VALIDATE_SPEC"} : On(c, k) /\ c["APP_ENV"] = 3}
      \cup {k \in {"JWT_SECRET"} : c[k] # 0 /\ c[k] < 32}
      \cup HalfConfigured(c, "SMTP_HOST", {"SMTP_USERNAME", "SMTP_PASSWORD", "SMTP_FROM"})
      \cup HalfConfigured(c, "GOOGLE_CLIENT_ID", {"GOOGLE_CLIENT_SECRET", "GOOGLE_REDIRECT_URL"})
      \cup {k \in {"POSTGRES_MIN_CONNS", "POSTGRES_MAX_CONNS"} :
               c["POSTGRES_MIN_CONNS"] > c["POSTGRES_MAX_CONNS"]}

Unreadable(env) == {k \in Key : Refused(k, env[k])}

\* Mutant: validate runs only on an environment that could be read.
StopAtFirst(env) == IF Unreadable(env) # {} THEN Unreadable(env) ELSE Invalid(Parsed(env))

\* "parser collects every problem instead of stopping at the first"
Problems(env) == Unreadable(env) \cup Invalid(Parsed(env))

\* Load, when there is no problem: the audiences default to the client itself.
Loaded(env) ==
    LET c == Parsed(env) IN
    [c EXCEPT !["GOOGLE_ALLOWED_AUDIENCES"] = IF On(c, "GOOGLE_CLIENT_ID") /\ @ = 0 THEN 1 ELSE @]
===============================================================================
