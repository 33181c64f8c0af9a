------------------------------ MODULE MCLifecycle ------------------------------
(***************************************************************************)
(* Lifecycle for TLC.  The environments are those that differ from a       *)
(* minimal or from a complete one in two keys at most, of which one is a   *)
(* key that a check compares with others.                                  *)
(***************************************************************************)
EXTENDS Lifecycle

Minimal == [k \in Key |-> IF k = "JWT_SECRET" THEN Value(32)
                          ELSE IF k = "POSTGRES_DSN" THEN Value(1) ELSE Missing]

Written(k) ==
    {Missing}
      \cup (IF k \in Numbers THEN {Junk} ELSE {})
      \cup (IF k \in Rates THEN {NaN} ELSE {})
      \cup {Value(n) : n \in
               CASE k = "APP_ENV" -> 1..4
                 [] k = "JWT_SECRET" -> {31, 32}
                 [] k \in Booleans -> {0, 1}
                 [] k = "POSTGRES_MAX_CONNS" -> {0, 1}
                 [] k = "POSTGRES_MIN_CONNS" -> {0, 1, 2, 11}
                 [] k \in Numbers -> {-1, 0, 1}
                 [] OTHER -> {1}}

Compared == {"APP_ENV", "VALIDATE_SPEC", "JWT_SECRET", "POSTGRES_MAX_CONNS",
             "POSTGRES_MIN_CONNS", "SMTP_HOST", "SMTP_USERNAME", "SMTP_PASSWORD", "SMTP_FROM",
             "GOOGLE_CLIENT_ID", "GOOGLE_CLIENT_SECRET", "GOOGLE_REDIRECT_URL",
             "GOOGLE_ALLOWED_AUDIENCES"}

Environments2 ==
    UNION {{[base EXCEPT ![k] = x, ![l] = y] : x \in Written(k), y \in Written(l)} :
              base \in {Minimal, Complete}, k \in Compared, l \in Key}
===============================================================================
