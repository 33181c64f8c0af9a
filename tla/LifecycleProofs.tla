---------------------------- MODULE LifecycleProofs ----------------------------
(***************************************************************************)
(* Lifecycle for any number of requests and any environment: the pool is   *)
(* never overdrawn, the process ends between statements, whoever is cut    *)
(* off was told so, a configuration that loads is what was written, and    *)
(* one that does not is put right in one pass.  Liveness is left to TLC.   *)
(***************************************************************************)
EXTENDS Lifecycle, FiniteSetTheorems, TLAPS

-------------------------------------------------------------------------------
(* The inductive invariant, in parts.                                      *)

(* The types, and which answer of Run belongs to which stage.               *)
Types ==
    /\ stage \in {"load", "connect", "migrate", "build", "serve", "drain", "close", "gone"}
    /\ exit \in {"none", "clean", "error"}
    /\ pool \in {"none", "open", "closing", "closed"}
    /\ listener \in {"none", "starting", "listening", "refused", "broken", "closed"}
    /\ signal \in BOOLEAN /\ late \in BOOLEAN
    /\ req \in [Request -> {"none", "working", "waiting", "statement", "refused", "cut"}]
    /\ sweeper \in [at : {"none", "waiting", "statement", "idle", "done"}, table : 1..3]
    /\ aged \subseteq Table
    /\ exit = "none" <=> stage \notin {"close", "gone"}

(* Connections are counted, and counts are numbers.                         *)
Pooled ==
    /\ env \in Environment \cup {Forgotten}
    /\ stage = "load" => env \in Environment
    /\ settings.conns \in Nat
    /\ IsFiniteSet(Holders)
    /\ Cardinality(Holders) <= settings.conns

(* The pool is open from Connect to the deferred Close, and only there.     *)
PoolOf ==
    /\ stage \in {"load", "connect"} => pool = "none"
    /\ stage \in {"migrate", "build", "serve", "drain"} => pool = "open"
    /\ stage = "close" => pool \in {"open", "closing"}
    /\ stage = "gone" => pool \in {"none", "closed"} /\ Holders = {}

NoRequests == \A r \in Request : req[r] = "none"

(* Who has let requests in, and what Run answers over them.                 *)
Course ==
    /\ stage \in {"load", "connect", "migrate", "build"} =>
          listener = "none" /\ sweeper.at = "none"
    /\ listener \in {"none", "starting", "refused"} => NoRequests
    /\ stage = "drain" => listener \in {"starting", "closed"}
    /\ stage \in {"close", "gone"} => listener # "listening"
    /\ \A r \in Request : req[r] \in {"refused", "cut"} => pool \in {"closing", "closed"}
    /\ stage \in {"close", "gone"} => late \/ listener = "broken" \/ NoRequests
    /\ exit = "clean" => NoRequests /\ listener \in {"starting", "closed"}

LInv == Types /\ Pooled /\ PoolOf /\ Course

(* What the invariant says of the properties.                               *)
LEMMA Implied == LInv => LifecycleTypeOK /\ NobodyCutOffEarly /\ StatementsEndFirst
<1> SUFFICES ASSUME LInv PROVE LifecycleTypeOK /\ NobodyCutOffEarly /\ StatementsEndFirst
  OBVIOUS
<1>1. LifecycleTypeOK
  BY DEF LInv, Types, Pooled, PoolOf, LifecycleTypeOK
<1>2. ASSUME NEW r \in Request, req[r] \in {"refused", "cut"}
      PROVE  exit = "error" /\ (late \/ listener = "broken")
  <2>1. pool \in {"closing", "closed"} /\ ~NoRequests
    BY <1>2 DEF LInv, Course, NoRequests
  <2>2. stage \in {"close", "gone"}
    BY <2>1 DEF LInv, PoolOf, Types
  <2> QED BY <2>1, <2>2 DEF LInv, Course, Types
<1>3. StatementsEndFirst
  BY DEF LInv, PoolOf, StatementsEndFirst
<1> QED BY <1>1, <1>2, <1>3 DEF NobodyCutOffEarly

(* A new process holds nothing.                                             *)
LEMMA InitLifecycle == Init => LInv
<1> SUFFICES ASSUME Init PROVE LInv
  OBVIOUS
<1>1. Types
  <2>1. sweeper \in [at : {"none", "waiting", "statement", "idle", "done"}, table : 1..3]
    BY DEF Init, NoSweeper
  <2>2. signal \in BOOLEAN /\ late \in BOOLEAN /\ aged \subseteq Table
    BY DEF Init
  <2>3. req \in [Request -> {"none", "working", "waiting", "statement", "refused", "cut"}]
    BY DEF Init
  <2> QED BY <2>1, <2>2, <2>3 DEF Init, Types
<1>2. Holders = {}
  BY DEF Init, Holders, NoSweeper
<1>3. Pooled
  BY <1>2, FS_EmptySet DEF Init, Pooled, NoSettings
<1>4. PoolOf /\ Course
  BY DEF Init, PoolOf, Course, NoRequests, NoSweeper
<1> QED BY <1>1, <1>3, <1>4 DEF LInv

-------------------------------------------------------------------------------
(* Connections.                                                            *)

(* MaxConns is a number, whatever the environment says: int32 refuses junk. *)
LEMMA ConnsAreANumber ==
    ASSUME NEW e \in Environment
    PROVE  Loaded(e)["POSTGRES_MAX_CONNS"] \in Nat
<1> DEFINE k == "POSTGRES_MAX_CONNS"
<1>1. k \in Key /\ k \in AboveZero /\ k \notin Rates
  BY DEF Key, Numbers, AboveZero, Positive, Rates
<1>2. Raw(k, e[k])
  BY <1>1, EnvironmentAssumption
<1>3. Parsed(e)[k] = IF InRange(k, e[k]) THEN e[k].n ELSE Default[k]
  BY <1>1 DEF Parsed
<1>4. Loaded(e)[k] = Parsed(e)[k]
  BY <1>1 DEF Loaded, Parsed
<1>5. InRange(k, e[k]) => e[k].n \in Nat
  BY <1>1, <1>2 DEF InRange, Raw, Missing, Junk, NaN
<1>6. Default[k] \in Nat
  BY <1>1 DEF Default, Required, Lists, NonNegative
<1> QED BY <1>3, <1>4, <1>5, <1>6

(* Load without a problem: what every key comes to.                         *)
LEMMA NothingRefused ==
    ASSUME NEW e \in Environment, Problems(e) = {}
    PROVE  \A k \in Key :
              /\ Loaded(e)[k] = Parsed(e)[k] \/ k = "GOOGLE_ALLOWED_AUDIENCES"
              /\ e[k] # Missing => e[k] # Junk /\ Parsed(e)[k] = e[k].n
              /\ k \in AboveZero => Parsed(e)[k] > 0 \/ e[k] = NaN
              /\ e[k] = Missing => k \notin Required /\ Parsed(e)[k] = Default[k]
<1> TAKE k \in Key
<1>1. ~Refused(k, e[k])
  BY DEF Problems, Unreadable
<1>2. Raw(k, e[k])
  BY EnvironmentAssumption
<1>3. Parsed(e)[k] = IF InRange(k, e[k]) THEN e[k].n ELSE Default[k]
  BY DEF Parsed
<1>4. Loaded(e)[k] = Parsed(e)[k] \/ k = "GOOGLE_ALLOWED_AUDIENCES"
  BY DEF Loaded, Parsed
<1>5. e[k] # Missing => e[k] # Junk /\ InRange(k, e[k])
  <2>1. CASE e[k] = Missing
    BY <2>1
  <2>2. CASE k \in Numbers /\ e[k] = Junk
    BY <1>1, <2>2 DEF Refused
  <2>3. CASE k \in Rates /\ e[k] = NaN
    BY <2>3 DEF InRange, NaN, Junk, Rates, NonNegative
  <2>4. CASE e[k].given = "value" /\ e[k].n \in Int
    BY <1>1, <2>4 DEF Refused, InRange, Junk
  <2> QED BY <1>2, <2>1, <2>2, <2>3, <2>4 DEF Raw
<1>6. e[k] = Missing => k \notin Required /\ ~InRange(k, e[k])
  BY <1>1 DEF Refused, InRange, Missing
<1>7. k \in AboveZero => Default[k] > 0
  BY DEF Default, AboveZero, Positive, Rates, Required, Lists, NonNegative
<1>8. k \in AboveZero /\ InRange(k, e[k]) => e[k].n > 0 \/ e[k] = NaN
  BY DEF InRange
<1> QED BY <1>3, <1>4, <1>5, <1>6, <1>7, <1>8

(* The checks that compare keys.                                            *)
LEMMA NothingHalfConfigured ==
    ASSUME NEW c, Invalid(c) = {}
    PROVE  /\ ~(c["POSTGRES_MIN_CONNS"] > c["POSTGRES_MAX_CONNS"])
           /\ c["JWT_SECRET"] # 0 => ~(c["JWT_SECRET"] < 32)
           /\ On(c, "GOOGLE_CLIENT_ID") =>
                 On(c, "GOOGLE_CLIENT_SECRET") /\ On(c, "GOOGLE_REDIRECT_URL")
           /\ On(c, "SMTP_HOST") =>
                 On(c, "SMTP_USERNAME") /\ On(c, "SMTP_PASSWORD") /\ On(c, "SMTP_FROM")
<1>1. ~(c["POSTGRES_MIN_CONNS"] > c["POSTGRES_MAX_CONNS"])
  BY DEF Invalid
<1>2. c["JWT_SECRET"] # 0 => ~(c["JWT_SECRET"] < 32)
  BY DEF Invalid
<1>3. \A k \in {"GOOGLE_CLIENT_SECRET", "GOOGLE_REDIRECT_URL"} :
         On(c, "GOOGLE_CLIENT_ID") => On(c, k)
  BY DEF Invalid, HalfConfigured
<1>4. \A k \in {"SMTP_USERNAME", "SMTP_PASSWORD", "SMTP_FROM"} : On(c, "SMTP_HOST") => On(c, k)
  BY DEF Invalid, HalfConfigured
<1> QED BY <1>1, <1>2, <1>3, <1>4

(* A configuration that loads is what was written.                          *)
LEMMA Guessless == LInv => NothingRunsOnAGuess
<1> SUFFICES ASSUME LInv, stage = "load", Problems(env) = {} PROVE NothingRunsOnAGuess
  BY DEF NothingRunsOnAGuess
<1>0. env \in Environment
  BY DEF LInv, Pooled
<1> DEFINE c == Loaded(env)
           p == Parsed(env)
           aud == "GOOGLE_ALLOWED_AUDIENCES"
<1>1. \A k \in Key : /\ c[k] = p[k] \/ k = aud
                     /\ env[k] # Missing => env[k] # Junk /\ p[k] = env[k].n
                     /\ k \in AboveZero => p[k] > 0 \/ env[k] = NaN
                     /\ env[k] = Missing => k \notin Required /\ p[k] = Default[k]
  BY <1>0, NothingRefused
<1>2. /\ ~(p["POSTGRES_MIN_CONNS"] > p["POSTGRES_MAX_CONNS"])
      /\ p["JWT_SECRET"] # 0 => ~(p["JWT_SECRET"] < 32)
      /\ On(p, "GOOGLE_CLIENT_ID") => On(p, "GOOGLE_CLIENT_SECRET") /\ On(p, "GOOGLE_REDIRECT_URL")
      /\ On(p, "SMTP_HOST") =>
            On(p, "SMTP_USERNAME") /\ On(p, "SMTP_PASSWORD") /\ On(p, "SMTP_FROM")
  BY NothingHalfConfigured DEF Problems
<1>3. On(c, "GOOGLE_CLIENT_ID") => On(c, aud)
  BY DEF Loaded, Parsed, On, Key, Texts, Lists
<1>4. /\ {"POSTGRES_DSN", "JWT_SECRET", "POSTGRES_MIN_CONNS", "POSTGRES_MAX_CONNS"} \subseteq Key
      /\ aud \notin Positive \cup Rates \cup Required
      /\ Positive \cup Rates \subseteq Key \cap AboveZero
  BY DEF Key, Numbers, Required, AboveZero, Positive, Rates
<1>5. \A k \in Required : p[k] \in Int /\ p[k] > 0 /\ c[k] = p[k]
  <2> TAKE k \in Required
  <2>1. k \in Key /\ k # aud /\ env[k] # Missing /\ Raw(k, env[k]) /\ k \notin Numbers
    BY <1>0, <1>1, <1>4, EnvironmentAssumption
       DEF Key, Required, Numbers, Booleans, Durations, Positive, Rates, NonNegative
  <2>2. env[k].n \in Int /\ env[k].n > 0
    BY <2>1 DEF Raw, Rates, Required
  <2> QED BY <1>1, <2>1, <2>2
<1>6. \A k \in {"POSTGRES_MIN_CONNS", "POSTGRES_MAX_CONNS"} : p[k] \in Int /\ c[k] = p[k]
  <2> TAKE k \in {"POSTGRES_MIN_CONNS", "POSTGRES_MAX_CONNS"}
  <2>1. k \in Key /\ k # aud /\ Raw(k, env[k]) /\ Default[k] \in Int
    BY <1>0, <1>4, EnvironmentAssumption DEF Default, Required, Lists, NonNegative
  <2>2. env[k] # Missing => env[k].n \in Int
    BY <1>1, <2>1 DEF Raw, NaN, Junk
  <2> QED BY <1>1, <2>1, <2>2
<1>7. \A k \in Key : env[k] # Missing /\ k # aud => env[k] # Junk /\ c[k] = env[k].n
  BY <1>1
<1>8. \A k \in Positive \cup Rates : c[k] > 0 \/ env[k] = NaN
  BY <1>1, <1>4
<1>9. c["POSTGRES_MIN_CONNS"] <= c["POSTGRES_MAX_CONNS"]
  BY <1>2, <1>6
<1>10. c["JWT_SECRET"] >= 32 /\ c["POSTGRES_DSN"] # 0
  BY <1>2, <1>5 DEF Required
<1>11. \A k \in Texts : On(c, k) <=> On(p, k)
  BY <1>1 DEF On, Key, Texts
<1>12. On(c, "GOOGLE_CLIENT_ID") =>
          On(c, "GOOGLE_CLIENT_SECRET") /\ On(c, "GOOGLE_REDIRECT_URL") /\ On(c, aud)
  BY <1>2, <1>3, <1>11 DEF Texts
<1>13. On(c, "SMTP_HOST") =>
          On(c, "SMTP_USERNAME") /\ On(c, "SMTP_PASSWORD") /\ On(c, "SMTP_FROM")
  BY <1>2, <1>11 DEF Texts
<1> HIDE DEF c, p
<1> QED BY <1>7, <1>8, <1>9, <1>10, <1>12, <1>13 DEF c, NothingRunsOnAGuess

(* Whoever writes a usable value where Load complained, and nowhere else.   *)
Fixed(e) == [k \in Key |-> IF k \in Problems(e) THEN Complete[k] ELSE e[k]]

(* What a fixed environment comes to, key by key.                           *)
LEMMA FixedValues ==
    ASSUME NEW e \in Environment, NEW k \in Key
    PROVE  /\ ~Refused(k, Fixed(e)[k])
           /\ k \in Problems(e) => Parsed(Fixed(e))[k] = Complete[k].n
           /\ k \notin Problems(e) => Parsed(Fixed(e))[k] = Parsed(e)[k]
<1>1. CASE k \notin Problems(e)
  BY <1>1 DEF Fixed, Problems, Unreadable, Parsed
<1>2. CASE k \in Problems(e)
  <2> DEFINE n == CASE k = "JWT_SECRET" -> 32
                    [] k = "POSTGRES_MAX_CONNS" -> 10
                    [] k = "VALIDATE_SPEC" -> 0
                    [] OTHER -> 1
  <2>1. Fixed(e)[k] = Value(n) /\ Complete[k] = Value(n)
    BY <1>2 DEF Fixed, Complete
  <2>2. n \in Int /\ n >= 0 /\ (k \in AboveZero => n > 0)
    BY DEF AboveZero, Positive, Rates
  <2> HIDE DEF n
  <2>3. ~Refused(k, Value(n)) /\ InRange(k, Value(n))
    BY <2>2 DEF Refused, InRange, Value, Missing, Junk
  <2>4. Parsed(Fixed(e))[k] = Value(n).n
    BY <2>1, <2>3 DEF Parsed
  <2> QED BY <1>2, <2>1, <2>3, <2>4
<1> QED BY <1>1, <1>2

(* One deploy fixes what Load complained about.                             *)
LEMMA FixedLoads == ASSUME NEW e \in Environment PROVE Problems(Fixed(e)) = {}
<1> DEFINE p == Parsed(e)
           q == Parsed(Fixed(e))
<1>1. \A k \in Key : /\ ~Refused(k, Fixed(e)[k])
                     /\ k \in Problems(e) => q[k] = Complete[k].n
                     /\ k \notin Problems(e) => q[k] = p[k]
  BY FixedValues
<1>2. /\ Complete["APP_ENV"].n = 1 /\ Complete["VALIDATE_SPEC"].n = 0
      /\ Complete["JWT_SECRET"].n = 32
      /\ Complete["POSTGRES_MAX_CONNS"].n = 10 /\ Complete["POSTGRES_MIN_CONNS"].n = 1
  BY DEF Complete, Value, Key, Texts, Required, Numbers, Positive, Booleans
<1>3. \A k \in {"SMTP_USERNAME", "SMTP_PASSWORD", "SMTP_FROM", "GOOGLE_CLIENT_SECRET",
                "GOOGLE_REDIRECT_URL"} : k \in Key /\ Complete[k].n = 1
  BY DEF Complete, Value, Key, Texts
<1>4. {"APP_ENV", "VALIDATE_SPEC", "JWT_SECRET", "POSTGRES_MAX_CONNS", "POSTGRES_MIN_CONNS",
       "SMTP_HOST", "GOOGLE_CLIENT_ID"} \subseteq Key
  BY DEF Key, Texts, Required, Numbers, Positive, Booleans
<1>5. \A k \in {"SMTP_HOST", "GOOGLE_CLIENT_ID"} : q[k] = p[k]
  <2> TAKE k \in {"SMTP_HOST", "GOOGLE_CLIENT_ID"}
  <2>1. ~Refused(k, e[k])
    BY DEF Refused, Required, Numbers, Booleans, Durations, Positive, Rates, NonNegative, AboveZero
  <2>2. k \notin Invalid(p)
    BY DEF Invalid, HalfConfigured
  <2> QED BY <1>1, <1>4, <2>1, <2>2 DEF Problems, Unreadable
<1>6. Invalid(p) \subseteq Problems(e)
  BY DEF Problems
<1>7. q["APP_ENV"] \in 1..3
  <2>1. p["APP_ENV"] \notin 1..3 => "APP_ENV" \in Invalid(p)
    BY DEF Invalid
  <2> QED BY <1>1, <1>2, <1>4, <1>6, <2>1
<1>8. ~(On(q, "VALIDATE_SPEC") /\ q["APP_ENV"] = 3)
  <2>1. On(p, "VALIDATE_SPEC") /\ p["APP_ENV"] = 3 => "VALIDATE_SPEC" \in Invalid(p)
    BY DEF Invalid
  <2> QED BY <1>1, <1>2, <1>4, <1>6, <2>1 DEF On
<1>9. ~(q["JWT_SECRET"] # 0 /\ q["JWT_SECRET"] < 32)
  <2>1. p["JWT_SECRET"] # 0 /\ p["JWT_SECRET"] < 32 => "JWT_SECRET" \in Invalid(p)
    BY DEF Invalid
  <2> QED BY <1>1, <1>2, <1>4, <1>6, <2>1
<1>10. HalfConfigured(q, "SMTP_HOST", {"SMTP_USERNAME", "SMTP_PASSWORD", "SMTP_FROM"}) = {}
  <2> SUFFICES ASSUME NEW k \in {"SMTP_USERNAME", "SMTP_PASSWORD", "SMTP_FROM"},
                      On(q, "SMTP_HOST"), ~On(q, k)
               PROVE  FALSE
    BY DEF HalfConfigured
  <2>1. On(p, "SMTP_HOST") /\ ~On(p, k) => k \in Invalid(p)
    BY DEF Invalid, HalfConfigured
  <2> QED BY <1>1, <1>3, <1>5, <1>6, <2>1 DEF On
<1>11. HalfConfigured(q, "GOOGLE_CLIENT_ID", {"GOOGLE_CLIENT_SECRET", "GOOGLE_REDIRECT_URL"}) = {}
  <2> SUFFICES ASSUME NEW k \in {"GOOGLE_CLIENT_SECRET", "GOOGLE_REDIRECT_URL"},
                      On(q, "GOOGLE_CLIENT_ID"), ~On(q, k)
               PROVE  FALSE
    BY DEF HalfConfigured
  <2>1. On(p, "GOOGLE_CLIENT_ID") /\ ~On(p, k) => k \in Invalid(p)
    BY DEF Invalid, HalfConfigured
  <2> QED BY <1>1, <1>3, <1>5, <1>6, <2>1 DEF On
<1>12. ~(q["POSTGRES_MIN_CONNS"] > q["POSTGRES_MAX_CONNS"])
  <2> DEFINE lo == "POSTGRES_MIN_CONNS"
             hi == "POSTGRES_MAX_CONNS"
  <2>1. p[lo] > p[hi] => lo \in Problems(e) /\ hi \in Problems(e)
    BY <1>6 DEF Invalid
  <2>2. \A k \in {lo, hi} : k \in AboveZero /\ k \notin Rates /\ k \notin NonNegative
    BY DEF AboveZero, Positive, Rates, NonNegative
  <2>3. \A k \in {lo, hi} : p[k] \in Int /\ p[k] > 0
    <3> TAKE k \in {lo, hi}
    <3>1. Raw(k, e[k]) /\ k \in Key
      BY <1>4, EnvironmentAssumption
    <3>2. InRange(k, e[k]) => e[k].n \in Int /\ e[k].n > 0
      BY <2>2, <3>1 DEF InRange, Raw, NaN, Missing, Junk, AboveZero
    <3>3. Default[k] \in Int /\ Default[k] > 0
      BY <3>1 DEF Default, Required, Lists, NonNegative
    <3> QED BY <3>1, <3>2, <3>3 DEF Parsed
  <2>4. hi \in Problems(e) /\ lo \notin Problems(e) => p[hi] = 10
    <3>1. CASE p[lo] > p[hi]
      BY <2>1, <3>1
    <3>2. CASE ~(p[lo] > p[hi])
      <4>1. hi \notin Invalid(p)
        BY <3>2 DEF Invalid, HalfConfigured
      <4>2. hi \in Problems(e) => Refused(hi, e[hi])
        BY <4>1 DEF Problems, Unreadable
      <4>3. Refused(hi, e[hi]) => ~InRange(hi, e[hi])
        <5>1. Raw(hi, e[hi]) /\ hi \notin Required
          BY <1>4, EnvironmentAssumption DEF Required
        <5>2. e[hi].given = "value" => e[hi].n \in Int /\ e[hi] # NaN
          BY <2>2, <5>1 DEF Raw, Missing, Junk, NaN
        <5>3. CASE e[hi] = Junk
          BY <5>3 DEF InRange, Junk
        <5>4. CASE e[hi].given = "value" /\ e[hi].n <= 0
          BY <2>2, <5>2, <5>4 DEF InRange
        <5> QED BY <2>2, <5>1, <5>3, <5>4 DEF Refused
      <4>4. Default[hi] = 10
        BY <1>4 DEF Default, Required, Lists, NonNegative
      <4> QED BY <1>4, <4>2, <4>3, <4>4 DEF Parsed
    <3> QED BY <3>1, <3>2
  <2> HIDE DEF p, q
  <2> QED BY <1>1, <1>2, <1>4, <2>1, <2>3, <2>4
<1>13. Invalid(q) = {}
  <2> HIDE DEF q
  <2> QED BY <1>7, <1>8, <1>9, <1>10, <1>11, <1>12 DEF Invalid
<1> QED BY <1>1, <1>13 DEF Problems, Unreadable

(* Giving connections back keeps the count.                                 *)
LEMMA GivenBack ==
    ASSUME LInv, Holders' \subseteq Holders, settings' = settings,
           env' \in {env, Forgotten}, stage' = "load" => stage = "load" /\ env' = env
    PROVE  Pooled'
<1>1. IsFiniteSet(Holders') /\ Cardinality(Holders') <= Cardinality(Holders)
  BY FS_Subset DEF LInv, Pooled
<1>2. Cardinality(Holders') \in Nat /\ Cardinality(Holders) \in Nat
  BY <1>1, FS_CardinalityType DEF LInv, Pooled
<1> QED BY <1>1, <1>2 DEF LInv, Pooled

(* Taking one, when one is free, does not exceed MaxConns.                  *)
LEMMA Taken ==
    ASSUME LInv, FreeConnection, NEW w, Holders' \subseteq Holders \cup {w},
           settings' = settings, env' = env, stage' = stage
    PROVE  Pooled'
<1>1. IsFiniteSet(Holders)
  BY DEF LInv, Pooled
<1>a. /\ IsFiniteSet(Holders \cup {w})
      /\ Cardinality(Holders \cup {w}) \in {Cardinality(Holders), Cardinality(Holders) + 1}
  BY <1>1, FS_AddElement
<1>2. IsFiniteSet(Holders') /\ Cardinality(Holders') <= Cardinality(Holders \cup {w})
  BY <1>a, FS_Subset
<1>3. Cardinality(Holders) \in Nat /\ Cardinality(Holders') \in Nat
  BY <1>1, <1>2, FS_CardinalityType
<1> QED BY <1>a, <1>2, <1>3 DEF LInv, Pooled, FreeConnection

-------------------------------------------------------------------------------
(* The steps of Run.                                                       *)

(* A step of Run, or a signal, that leaves requests and the sweeper alone.  *)
LEMMA RunStep ==
    ASSUME LInv, UNCHANGED <<req, sweeper, aged>>,
           Signal \/ Load \/ Connect \/ Migrate \/ Listen \/ ServeFails \/ ServerFailed
             \/ ShutdownBegins \/ Elapse \/ ShutdownEnds \/ ClosePool
    PROVE  LInv'
<1> USE DEF LInv
<1>0. Holders' = Holders
  BY DEF Holders
<1>1. CASE Signal
  <2>1. Types' /\ PoolOf' /\ Course'
    BY <1>0, <1>1 DEF Signal, Types, PoolOf, Course, NoRequests
  <2> QED BY <1>0, <1>1, <2>1, GivenBack DEF Signal
<1>2. CASE Load
  <2>1. Types' /\ Course'
    BY <1>2 DEF Load, Types, PoolOf, Course, NoRequests
  <2>2. Holders = {}
    BY <1>2 DEF Load, Holders, Types, Course, NoRequests
  <2>3. PoolOf'
    BY <1>0, <1>2, <2>2 DEF Load, PoolOf
  <2>4. settings'.conns \in Nat
    BY <1>2, ConnsAreANumber DEF Load, Pooled
  <2>5. Pooled'
    BY <1>0, <1>2, <2>2, <2>4, FS_EmptySet DEF Load, Pooled
  <2> QED BY <2>1, <2>3, <2>5
<1>3. CASE Connect \/ Migrate
  <2>1. Types' /\ Course'
    BY <1>3 DEF Connect, Migrate, Types, PoolOf, Course, NoRequests
  <2>2. Holders = {}
    BY <1>3 DEF Connect, Migrate, Holders, Types, Course, NoRequests
  <2>3. PoolOf' /\ stage' # "load"
    BY <1>0, <1>3, <2>2 DEF Connect, Migrate, PoolOf
  <2>4. UNCHANGED <<settings, env>>
    BY <1>3 DEF Connect, Migrate
  <2> QED BY <1>0, <2>1, <2>3, <2>4, GivenBack
<1>4. CASE Listen \/ ServeFails
  <2>1. Types' /\ Course'
    BY <1>4 DEF Listen, ServeFails, Types, PoolOf, Course, NoRequests
  <2>2. PoolOf' /\ UNCHANGED <<settings, env, stage>>
    BY <1>0, <1>4 DEF Listen, ServeFails, PoolOf
  <2> QED BY <1>0, <2>1, <2>2, GivenBack
<1>5. CASE ServerFailed \/ ShutdownBegins \/ Elapse
  <2>1. Types' /\ Course'
    BY <1>5 DEF ServerFailed, ShutdownBegins, Elapse, Types, PoolOf, Course, NoRequests
  <2>2. PoolOf' /\ UNCHANGED <<settings, env>> /\ stage' # "load"
    BY <1>0, <1>5 DEF ServerFailed, ShutdownBegins, Elapse, PoolOf
  <2> QED BY <1>0, <2>1, <2>2, GivenBack
<1>6. CASE ShutdownEnds
  <2>1. Active = {} => NoRequests
    BY <1>6 DEF ShutdownEnds, Active, NoRequests, Types, PoolOf, Course
  <2>a. Types'
    BY <1>6 DEF ShutdownEnds, TimeIsUp, Types
  <2>b. listener \in {"starting", "closed"}
    BY <1>6 DEF ShutdownEnds, Types, Course
  <2>c. late \/ NoRequests
    BY <1>6, <2>1 DEF ShutdownEnds, TimeIsUp
  <2>2. Types' /\ Course'
    BY <1>6, <2>1, <2>a, <2>b, <2>c DEF ShutdownEnds, Types, PoolOf, Course, NoRequests
  <2>3. PoolOf' /\ UNCHANGED <<settings, env>> /\ stage' # "load"
    BY <1>0, <1>6 DEF ShutdownEnds, PoolOf
  <2> QED BY <1>0, <2>2, <2>3, GivenBack
<1>7. CASE ClosePool
  <2>1. Types' /\ Course'
    BY <1>7 DEF ClosePool, Types, PoolOf, Course, NoRequests
  <2>2. PoolOf' /\ UNCHANGED <<settings, env>> /\ stage' # "load"
    BY <1>0, <1>7 DEF ClosePool, PoolOf
  <2> QED BY <1>0, <2>1, <2>2, GivenBack
<1> QED BY <1>1, <1>2, <1>3, <1>4, <1>5, <1>6, <1>7

(* Build starts the sweeper before anybody can use the pool, and Exit waits *)
(* for everybody who does.                                                  *)
LEMMA EndsStep == ASSUME LInv, Build \/ Exit PROVE LInv'
<1> USE DEF LInv
<1>1. CASE Build
  <2>1. Types' /\ Course'
    BY <1>1 DEF Build, Types, PoolOf, Course, NoRequests
  <2>2. Holders' = {}
    BY <1>1 DEF Build, Holders, Types, Course, NoRequests
  <2>3. PoolOf' /\ UNCHANGED <<settings, env>> /\ stage' # "load"
    BY <1>1 DEF Build, PoolOf
  <2> QED BY <2>1, <2>2, <2>3, GivenBack
<1>2. CASE Exit
  <2>1. Types'
    BY <1>2 DEF Exit, Active, Types, PoolOf
  <2>2. NoRequests => NoRequests'
    BY <1>2 DEF Exit, Active, NoRequests
  <2>3. Course'
    BY <1>2, <2>2 DEF Exit, Types, PoolOf, Course, NoRequests
  <2>4. Holders' = {}
    <3>1. \A r \in Request : req'[r] # "statement"
      BY <1>2 DEF Exit, Returned, Holders, Active
    <3> QED BY <1>2, <3>1 DEF Exit, Returned, Holders
  <2>5. PoolOf' /\ UNCHANGED <<settings, env>> /\ stage' # "load"
    BY <1>2, <2>4 DEF Exit, PoolOf
  <2> QED BY <2>1, <2>3, <2>4, <2>5, GivenBack
<1> QED BY <1>1, <1>2

-------------------------------------------------------------------------------
(* The steps of requests and of the sweeper.                               *)

(* Requests work between Accept and Exit, and only those that Accept let in.*)
LEMMA RequestStep ==
    ASSUME LInv, NEW r \in Request,
           Accept(r) \/ Ask(r) \/ Acquire(r) \/ Refuse(r) \/ StatementEnds(r) \/ Answered(r)
    PROVE  LInv'
<1> USE DEF LInv
<1>0. UNCHANGED <<process, sweeper, aged>>
  BY DEF Accept, Ask, Acquire, Refuse, StatementEnds, Answered
<1>1. Types'
  BY <1>0 DEF Accept, Ask, Acquire, Refuse, StatementEnds, Answered, Types, process
<1>a. ~NoRequests \/ (stage \in {"serve", "close"} /\ listener \in {"listening", "broken"})
  BY DEF Accept, Ask, Acquire, Refuse, StatementEnds, Answered, NoRequests
<1>b. stage # "gone"
  BY DEF Accept, Ask, Acquire, Refuse, StatementEnds, Answered, FreeConnection, PoolOf, Types
<1>2. stage # "gone" /\ stage \notin {"load", "connect", "migrate", "build"}
  BY <1>a, <1>b DEF Course
<1>3. req'[r] \in {"refused", "cut"} => pool = "closing"
  BY DEF Accept, Ask, Acquire, Refuse, StatementEnds, Answered, Types
<1>4. req' = [req EXCEPT ![r] = req'[r]]
  BY DEF Accept, Ask, Acquire, Refuse, StatementEnds, Answered, Types
<1>5. Course'
  BY <1>0, <1>a, <1>2, <1>3, <1>4 DEF Types, Course, NoRequests, process
<1>6. PoolOf' /\ UNCHANGED <<settings, env, stage>>
  BY <1>0, <1>2 DEF PoolOf, process
<1>7. CASE Acquire(r)
  <2>1. Holders' \subseteq Holders \cup {r}
    BY <1>0, <1>4 DEF Holders, Types
  <2> QED BY <1>1, <1>5, <1>6, <1>7, <2>1, Taken DEF Acquire
<1>8. CASE req'[r] # "statement"
  <2>1. Holders' \subseteq Holders
    BY <1>0, <1>4, <1>8 DEF Holders, Types
  <2> QED BY <1>1, <1>5, <1>6, <2>1, GivenBack
<1>9. Acquire(r) \/ req'[r] # "statement"
  BY DEF Accept, Ask, Refuse, StatementEnds, Answered, Types
<1> QED BY <1>7, <1>8, <1>9

(* The sweeper asks for a connection only of an open pool.                  *)
LEMMA SweeperStep ==
    ASSUME LInv, SweepAcquires \/ (\E n \in 1..3 : Deleted(n)) \/ DeleteFails \/ Tick
                   \/ SweeperDone \/ (\E t \in Table : AgeOut(t))
    PROVE  LInv'
<1> USE DEF LInv
<1>0. UNCHANGED <<process, req>>
  BY DEF SweepAcquires, Deleted, DeleteFails, Tick, SweeperDone, AgeOut
<1>1. sweeper' \in [at : {"none", "waiting", "statement", "idle", "done"}, table : 1..3]
  BY DEF SweepAcquires, Deleted, DeleteFails, AfterFailure, Tick, SweeperDone, AgeOut, Types
<1>2. aged' \subseteq Table
  BY DEF SweepAcquires, Deleted, DeleteFails, Tick, SweeperDone, AgeOut, Types, Table
<1>3. Types'
  BY <1>0, <1>1, <1>2 DEF Types, process
<1>4. sweeper' = sweeper \/ sweeper.at # "none"
  BY DEF SweepAcquires, Deleted, DeleteFails, Tick, SweeperDone, AgeOut
<1>5. Course'
  BY <1>0, <1>4 DEF Course, NoRequests, process
<1>6. CASE SweepAcquires
  <2>1. Holders' \subseteq Holders \cup {"sweeper"}
    BY <1>0 DEF Holders
  <2>2. pool = "open"
    BY <1>6 DEF SweepAcquires, FreeConnection
  <2>3. PoolOf' /\ UNCHANGED <<settings, env, stage>>
    BY <1>0, <2>2 DEF PoolOf, process
  <2> QED BY <1>3, <1>5, <1>6, <2>1, <2>3, Taken DEF SweepAcquires
<1>7. CASE sweeper'.at = "statement" => sweeper.at = "statement"
  <2>1. Holders' \subseteq Holders
    BY <1>0, <1>7 DEF Holders
  <2>2. PoolOf' /\ UNCHANGED <<settings, env, stage>>
    BY <1>0, <2>1 DEF PoolOf, process
  <2> QED BY <1>3, <1>5, <2>1, <2>2, GivenBack
<1>8. SweepAcquires \/ (sweeper'.at = "statement" => sweeper.at = "statement")
  BY DEF Deleted, DeleteFails, AfterFailure, Tick, SweeperDone, AgeOut
<1> QED BY <1>6, <1>7, <1>8

-------------------------------------------------------------------------------
(* The theorems.                                                           *)

(* Every step keeps the invariant.                                          *)
LEMMA LifecycleInvariant == Spec => []LInv
<1>1. LInv /\ [Next]_vars => LInv'
  <2> SUFFICES ASSUME LInv, [Next]_vars PROVE LInv'
    OBVIOUS
  <2>1. CASE UNCHANGED vars
    BY <2>1 DEF vars, process, LInv, Types, Pooled, PoolOf, Course, NoRequests, Holders
  <2>2. CASE Build \/ Exit
    BY <2>2, EndsStep
  <2>3. CASE Signal \/ Load \/ Connect \/ Migrate \/ Listen \/ ServeFails \/ ServerFailed
               \/ ShutdownBegins \/ Elapse \/ ShutdownEnds \/ ClosePool
    <3>1. UNCHANGED <<req, sweeper, aged>>
      BY <2>3 DEF Signal, Load, Connect, Migrate, Listen, ServeFails, ServerFailed,
                  ShutdownBegins, Elapse, ShutdownEnds, ClosePool
    <3> QED BY <2>3, <3>1, RunStep
  <2> QED BY <2>1, <2>2, <2>3, RequestStep, SweeperStep DEF Next, Main, Gone
<1> QED BY <1>1, InitLifecycle, PTL DEF Spec

(* LifecycleTypeOK: the pool is never overdrawn, and every way out of Run   *)
(* that opened it has closed it.                                            *)
THEOREM LifecycleTyped == Spec => []LifecycleTypeOK
<1> QED BY LifecycleInvariant, Implied, PTL

(* NobodyCutOffEarly: however many requests are in flight and however they  *)
(* and the sweeper share the pool, Shutdown and the defer cut nobody off    *)
(* before the timeout, but after a failure of the server.                   *)
THEOREM CutOffLast == Spec => []NobodyCutOffEarly
<1> QED BY LifecycleInvariant, Implied, PTL

(* StatementsEndFirst: the deferred pool.Close outlasts every statement.    *)
THEOREM EndsBetweenStatements == Spec => []StatementsEndFirst
<1> QED BY LifecycleInvariant, Implied, PTL

(* NothingRunsOnAGuess: for every environment there is, config.Load either  *)
(* names a key or serves on the values that were written.                   *)
THEOREM NoGuess == Spec => []NothingRunsOnAGuess
<1> QED BY LifecycleInvariant, Guessless, PTL

(* OneDeployFixes: however many keys are wrong at once, and whichever, the  *)
(* one error of Load names all that have to be changed.                     *)
THEOREM OnePass == Spec => []OneDeployFixes
<1>1. LInv => OneDeployFixes
  <2> SUFFICES ASSUME LInv, stage = "load" PROVE Problems(Fixed(env)) = {}
    BY DEF OneDeployFixes, Fixed
  <2> QED BY FixedLoads DEF LInv, Pooled
<1> QED BY <1>1, LifecycleInvariant, PTL
===============================================================================
