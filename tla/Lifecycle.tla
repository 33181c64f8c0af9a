------------------------------- MODULE Lifecycle -------------------------------
(***************************************************************************)
(* One process from main to its exit: app.Run boots, serves and stops, the *)
(* sweeper runs beside it and nobody waits for it, and requests use the    *)
(* connection pool, which a defer of Run closes.  A request takes one      *)
(* connection for one statement and gives it back; it never asks for a     *)
(* second while it holds one.                                              *)
(*                                                                         *)
(* External: the pool (pgxpool.Close refuses whoever waits or comes later, *)
(* and waits for the connections that are out), the HTTP server (Shutdown  *)
(* closes the listener and waits for the requests in flight, Serve may     *)
(* fail), and the database.  A kill is left out: the other modules crash   *)
(* between any two statements.                                             *)
(***************************************************************************)
EXTENDS Configuration, Sequences

CONSTANTS Environment,  \* what getenv may answer
          Request       \* requests on open connections

ASSUME EnvironmentAssumption == \A e \in Environment, k \in Key : Raw(k, e[k])

VARIABLES
    env,       \* the environment, until Load has read it
    settings,  \* of the configuration: MaxConns, and whether ShutdownTimeout is positive
    stage,     \* where Run is
    exit,      \* what Run returns
    signal,    \* SIGTERM or an interrupt came: ctx is cancelled
    listener,  \* the goroutine of ListenAndServe, and errCh
    late,      \* shutdownCtx is over
    pool,      \* the pgxpool
    req,       \* where a request is
    sweeper,   \* where the sweeper is
    aged       \* tables that hold rows to sweep

process  == <<env, settings, stage, exit, signal, listener, late, pool>>
vars     == <<process, req, sweeper, aged>>

Tables == <<"oauth_states", "verification_tokens", "refresh_tokens">>
Table  == {Tables[n] : n \in 1..3}

Forgotten  == <<>>
NoSettings == [conns |-> 0, patience |-> 0]
NoSweeper  == [at |-> "none", table |-> 1]

Init ==
    /\ env \in Environment
    /\ settings = NoSettings
    /\ stage = "load" /\ exit = "none" /\ pool = "none"
    /\ signal = FALSE /\ late = FALSE
    /\ listener = "none"
    /\ req = [r \in Request |-> "none"]
    /\ sweeper = NoSweeper
    /\ aged = Table

\* Connections that are out.
Holders == {r \in Request : req[r] = "statement"}
             \cup {w \in {"sweeper"} : sweeper.at = "statement"}

\* The handlers that have not answered yet.
Active == {r \in Request : req[r] \in {"working", "waiting", "statement"}}

-------------------------------------------------------------------------------
(* Run.                                                                    *)

\* Any number of signals: only the first cancels ctx, the others are swallowed.
Signal ==
    /\ ~signal /\ stage # "gone"
    /\ signal' = TRUE
    /\ UNCHANGED <<env, settings, stage, exit, listener, late, pool, req, sweeper, aged>>

Load ==
    /\ stage = "load"
    /\ env' = Forgotten
    /\ IF Problems(env) = {}
       THEN /\ stage' = "connect"
            /\ settings' = [conns |-> Loaded(env)["POSTGRES_MAX_CONNS"],
                            patience |-> IF Loaded(env)["HTTP_SHUTDOWN_TIMEOUT"] > 0
                                         THEN 1 ELSE 0]
            /\ exit' = exit
       ELSE stage' = "gone" /\ exit' = "error" /\ settings' = settings
    /\ UNCHANGED <<signal, listener, late, pool, req, sweeper, aged>>

\* Connect, which closes the pool itself when the ping fails; it does with a
\* cancelled ctx.
Connect ==
    /\ stage = "connect"
    /\ \/ ~signal /\ stage' = "migrate" /\ pool' = "open" /\ exit' = exit
       \/ stage' = "gone" /\ pool' = "closed" /\ exit' = "error"
    /\ UNCHANGED <<env, settings, signal, listener, late, req, sweeper, aged>>

\* Mutant: the defer comes after the migrations.
MigrateLeaks ==
    /\ stage = "migrate"
    /\ \/ ~signal /\ stage' = "build" /\ exit' = exit
       \/ stage' = "gone" /\ exit' = "error"
    /\ UNCHANGED <<env, settings, signal, listener, late, pool, req, sweeper, aged>>

Migrate ==
    /\ stage = "migrate"
    /\ \/ ~signal /\ stage' = "build" /\ exit' = exit
       \/ stage' = "close" /\ exit' = "error"
    /\ UNCHANGED <<env, settings, signal, listener, late, pool, req, sweeper, aged>>

\* buildServer, where only the discovery of Google looks at ctx, if Google is
\* configured, startSweeper, and the goroutine that is to listen.
Build ==
    /\ stage = "build"
    /\ \/ /\ stage' = "serve" /\ exit' = exit
          /\ sweeper' = [at |-> "waiting", table |-> 1]
          /\ listener' = "starting"
       \/ /\ stage' = "close" /\ exit' = "error"
          /\ UNCHANGED <<sweeper, listener>>
    /\ UNCHANGED <<env, settings, signal, late, pool, req, aged>>

\* ListenAndServe: it listens, or the port is taken, or Shutdown was faster.
Listen ==
    /\ listener = "starting" /\ stage # "gone"
    /\ listener' \in IF stage = "serve" THEN {"listening", "refused"} ELSE {"closed"}
    /\ UNCHANGED <<env, settings, stage, exit, signal, late, pool, req, sweeper, aged>>

\* Serve gives up; the connections it has accepted stay.
ServeFails ==
    /\ listener = "listening"
    /\ listener' = "broken"
    /\ UNCHANGED <<env, settings, stage, exit, signal, late, pool, req, sweeper, aged>>

\* select: errCh is ready.
ServerFailed ==
    /\ stage = "serve" /\ listener \in {"refused", "broken"}
    /\ stage' = "close" /\ exit' = "error"
    /\ UNCHANGED <<env, settings, signal, listener, late, pool, req, sweeper, aged>>

\* select: ctx is done.  Shutdown closes the listener and every connection that
\* is idle or becomes so; a ShutdownTimeout that is not positive is over before
\* it starts.
ShutdownBegins ==
    /\ stage = "serve" /\ signal
    /\ stage' = "drain"
    /\ listener' = IF listener = "starting" THEN "starting" ELSE "closed"
    /\ late' = (settings.patience = 0)
    /\ UNCHANGED <<env, settings, exit, signal, pool, req, sweeper, aged>>

Elapse ==
    /\ stage = "drain" /\ ~late
    /\ late' = TRUE
    /\ UNCHANGED <<env, settings, stage, exit, signal, listener, pool, req, sweeper, aged>>

\* Mutant: the shutdown context is derived from ctx.
DerivedFromCtx == signal

\* Mutant: the shutdown context has no end.
NoTimeout == FALSE

\* "Detached from ctx on purpose"
TimeIsUp == late

\* Shutdown returns: nobody is left, or its context is over.
ShutdownEnds ==
    /\ stage = "drain"
    /\ \/ Active = {} /\ exit' = "clean"
       \/ Active # {} /\ TimeIsUp /\ exit' = "error"
    /\ stage' = "close"
    /\ UNCHANGED <<env, settings, signal, listener, late, pool, req, sweeper, aged>>

\* defer pool.Close()
ClosePool ==
    /\ stage = "close" /\ pool = "open"
    /\ pool' = "closing"
    /\ UNCHANGED <<env, settings, stage, exit, signal, listener, late, req, sweeper, aged>>

\* Mutant: Close does not wait for the connections that are out.
NotAwaited == TRUE

\* Close has got every connection back.
Returned == Holders = {}

\* Close returns, Run returns, and main ends the process with whatever is left.
Exit ==
    /\ stage = "close" /\ pool = "closing" /\ Returned
    /\ stage' = "gone" /\ pool' = "closed"
    /\ req' = [r \in Request |-> IF r \in Active THEN "cut" ELSE req[r]]
    /\ UNCHANGED <<env, settings, exit, signal, listener, late, sweeper, aged>>

-------------------------------------------------------------------------------
(* The requests: HTTP may bring one over a connection it already has even  *)
(* when the listener is broken.                                            *)

Accept(r) ==
    /\ stage \in {"serve", "close"} /\ listener \in {"listening", "broken"}
    /\ req[r] = "none"
    /\ req' = [req EXCEPT ![r] = "working"]
    /\ UNCHANGED <<process, sweeper, aged>>

\* A handler needs the database: a statement of the store, or checkPostgres.
Ask(r) ==
    /\ req[r] = "working" /\ stage # "gone"
    /\ req' = [req EXCEPT ![r] = "waiting"]
    /\ UNCHANGED <<process, sweeper, aged>>

FreeConnection == pool = "open" /\ Cardinality(Holders) < settings.conns

Acquire(r) ==
    /\ req[r] = "waiting" /\ FreeConnection
    /\ req' = [req EXCEPT ![r] = "statement"]
    /\ UNCHANGED <<process, sweeper, aged>>

\* The pool is closed: the handler answers with the error.
Refuse(r) ==
    /\ req[r] = "waiting" /\ pool = "closing"
    /\ req' = [req EXCEPT ![r] = "refused"]
    /\ UNCHANGED <<process, sweeper, aged>>

\* The statement is over, or the request's own context is: the client has hung
\* up, or the two seconds of GetReadyz have passed.
StatementEnds(r) ==
    /\ req[r] \in {"waiting", "statement"} /\ stage # "gone"
    /\ req' = [req EXCEPT ![r] = "working"]
    /\ UNCHANGED <<process, sweeper, aged>>

Answered(r) ==
    /\ req[r] = "working" /\ stage # "gone"
    /\ req' = [req EXCEPT ![r] = "none"]
    /\ UNCHANGED <<process, sweeper, aged>>

-------------------------------------------------------------------------------
(* The sweeper.                                                            *)

SweepAcquires ==
    /\ sweeper.at = "waiting" /\ FreeConnection /\ ~signal
    /\ sweeper' = [at |-> "statement", table |-> sweeper.table]
    /\ UNCHANGED <<process, req, aged>>

\* SweepExpired goes on to the next DELETE.
Deleted(n) ==
    /\ sweeper = [at |-> "statement", table |-> n] /\ stage # "gone"
    /\ aged' = aged \ {Tables[n]}
    /\ sweeper' = IF n < 3 THEN [at |-> "waiting", table |-> n + 1]
                  ELSE [at |-> "idle", table |-> 1]
    /\ UNCHANGED <<process, req>>

\* Mutant: the loop ends with the first failure.
LoopEnds == "done"

\* "A failed sweep is logged and the loop continues"
AfterFailure == "idle"

\* A DELETE fails, and the later ones of the round are skipped.  A cancelled
\* ctx, or a closed pool, fails it too; the rows may be gone all the same.
DeleteFails ==
    /\ \/ sweeper.at = "statement" /\ stage # "gone"
       \/ sweeper.at = "waiting" /\ (signal \/ pool = "closing")
    /\ aged' \in {aged, aged \ {t \in {Tables[sweeper.table]} : sweeper.at = "statement"}}
    /\ sweeper' = [at |-> AfterFailure, table |-> 1]
    /\ UNCHANGED <<process, req>>

\* The ticker.
Tick ==
    /\ sweeper.at = "idle" /\ stage # "gone"
    /\ sweeper' = [at |-> "waiting", table |-> 1]
    /\ UNCHANGED <<process, req, aged>>

SweeperDone ==
    /\ sweeper.at = "idle" /\ signal /\ stage # "gone"
    /\ sweeper' = [at |-> "done", table |-> 1]
    /\ UNCHANGED <<process, req, aged>>

\* Rows age.
AgeOut(t) ==
    /\ t \in Table \ aged /\ stage # "gone"
    /\ aged' = aged \cup {t}
    /\ UNCHANGED <<process, req, sweeper>>

Gone == stage = "gone" /\ UNCHANGED vars

Main == \/ Load \/ Connect \/ Migrate \/ Build \/ Listen
        \/ ServerFailed \/ ShutdownBegins \/ Elapse \/ ShutdownEnds \/ ClosePool \/ Exit

Next ==
    \/ Signal \/ Main \/ ServeFails
    \/ \E r \in Request :
          Accept(r) \/ Ask(r) \/ Acquire(r) \/ Refuse(r) \/ StatementEnds(r) \/ Answered(r)
    \/ SweepAcquires \/ DeleteFails \/ Tick \/ SweeperDone
    \/ \E n \in 1..3 : Deleted(n)
    \/ \E t \in Table : AgeOut(t)
    \/ Gone

Spec == Init /\ [][Next]_vars

(* Go schedules what can run, the timers fire, and the database ends what   *)
(* it was asked, if perhaps with an error: no statement has a timeout.      *)
(* Waiters get connections in their order, so none waits while others pass  *)
(* it for ever, and the database does not refuse one DELETE for ever.  No   *)
(* request is assumed to arrive or to finish, and no signal to come.        *)
Fairness ==
    /\ WF_vars(Main)
    /\ WF_vars(Tick)
    /\ SF_vars(SweepAcquires)
    /\ WF_vars(\E n \in 1..3 : Deleted(n) \/ DeleteFails)
    /\ \A n \in 1..3 : SF_vars(Deleted(n))
    /\ \A r \in Request : WF_vars(req[r] = "statement" /\ StatementEnds(r))

FairSpec == Spec /\ Fairness

-------------------------------------------------------------------------------
(* Properties.                                                             *)

(* Type invariant: what is out of the pool never exceeds MaxConns, and no   *)
(* way out of Run forgets to close it.                                      *)
LifecycleTypeOK ==
    /\ stage \in {"load", "connect", "migrate", "build", "serve", "drain", "close", "gone"}
    /\ exit \in {"none", "clean", "error"}
    /\ pool \in {"none", "open", "closing", "closed"}
    /\ listener \in {"none", "starting", "listening", "refused", "broken", "closed"}
    /\ signal \in BOOLEAN /\ late \in BOOLEAN
    /\ req \in [Request -> {"none", "working", "waiting", "statement", "refused", "cut"}]
    /\ sweeper \in [at : {"none", "waiting", "statement", "idle", "done"}, table : 1..3]
    /\ aged \subseteq Table
    /\ exit = "none" <=> stage \notin {"close", "gone"}
    /\ Cardinality(Holders) <= settings.conns
    /\ stage = "gone" => pool \in {"none", "closed"}

(* A request that was let in and is refused the database or cut off has     *)
(* outlived ShutdownTimeout, or the server broke down, and Run says so:     *)
(* "stopped cleanly" is never logged over a request that got no answer      *)
(* (app.Run: Shutdown, then the deferred pool.Close).                       *)
NobodyCutOffEarly ==
    (\E r \in Request : req[r] \in {"refused", "cut"}) =>
        exit = "error" /\ (late \/ listener = "broken")

(* However it stops, the process does not end in the middle of a statement, *)
(* not even one of the sweeper, whom nobody waits for: a stop is never the  *)
(* crash that the other modules have to live with (defer pool.Close).       *)
StatementsEndFirst == stage = "gone" => Holders = {}

(* A signal ends the process, whatever it was doing and however long a      *)
(* request takes, as long as the database ends what it was asked.           *)
Stops == signal ~> stage = "gone"

(* While the process runs, what has aged is swept, in spite of statements   *)
(* that fail and cost the later tables their turn.                          *)
KeepsSweeping ==
    \A t \in Table : t \in aged ~> (t \notin aged \/ signal \/ exit = "error")

(* A configuration that loads is what was written: no default stands in for *)
(* a value that was given and could not be used, counts are positive, rates *)
(* are too or NaN, the pool can be filled, nothing is half configured, and  *)
(* whoever signs in through Google finds an audience.  What RateLimit and   *)
(* BrowserSignIn take for granted.  Durations may be zero or negative.      *)
NothingRunsOnAGuess ==
    stage = "load" /\ Problems(env) = {} =>
        LET c == Loaded(env) IN
        /\ \A k \in Key : env[k] # Missing /\ k # "GOOGLE_ALLOWED_AUDIENCES" =>
              env[k] # Junk /\ c[k] = env[k].n
        /\ \A k \in Positive \cup Rates : c[k] > 0 \/ env[k] = NaN
        /\ c["POSTGRES_MIN_CONNS"] <= c["POSTGRES_MAX_CONNS"]
        /\ c["JWT_SECRET"] >= 32 /\ c["POSTGRES_DSN"] # 0
        /\ On(c, "GOOGLE_CLIENT_ID") =>
              /\ On(c, "GOOGLE_CLIENT_SECRET") /\ On(c, "GOOGLE_REDIRECT_URL")
              /\ On(c, "GOOGLE_ALLOWED_AUDIENCES")
        /\ On(c, "SMTP_HOST") =>
              On(c, "SMTP_USERNAME") /\ On(c, "SMTP_PASSWORD") /\ On(c, "SMTP_FROM")

\* A working environment that leaves nothing to a default.
Complete == [k \in Key |-> Value(CASE k = "JWT_SECRET" -> 32
                                   [] k = "POSTGRES_MAX_CONNS" -> 10
                                   [] k = "VALIDATE_SPEC" -> 0
                                   [] OTHER -> 1)]

(* "a broken env is fixed in one pass rather than one deploy per mistake":  *)
(* whoever writes a usable value for every key that Load complains about,   *)
(* and for no other, gets a process that boots.                             *)
OneDeployFixes ==
    stage = "load" =>
        LET named == Problems(env)
        IN  Problems([k \in Key |-> IF k \in named THEN Complete[k] ELSE env[k]]) = {}
===============================================================================
