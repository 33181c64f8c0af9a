# Verification of go-api-starter

TLA+ modules for this API, from the environment it reads at boot to the rows its
requests leave behind, TLC configurations that check them on small instances,
and TLAPS proofs of their main properties for every size. All sources named here are under `src/`; line numbers are in
`PROJECT.json`.

## The system

A Go HTTP service over PostgreSQL. Each request runs in its own goroutine and
calls the store one SQL statement at a time; nothing in `internal/auth` opens a
transaction. What makes a statement safe is its own `WHERE` clause or a unique
index. Between two statements of a request any other request, the sweeper or
the death of the process may come. That is where the hard behaviour is, and
where the models are detailed.

| Part | State | Operations |
|---|---|---|
| Refresh sessions (`auth/session.go`) | `refresh_tokens`: user, family, used, revoked, expiry | start a session, refresh (spend, then insert the successor), detect reuse, log out, sweep |
| Accounts (`auth/register.go`, `login.go`, `oidc.go`, `identity.go`) | `users`, `auth_identities` | register, log in, sign in with a provider (known identity, new account, automatic link), link, unlink |
| Email verification (`auth/register.go`, `verifyemail.go`) | `verification_tokens`, mail on its way | register, resend (retire, then insert, then mail), verify, sweep |
| Rate limits (`ratelimit/memory.go`) | a map of buckets in the process, swept by its own callers | `Allow` |
| Browser and native sign-in (`auth/oidc_web.go`, `oidc_native.go`, `provider_google.go`) | `oauth_states`; the providers the process was configured with | start, callback (consume, exchange, sign in), native token, sweep |
| Handlers and cookie (`auth/handler.go`, `cookie.go`) | none; the browser's cookie jar | choose cookie or body, for the token presented and for the one returned |
| Life cycle (`cmd/api`, `app/app.go`, `auth/sweep.go`, `db/postgres.go`, `health/`) | listener, pool, sweeper, requests in flight | read the configuration, connect, migrate, serve, sweep every 15 minutes, shut down |
| Configuration (`config/`) | none | read, default, check |
| Edge (`middleware/`, `token/`, `httperr/`, `openapi/`, `appversion/`, `calculator/`) | what one request has been told so far | public paths, bearer tokens, client address, contract, panics, the log |
| Others | I/O or cryptography only | mail, password hashes, signing |

Accounts give a user to a session: `Login` and the provider sign-in end in
`startSession`. Email verification sets the flag that `Login` and automatic
linking wait for. The limiters stand before `Login`, before the resend and
before everything, per address. The sweeper deletes expired rows from three
tables while requests use them.

## Modules

`TokenChain` says what a rotation chain promises: it holds one live token, or
the right to the next one, or nothing, and never two of them. `RefreshChains`
is the code: the columns of `refresh_tokens` are `rows`, `family`, `user`,
`spent` (`used_at`), `revoked` (`revoked_at`), `expired`; `req` is where each
request stands between two statements. `UseWon`, `UseLost` and `UseUnanswered`
are the outcomes of the one conditional UPDATE; `Issue` and `IssueFailed` of
`issueSession`; `Lookup` and `Revoke` are `handleUnusableRefresh`, and `Logout`
joins it at `Revoke`. Columns of a deleted row are remembered, for the
properties; no action reads them.

`Accounts` names an account by its address, because `users.email` is unique and
no user is ever deleted. `SignIn`, `ByEmail`, `CreateUserWithIdentity` and
`AutoLink` are the statements of `signInWithProvider`; `UnlinkIdentity` and
`DeleteIdentity` the two of an unlink.

`SessionClients` puts the two ends to `RefreshChains`: the handlers, which take
a refresh token from the cookie or the body and answer with one or the other,
and clients with a cookie jar that tabs share and a memory, whose requests and
answers overtake one another. Every statement of the server between request and
answer is still a step of its own; `asked` is what a handler remembers across
them, `wire` the answers on their way. A client presents only what it holds.

`EmailVerification` details the part of `Accounts` that registers and proves an
address: the links, their mail, their expiry.  It is shown to implement
`Accounts` with no provider.

`BrowserSignIn` puts in front of `Accounts` the ways a sign-in may arrive.
`states` is the table `oauth_states`; `CompleteProviderSignIn` is the callback up
to its exchange (the row is deleted first, and may be deleted in vain),
`Exchange` and `ExchangeFails` the provider, `SignInWithClaims` the first
statement of `signInWithProvider`. State, nonce and verifier are one name, as
they are drawn and stored together. `tabs`, `codes` and `Agree` are the world:
browsers, and owners of provider accounts who agree or do not. A code may come
back with any state. `SignInWithProviderToken` and `LinkWithProviderToken` are a
native client's, with tokens made out to our clients or to another application.
A `Restart` loses the requests under way and may lose providers, not rows. PKCE
is not relied on: `Exchange` takes whatever code belongs to the provider. Every
step is shown to be a step of `Accounts` or none.

`Configuration` is `config.Load`: every key, the parser it is read by, its
default, and what `validate` makes of the whole. `Lifecycle` is one process:
`env` is what `getenv` answers, until `Load` has read it; `stage` is the line
`Run` is at; `listener` the goroutine of `ListenAndServe`; `pool` the `pgxpool`,
which `ClosePool` and `Exit` close as the `defer` does; `req` a request on a
network connection of its own, with or without one of the pool; `sweeper` the
goroutine that nobody waits for. What requests and sweeps do to the tables is in
the other modules; `Lifecycle` says between which statements they may stop.

`Edge` follows one request through the layers that `newHTTPServer` chains, `at`
being the next: CORS, the validator, the limiter, `Authenticate`, the mux, the
generated wrapper (`Bind`), the strict handler (`Decode`), the handler, and the
two halves of its answer (`Visit`, `Encode`), with a panic at any of them.
`sent` is the status on the wire, `recorder` is `statusRecorder`, `logged` the
status in the log. `Operations` holds what the generated code and the handlers
have for each of the eighteen operations: route, parameters, body, responses,
errors. `Versions` is the gate for old clients.

`TokenBucket` is a limiter that never forgets a key; `RateLimit` is
`ratelimit.Memory`, which drops idle buckets, and is shown to implement it. The
bucket itself is `rate.Limiter` of `golang.org/x/time`, modelled from its use:
credit in ticks instead of fractions of a token.

The `MC` modules add symmetry sets and the inputs TLC enumerates; the `Proofs` modules hold the theorems.

Left out everywhere: hashing, the wording of errors and of the log, and, but for
`Edge`, requests that are refused before they change anything. A statement that fails without effect is
an action only where something already happened in its request.

## Runs

| Run | Question | Bounds |
|---|---|---|
| `refresh_safety` | Is a chain ever forked, revoked without cause, or alive after it was revoked? Is a token that comes back ever overlooked? | 3 tokens, 2 chains, 1 user, 2 requests |
| `refresh_race` | Is a revoked chain dead, as `Logout` says? No. | 3 tokens, 1 chain, 1 user, 2 requests |
| `accounts` | Does anyone enter or link to an account that was not proven, own a provider account twice, or get locked out by something other than overlapping unlinks? | 2 addresses, 2 provider accounts, 4 identity rows, 2 requests |
| `session_clients` | Is what a client holds what it was handed? Is a client signed out that waited for every answer? Does its session change transport? Can a client that logged out be left holding a cookie, other than by the answer to a refresh that the logout overtook? | 1 client, 3 tokens, 1 chain, 1 user, 2 requests |
| `unlink_race` | May the number of login methods drop to zero? Yes. | 1 address, 2 provider accounts, 2 rows, 2 requests |
| `verification` | Does an older link work, other than after overlapping requests? Do links, mail and sweeps amount to what `Accounts` assumes? Can an account get stuck unverified? | 1 user, 2 links, 2 requests |
| `resend_race` | Does only the newest link work? No. | 1 user, 2 links, 2 requests |
| `ratelimit` | Does the limit hold over every window, and is dropping buckets invisible? | 2 keys, burst 2, 2 ticks a token, idle time 4, sweep every 3, 13 ticks |
| `browser_sign_in` | Can a callback be replayed, finish what another person started, or attach an account whose owner never asked? Do attempts survive restarts? | 2 attempts, 2 providers with an account each, 1 address, 1 identity row, 2 applications, 2 requests |
| `lifecycle` | Does a signal end the process? Is a request cut off in silence, a statement in the middle? Is everything swept in the end? Does a configuration that loads run on a guess, and is a broken one fixed in one pass? | 2 requests, pools of 1 and 10, every environment that differs in at most two keys from a minimal or a complete one, one of the two a key that is compared with others |
| `edge` | Who reaches which handler? Does the log say what the client was told? Who is a request counted for? What does the contract not say? Which of the versions that can be read have to upgrade? | every route with two providers, every page and near miss, with and without a slash; 2 hops and proxies; 10 versions |
| `unreadable_version` | Is a version that cannot be read spared the upgrade, as the contract says? No. | as `edge` |

Two requests are enough for every race between a pair of statements; the third
token lets a chain rotate twice, so that a replay of the first token meets a
live third one; the fourth identity row lets both provider accounts be linked,
unlinked and linked again. The rate-limit run lasts for more than four sweep
intervals, with an idle time that is just the time to refill, the least for
which dropping a bucket is invisible; the application's are hours.

In `session_clients` one chain lets two tabs of one client race over a cookie
through two statements at a time. A second client could present nothing of the
first one's, and a second session of the same client, one in the cookie and one
in memory, is left to the proof of `OneTransportPerChain`, which holds for any
number of clients, sessions and requests. That a chain stays with its user, and
that it has one unspent token even among the expired, is proved (`Owned`,
`Unique`) and checked by no run, the latter but for the expired being part of
`ImplementsTokenChain`; a second user of `refresh_safety` and of
`verification` is left to the proofs in the same way. The view of
`session_clients` leaves out history that neither guards nor its properties read.

In `browser_sign_in` two attempts and two requests are what a mixed-up or a
replayed callback needs, and two providers let a code go to the wrong one (its
symmetry also exchanges the two providers together with their accounts); the
rows of `Accounts` are fewer than in `accounts`, which checks them, and what is
proved there is carried over: that the flow is made of steps of `Accounts` is
proved (`Refinement`) and checked by no run. In `lifecycle` a pool of one connection makes the
sweeper and the requests wait for each other. `NothingRunsOnAGuess` and
`OneDeployFixes` look at the environment before `Load`; that they hold of every
environment, not only of these, is proved.

`edge` is one request because requests share nothing there but the limiter, which
is `RateLimit`. Its list `Unwritten` names the statuses that operations answer
with and the contract does not have:

- binding answers 400 where a header or a query parameter is there twice, one
  that is required is missing, or an id is no UUID (`GetAppConfig`,
  `StartProviderSignIn`, `UnlinkIdentity`), and decoding answers 400 to a broken
  body (`Logout`, `LinkIdentity`);
- errors of handlers that no response type describes go out all the same: 401 and
  502 of `CompleteProviderSignIn`, 502 of `SignInWithProviderToken` and
  `LinkIdentity`, 422 of `StartProviderSignIn`, 404 of `GetMe` and
  `ListIdentities`.

The four runs that end in a counterexample are disagreements between the code
and what its comments promise. For three of them a safety property of a passing
run says how far the promise does hold (`DeadUnlessRaced`,
`LockedOutOnlyByOverlap`, `OlderLinksRetired`): the race in the counterexample
is the only way. For the last, a theorem says it (`UnreadableIsZero`).

- A revocation updates the rows there are. A refresh that has spent its token
  and not yet inserted the successor escapes it, and the chain lives on.
- An unlink counts the methods and then deletes. Two at once delete both.
- A resend retires the earlier links and then inserts. Two at once leave two.
- "An unknown platform or an unreadable version is never forced to upgrade"
  (`docs/openapi.yaml:438`; `appversion.go:32` says the same of `Decide`).
  `Decide` spares the empty version only; a component that is no number counts
  as zero in `Compare`, and the client is told to upgrade by every minimum above
  that. `UpgradeDecision` therefore speaks of versions that can be read.

What the models show besides, for which no run was spent:

- "A client that asked to leave is never left holding a token" (`handler.go:111`)
  has an exception. The answer to a refresh that was spent before the logout and
  arrives after the logout's sets the cookie again. `LeavesWithNothing` says, and
  `LeavesEmpty` proves, that nothing else does.
- `httperr` is not "the only place errors become HTTP responses"
  (`httperr.go:1`): a parameter that cannot be bound, and a path or a method that
  the mux does not know, are answered in plain text by the generated code and by
  `net/http`. A callback without a `code` is one of them, and its state is not
  consumed.
- The two probes are under the contract's global `bearerAuth`
  (`docs/openapi.yaml:33`), and public.
- "Always 204, even for a missing body" (`handler.go:235`) is true of the handler
  only: the decoder has answered 400 before it.
- `RegisterUser` may create an account and answer 500: the address goes through
  `mail.ParseAddress` on its way in and through the stricter
  `openapi_types.Email` on its way out. `HonestAnswer` makes the exception.
- `NaN` is taken for a rate, and a `HTTP_SHUTDOWN_TIMEOUT` of zero or less makes
  `Shutdown` give up at once. A wrong `APP_ENV` hides that `VALIDATE_SPEC` is
  refused in production until the next deploy; `OneDeployFixes` speaks of who
  writes values that work elsewhere too.
- No statement has a timeout of the server's own, and `pool.Close` waits for
  every connection that is out: `Stops` needs a database that answers.

## Fairness

Two runs need it. In `verification` the code never retries by itself: what
makes an address verified in the end is a user who keeps asking and who opens
the mail, a database and a mail server that do not fail every time, and mail
that is not late every time. Hence strong fairness for the resend, its
statements, the mail in time and the use of a link. Rows expire, a request ends
and the sweeper loops whatever anybody does: weak fairness. Nothing is assumed
of lost mail, failing statements or crashes, which may happen any number of
times.

In `lifecycle` Go schedules what can run and the timers fire: weak fairness for
`Run` as a whole and for the ticker. The database ends a statement once it has
begun: weak fairness for that, of requests and of the sweeper. The pool serves
its waiters in order, so the sweeper gets a connection although others pass it
(strong fairness for `SweepAcquires`), and the database does not refuse the same
DELETE for ever (strong fairness for each `Deleted`). No request is assumed to
arrive or to be answered, no signal to come, and `Serve` never has to fail.

No other run assumes fairness, so there the system may stop anywhere.

## Proofs

For every number of tokens, chains, users, requests, clients, addresses, keys,
attempts, providers, paths and proxies, every environment and all limits, TLAPS
proves the type invariant and every safety property of the passing runs, and the
refinements of `TokenChain`, `RefreshChains` (by `SessionClients`), `Accounts`
(by `EmailVerification` and by `BrowserSignIn`) and `TokenBucket`. Each `Proofs`
module has an inductive invariant:

- `RefreshChains`: a chain is unspent in at most one token or held by at most
  one request that is to insert the next, not both, which is what
  `OneUnspentPerChain` lacks to be inductive; a request holds the user and the
  chain of the token it has spent, and nobody else's spent token; a request
  that is to revoke comes from a token that forfeited its chain. For
  `ReuseIsNeverMissed`, `LostForGood`: a token that is looked up, or was presented
  without being forfeited, cannot be spent any more, so that nobody spends it
  while its examiner waits and comes back later as the first to present it.
  Two results follow that no run states: `ForGood`, a closed chain stays closed
  in every step, and `TheftEnds`, which puts them together: when a token has come
  back and nobody examines it any more, nothing of its chain can be spent or
  issued, but for a revocation that failed, or met a half done rotation.
  `ChainPromise` shows that `TokenChain` itself is worth implementing: its steps
  alone never multiply what a chain holds, whatever is lost on the way.
- `Accounts`: a request that is to give a session, or to link, is for an
  address already proven, and proofs are never taken back; the login methods a request
  has counted are still there when it deletes one, unless another deletion came
  between.
- `EmailVerification`: while a request is to insert a link and no other has
  inserted one since it retired the earlier ones, no link of its user works.
- `SessionClients`: a request that is to insert the next token of a chain will
  send it to the client, and the way, the earlier ones went. The rest comes from
  the invariant of `RefreshChains`, through the refinement, and with it
  `SafeBehindHandlers` and the chain of `TokenChain`, end to end. For
  `PatientClientStaysIn` a second invariant, `PatienceInv`, of chains that
  nothing has disturbed: at most one answer is on its way, with an unspent
  token, and then nobody is about to insert another; no request looks up a spent
  token or is to revoke the chain; a client holds a spent token only while the
  next is awaited. When that arrives it replaces the spent one, because the chain
  has one transport (`OneTransport`). Most steps are alike here, and are covered
  by one lemma, `Undisturbed`. `LeavesWithNothing` is inductive as it stands: a
  jar that is empty presents no cookie, so nothing new gets under way.
- `BrowserSignIn`: a code that is out was given by who agreed to the attempt it
  is for, and a callback that has passed the nonce carries such a code, which is
  `FinishedByWhoAgreed` one step earlier; a request that is to sign in or link
  carries the subject of someone who wanted in. First it is shown that every
  step is a step of `Accounts`, so that what is proved of `Accounts` need not be
  proved again (`SafeHoweverSignedIn`).
- `Lifecycle`: the pool is open from `Connect` to the deferred `Close` and no
  connection of it is out at the end; nobody has been let in before the server
  listens; and once `Run` is past `Shutdown`, either its time was up, or the
  server broke, or there is no request left. `NothingRunsOnAGuess` and
  `OneDeployFixes` speak of the environment alone and are proved from the tables
  of `Configuration`, key by key.
- `Edge`: how far a request has come and what it has been told by then; what the
  recorder holds of what was sent; and that whoever is past `Authenticate` is on
  a public path or has shown a good token. That the lists agree rests on lemmas
  about the paths, that a caller cannot choose its address on one about the end
  of a sequence. That `Compare` finds the first difference needs the least
  element of a set of numbers (`Least`); from there `UpgradeDecision` follows for
  versions of any length, and that versions are ordered (`VersionsAreOrdered`)
  and the gate is monotone (`GateIsMonotone`). An unreadable version is forced
  by exactly the minima above zero (`UnreadableIsZero`).
- `RateLimit`: what a key was granted since a moment, plus the credit it has
  left, is at most its burst plus the time passed, and a bucket idle for `t`
  ticks has regained `t` of credit. `WindowBound` and the refinement need
  `DroppedOnlyWhenFull`: the idle time covers a refill. The code does not check
  its configuration for it. Where it does not hold, `BoundedAnyhow` says what is
  left of the ceiling: a burst, and another for every idle time that has passed.
  `SpacedCallsAreGranted` is the other side, for every setting: the limiter is
  never tighter than one call per refill.

The only other assumptions are that `None` is none of the values it stands
beside, that limits are numbers, that paths, versions and headers are sequences
of what they are made of (`EdgeAssumption`), that a provider account belongs to
one provider (`ProvidersOfSubjects`) and that an environment answers what a
parser can be given (`EnvironmentAssumption`). `EventuallyVerified`, `Stops` and
`KeepsSweeping` rest on fairness, which is out of the prover's reach, and are
model-checked only.

## Plan

Done, in the order of what is lost when they fail: refresh sessions, accounts,
email verification, rate limits, the clients of a session, sign-in through a
browser or a native client, the life cycle with its configuration, and the edge.
What would come next:

1. Requests that travel: a client's request reaches the server at the moment it
   is sent, so that a second one can overlap the first only between two
   statements. With a way there as well as back, a refresh that lingers until
   after the logout would join the exception in `LeavesWithNothing`.
2. Replicas: several processes with limiters of their own over one database. The
   requests of one process interleave as those of several would, so only the
   limits, which add up, and migrations at the same moment would be new.

## Not modelled

- Mail (`mailer/`) and password hashing (`password.go`): I/O and a pure function
  too large for either tool. Models that depend on them let them fail or succeed.
- Signing and checking of tokens, of provider tokens and their keys, and the
  discovery of providers: cryptography and the network, by outcome only.
- The validator of `ValidateSpec`, `net/http`, `pgxpool`, `goose` and the
  database are modelled from how the code uses them. What goose does when two
  replicas migrate at once is its own.
- The embedded contract and the types of request and response bodies, the pages
  of `apidocs` and `devconsole`, error codes and details, response headers and
  request ids: no decision of the code depends on them but the ones modelled.
- `http.ErrAbortHandler`, which `Recover` passes on, the `-health` flag, and the
  decimal arithmetic of the calculator.
