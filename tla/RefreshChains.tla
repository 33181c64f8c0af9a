----------------------------- MODULE RefreshChains -----------------------------
(***************************************************************************)
(* The session side of internal/auth: startSession, issueSession, Refresh, *)
(* handleUnusableRefresh, Logout, and the sweep of refresh_tokens, as they *)
(* run concurrently against one PostgreSQL table.  Each SQL statement is   *)
(* one step, because nothing in session.go opens a transaction: between    *)
(* the statement that spends a token and the one that inserts its          *)
(* successor, or between a lookup and the revocation it leads to, any      *)
(* other request may run.                                                  *)
(*                                                                         *)
(* Statements may fail without effect, may take effect while the caller is *)
(* told otherwise, and the process may die between any two of them.  A     *)
(* refresh whose first statement fails without effect changes nothing and  *)
(* needs no action, nor does a request with an empty or unknown token.     *)
(***************************************************************************)
EXTENDS FiniteSets

CONSTANTS Token,     \* the opaque tokens ever minted
          Family,    \* the chain identifiers ever drawn
          User,
          Request,   \* the requests that may be in flight at once
          None

ASSUME NoneIsFresh == None \notin Token \cup Family \cup User

VARIABLES
    \* the table: a row is present or not, its columns are kept apart
    rows,       \* tokens with a row
    family,     \* family_id, remembered after the row is gone
    user,       \* user_id, remembered after the row is gone
    spent,      \* used_at IS NOT NULL, remembered likewise
    revoked,    \* revoked_at IS NOT NULL, remembered likewise
    expired,    \* expires_at has passed
    \* the clients and the process
    delivered,  \* tokens that reached a client in a response
    req,        \* where each request stands, and its local variables
    \* history, read by the properties only
    parent,     \* the token whose rotation minted this one
    presented,  \* tokens that came back to a refresh or a logout
    forfeit,    \* tokens that came to a refresh twice, or to a logout
    closed,     \* chains on which RevokeRefreshFamily has run
    raced,      \* chains on which it ran while a rotation was half done
    missed      \* chains on which a lookup or a revocation failed or died

table   == <<rows, family, user, spent, revoked, expired>>
history == <<parent, presented, forfeit, closed, raced, missed>>
vars    == <<table, delivered, req, history>>

-------------------------------------------------------------------------------
(* Requests.                                                               *)

Idle == [at |-> "idle", token |-> None, family |-> None, user |-> None]

At(step, t, f, u) == [at |-> step, token |-> t, family |-> f, user |-> u]

\* The chains a request is about to insert a token into.
Issuing(f) == {r \in Request : req[r].at = "issue" /\ req[r].family = f}

\* The requests that look into a token, or have done so and are to revoke.
Examining == {r \in Request : req[r].at \in {"lookup", "revoke"}}

Init == /\ rows = {} /\ spent = {} /\ revoked = {} /\ expired = {}
        /\ family = [t \in Token |-> None]
        /\ user = [t \in Token |-> None]
        /\ delivered = {}
        /\ req = [r \in Request |-> Idle]
        /\ parent = [t \in Token |-> None]
        /\ presented = {} /\ forfeit = {} /\ closed = {} /\ raced = {} /\ missed = {}

\* Mutant: the family is derived from something a user has twice, a device say.
DerivedFamily(f) == Issuing(f) = {}

\* uuid.NewV7 draws a family nobody has.
FreshFamily(f) == Issuing(f) = {} /\ \A t \in Token : family[t] # f

\* startSession.
StartSession(r, u, f) ==
    /\ req[r].at = "idle"
    /\ FreshFamily(f)
    /\ req' = [req EXCEPT ![r] = At("issue", None, f, u)]
    /\ UNCHANGED <<table, delivered, history>>

-------------------------------------------------------------------------------
(* Refresh.                                                                *)

\* The presentation of t is remembered, whatever comes of it.
Count(t) == /\ presented' = presented \cup {t}
            /\ forfeit' = forfeit \cup ({t} \cap presented)
            /\ UNCHANGED <<parent, closed, raced, missed>>

\* Mutants: the WHERE clause without used_at, revoked_at or expires_at.
SpendableAgain(t)   == t \in rows \ (revoked \cup expired)
SpendableRevoked(t) == t \in rows \ (spent \cup expired)
SpendableExpired(t) == t \in rows \ (spent \cup revoked)

\* The WHERE clause of UseRefreshToken.
Spendable(t) == t \in rows \ (spent \cup revoked \cup expired)

\* Mutant: family_id is missing from the RETURNING clause.
LoneSuccessor(t) == At("issue", t, None, user[t])

\* Refresh goes on to issueSession with the user and family of the spent row.
Successor(t) == At("issue", t, family[t], user[t])

\* UseRefreshToken updates the row and returns its user and family.
UseWon(r, t) ==
    /\ req[r].at = "idle"
    /\ t \in delivered
    /\ Spendable(t)
    /\ spent' = spent \cup {t}
    /\ req' = [req EXCEPT ![r] = Successor(t)]
    /\ Count(t)
    /\ UNCHANGED <<rows, family, user, revoked, expired, delivered>>

\* UseRefreshToken takes effect but the caller sees an error and gives up.
UseUnanswered(r, t) ==
    /\ req[r].at = "idle"
    /\ t \in delivered
    /\ Spendable(t)
    /\ spent' = spent \cup {t}
    /\ Count(t)
    /\ UNCHANGED <<rows, family, user, revoked, expired, delivered, req>>

\* UseRefreshToken finds nothing to update: ErrRefreshInvalid.
UseLost(r, t) ==
    /\ req[r].at = "idle"
    /\ t \in delivered
    /\ ~Spendable(t)
    /\ req' = [req EXCEPT ![r] = At("lookup", t, None, None)]
    /\ Count(t)
    /\ UNCHANGED <<table, delivered>>

\* issueSession inserts a fresh token; the response may not arrive, be it
\* because the insert is reported as failed or because the client is gone.
Issue(r, t, received) ==
    /\ req[r].at = "issue"
    /\ family[t] = None
    /\ rows' = rows \cup {t}
    /\ family' = [family EXCEPT ![t] = req[r].family]
    /\ user' = [user EXCEPT ![t] = req[r].user]
    /\ delivered' = IF received THEN delivered \cup {t} ELSE delivered
    /\ parent' = [parent EXCEPT ![t] = req[r].token]
    /\ req' = [req EXCEPT ![r] = Idle]
    /\ UNCHANGED <<spent, revoked, expired, presented, forfeit, closed, raced, missed>>

\* Signing the access token, drawing the opaque one or inserting it fails.
IssueFailed(r) ==
    /\ req[r].at = "issue"
    /\ req' = [req EXCEPT ![r] = Idle]
    /\ UNCHANGED <<table, delivered, history>>

\* Mutant: any token that can no longer be used counts as reuse.
Unusable(t) == t \in rows

\* Mutant: the lookup leaves expired rows out.
ReusedInTime(t) == t \in (rows \cap spent) \ expired

\* status.UsedAt # nil: only a token that was spent is reuse.
Reused(t) == t \in rows \cap spent

\* handleUnusableRefresh looks the token up and decides.
Lookup(r) ==
    LET t == req[r].token IN
    /\ req[r].at = "lookup"
    /\ req' = [req EXCEPT ![r] =
                  IF Reused(t) THEN At("revoke", t, family[t], None)
                               ELSE Idle]
    /\ UNCHANGED <<table, delivered, history>>

-------------------------------------------------------------------------------
(* Revocation, and Logout which leads to it.                               *)

\* Logout looks the token up; any row will do, spent or not.
Logout(r, t) ==
    /\ req[r].at = "idle"
    /\ t \in delivered \cap rows
    /\ req' = [req EXCEPT ![r] = At("revoke", t, family[t], None)]
    /\ presented' = presented \cup {t}
    /\ forfeit' = forfeit \cup {t}
    /\ UNCHANGED <<table, delivered, parent, closed, raced, missed>>

\* RevokeRefreshFamily reaches the rows that exist when it runs, no others.
Revoke(r) ==
    LET f == req[r].family IN
    /\ req[r].at = "revoke"
    /\ revoked' = revoked \cup {t \in rows : family[t] = f}
    /\ closed' = closed \cup {f}
    /\ raced' = IF Issuing(f) = {} THEN raced ELSE raced \cup {f}
    /\ req' = [req EXCEPT ![r] = Idle]
    /\ UNCHANGED <<rows, family, user, spent, expired, delivered,
                   parent, presented, forfeit, missed>>

\* A lookup or a revocation fails: logged at most, never retried.
GiveUp(r) ==
    /\ r \in Examining
    /\ req' = [req EXCEPT ![r] = Idle]
    /\ missed' = missed \cup {family[req[r].token]}
    /\ UNCHANGED <<table, delivered, parent, presented, forfeit, closed, raced>>

-------------------------------------------------------------------------------
(* Time, the sweeper and crashes.                                          *)

\* A row passes expires_at.
Expire(t) ==
    /\ t \in rows \ expired
    /\ expired' = expired \cup {t}
    /\ UNCHANGED <<rows, family, user, spent, revoked, delivered, req, history>>

\* DeleteExpiredRefreshTokens deletes the rows that expired more than
\* refreshTokenGraceDays ago: of the expired ones, any.
Sweep(old) ==
    /\ old \subseteq expired
    /\ rows' = rows \ old
    /\ expired' = expired \ old
    /\ UNCHANGED <<family, user, spent, revoked, delivered, req, history>>

\* The process dies; what it had committed stays.
Crash ==
    /\ req' = [r \in Request |-> Idle]
    /\ missed' = missed \cup {family[req[r].token] : r \in Examining}
    /\ UNCHANGED <<table, delivered, parent, presented, forfeit, closed, raced>>

Step(r) == \/ \E u \in User, f \in Family : StartSession(r, u, f)
           \/ \E t \in Token : UseWon(r, t)
           \/ \E t \in Token : UseUnanswered(r, t)
           \/ \E t \in Token : UseLost(r, t)
           \/ \E t \in Token, received \in BOOLEAN : Issue(r, t, received)
           \/ IssueFailed(r)
           \/ Lookup(r)
           \/ \E t \in Token : Logout(r, t)
           \/ Revoke(r)
           \/ GiveUp(r)

Next == \/ \E r \in Request : Step(r)
        \/ \E t \in Token : Expire(t)
        \/ \E old \in SUBSET Token \ {{}} : Sweep(old)
        \/ Crash

Spec == Init /\ [][Next]_vars

-------------------------------------------------------------------------------
(* Properties.                                                             *)

Minted  == {t \in Token : family[t] # None}
Unspent == rows \ (spent \cup revoked)

Requests == [at     : {"idle", "issue", "lookup", "revoke"},
             token  : Token \cup {None},
             family : Family \cup {None},
             user   : User \cup {None}]

(* Type invariant, with what the tables of session.go may contain: rows and *)
(* column values only for minted tokens, and a family in hand wherever a    *)
(* statement needs one.                                                     *)
TypeOK ==
    /\ family \in [Token -> Family \cup {None}]
    /\ user \in [Token -> User \cup {None}]
    /\ parent \in [Token -> Token \cup {None}]
    /\ req \in [Request -> Requests]
    /\ rows \cup spent \cup revoked \cup delivered \subseteq Minted
    /\ \A t \in Minted : user[t] # None
    /\ expired \subseteq rows
    /\ forfeit \subseteq presented /\ presented \subseteq delivered
    /\ closed \subseteq Family /\ raced \subseteq closed /\ missed \subseteq Family
    /\ \A r \in Request :
          /\ req[r].at \in {"issue", "revoke"} => req[r].family # None
          /\ req[r].at = "issue" => req[r].user # None
          /\ r \in Examining => req[r].token \in Minted

(* However requests interleave, a chain never has two tokens that are       *)
(* neither spent nor revoked (UseRefreshToken, issueSession): a stolen copy *)
(* and its original cannot both be carried on.                              *)
OneUnspentPerChain ==
    \A s, t \in Unspent : family[s] = family[t] => s = t

(* No token is rotated into two successors, not even one after the other:   *)
(* "exactly one updates a row" (UseRefreshToken).                           *)
ChainIsLinear ==
    \A s, t \in Token : parent[s] = parent[t] /\ parent[s] # None => s = t

(* A session is revoked only because one of the tokens of its chain was     *)
(* presented twice or handed to Logout.  A client that presents each token  *)
(* once is never signed out by somebody else's timing, by an expiry or by a *)
(* revocation in progress (handleUnusableRefresh).                          *)
NoFalseRevocation ==
    \A t \in revoked : \E s \in forfeit : family[s] = family[t]

(* Reuse detection misses nothing.  A token that comes back, or is handed   *)
(* to Logout, has its chain revoked as long as it has a row, however the    *)
(* requests overlapped and whatever became of the row in between, unless    *)
(* the lookup or the revocation itself failed or died.  The exception is a  *)
(* token that expired before anybody spent it: its chain has nothing left   *)
(* (Refresh, handleUnusableRefresh, Logout).                                *)
ReuseIsNeverMissed ==
    \A t \in forfeit \cap rows :
        \/ t \in expired \ spent
        \/ family[t] \in closed \cup missed
        \/ \E r \in Examining : req[r].token = t

(* All the tokens of a chain belong to one user: rotation and concurrent    *)
(* sign-ins never move a session to another account (issueSession).         *)
OneUserPerChain ==
    \A s, t \in Minted : family[s] = family[t] => user[s] = user[t]

(* Once RevokeRefreshFamily has run on a chain, at whatever time, no token  *)
(* of it is left and no request can add one, unless a rotation was between  *)
(* its two statements at that moment.                                       *)
DeadUnlessRaced ==
    \A f \in closed \ raced : /\ Issuing(f) = {}
                              /\ \A t \in Unspent : family[t] # f

(* What Logout's comment says: "Logout revokes the whole chain, so a copy   *)
(* taken earlier in it is dead too".  No exception for a half done rotation.*)
RevokedChainStaysDead ==
    \A t \in delivered : Spendable(t) => family[t] \notin closed

(* The table and the requests implement the chain of TokenChain: a token is *)
(* live while it can be spent, and a request that has spent one, or opened  *)
(* a chain, holds the right to the next.                                    *)
Chain == INSTANCE TokenChain
         WITH chain <- family,
              live  <- {t \in Token : Spendable(t)},
              owed  <- {f \in Family : Issuing(f) # {}}

ImplementsTokenChain == Chain!Spec
===============================================================================
