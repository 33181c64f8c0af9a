------------------------------- MODULE Accounts -------------------------------
(***************************************************************************)
(* Accounts and the ways into them: Register, VerifyEmail, Login, the      *)
(* provider sign-in of oidc.go with its linking policy, LinkProviderToken  *)
(* and UnlinkIdentity, interleaved statement by statement.  users.email is *)
(* unique and no user is ever deleted, so an account is named by its       *)
(* address; provider and provider_user_id together are a Subject.          *)
(*                                                                         *)
(* A request that is refused, or whose first statement fails, changes      *)
(* nothing and is left out.  Passwords, claims and mail are abstracted to  *)
(* what they let a caller do: whoever calls Login here has the password,   *)
(* whoever signs in with a provider has claims with a verified address.    *)
(* The links that prove an address, which Register and Resend send and     *)
(* VerifyEmail consumes, are the subject of EmailVerification.             *)
(***************************************************************************)
EXTENDS FiniteSets

CONSTANTS Email, Subject, Identity, Request, None, Password

ASSUME NoneIsNothing  == None \notin Email \cup Subject \cup Identity
ASSUME PasswordIsNone == Password \notin Identity

VARIABLES
    users,      \* addresses with an account
    verified,   \* email_verified_at IS NOT NULL
    password,   \* password_hash IS NOT NULL
    linked,     \* identities with a row in auth_identities
    owner,      \* user_id of an identity, remembered after the row is gone
    subject,    \* provider and provider_user_id, remembered likewise
    entered,    \* accounts that have been given a session
    req,        \* where each request stands, and its local variables
    \* history, read by the properties only
    outdated,   \* unlinks whose count another deletion has outdated
    overtaken   \* accounts that lost an identity on an outdated count

table   == <<users, verified, password, linked, owner, subject>>
history == <<outdated, overtaken>>
vars    == <<table, entered, req, history>>

Idle == [at |-> "idle", subject |-> None, email |-> None, account |-> None,
         identity |-> None]

Init == /\ users = {} /\ verified = {} /\ password = {} /\ linked = {}
        /\ owner = [i \in Identity |-> None]
        /\ subject = [i \in Identity |-> None]
        /\ entered = {}
        /\ req = [r \in Request |-> Idle]
        /\ outdated = {} /\ overtaken = {}

\* The row of a subject, if it has one.
RowsOf(s) == {i \in linked : subject[i] = s}

\* What CountAuthMethods counts.
Methods(e) == {i \in linked : owner[i] = e} \cup {p \in {Password} : e \in password}

-------------------------------------------------------------------------------
(* Accounts with a password.                                               *)

\* CreateUser, unless the unique index on email refuses.
Register(e) ==
    /\ e \notin users
    /\ users' = users \cup {e}
    /\ password' = password \cup {e}
    /\ UNCHANGED <<verified, linked, owner, subject, entered, req, history>>

\* ConsumeEmailVerification with a link of that account.
VerifyEmail(e) ==
    /\ e \in users
    /\ verified' = verified \cup {e}
    /\ UNCHANGED <<users, password, linked, owner, subject, entered, req, history>>

\* Mutant: the address is not asked about.
PasswordOpens(e) == e \in password

\* Login: a password, and then a verified address.
MayLogin(e) == e \in password \cap verified

LoginUser(r, e) ==
    /\ req[r].at = "idle"
    /\ MayLogin(e)
    /\ req' = [req EXCEPT ![r] = [Idle EXCEPT !.at = "session", !.account = e]]
    /\ UNCHANGED <<table, entered, history>>

\* startSession: the caller gets a token pair for the account.
StartSession(r) ==
    /\ req[r].at = "session"
    /\ entered' = entered \cup {req[r].account}
    /\ req' = [req EXCEPT ![r] = Idle]
    /\ UNCHANGED <<table, history>>

-------------------------------------------------------------------------------
(* Provider sign-in.                                                       *)

\* signInWithProvider: IdentityByProviderSubject, with claims for s and e.
SignIn(r, s, e) ==
    /\ req[r].at = "idle"
    /\ \/ /\ RowsOf(s) = {}
          /\ req' = [req EXCEPT ![r] = [Idle EXCEPT !.at = "by_email",
                                                    !.subject = s, !.email = e]]
       \/ \E i \in RowsOf(s) :
             req' = [req EXCEPT ![r] = [Idle EXCEPT !.at = "session",
                                                    !.account = owner[i]]]
    /\ UNCHANGED <<table, entered, history>>

\* Mutant: an account that registered the address without proving it is linked.
LinkRegistered(e) == e \in users

\* "Linking automatically is only safe when the local address was proven."
MayAutoLink(e) == e \in verified

\* UserByEmail, and the linking policy.
ByEmail(r) ==
    LET e == req[r].email IN
    /\ req[r].at = "by_email"
    /\ req' = [req EXCEPT ![r] = IF e \notin users THEN [@ EXCEPT !.at = "create"]
                                 ELSE IF MayAutoLink(e) THEN [@ EXCEPT !.at = "link"]
                                 ELSE Idle]
    /\ UNCHANGED <<table, entered, history>>

\* Mutant: no unique index, only the earlier lookup.
NoIndex(s) == TRUE

\* UNIQUE (provider, provider_user_id) lets the row in.
Unclaimed(s) == RowsOf(s) = {}

\* Mutant: provider_user_id is left out of the INSERT.
InsertNoSubject(i, s, e) == /\ owner[i] = None
                            /\ linked' = linked \cup {i}
                            /\ owner' = [owner EXCEPT ![i] = e]
                            /\ UNCHANGED subject

\* INSERT INTO auth_identities, with an id drawn for the occasion.
Insert(i, s, e) == /\ owner[i] = None
                   /\ linked' = linked \cup {i}
                   /\ owner' = [owner EXCEPT ![i] = e]
                   /\ subject' = [subject EXCEPT ![i] = s]

\* CreateUserWithIdentity, both rows or neither.
CreateUserWithIdentity(r, i) ==
    LET s == req[r].subject
        e == req[r].email
    IN /\ req[r].at = "create"
       /\ e \notin users /\ Unclaimed(s)
       /\ users' = users \cup {e}
       /\ verified' = verified \cup {e}
       /\ Insert(i, s, e)
       /\ req' = [req EXCEPT ![r] = [Idle EXCEPT !.at = "session", !.account = e]]
       /\ UNCHANGED <<password, entered, history>>

\* CreateIdentity for the account that owns the address.
AutoLink(r, i) ==
    LET s == req[r].subject
        e == req[r].email
    IN /\ req[r].at = "link"
       /\ Unclaimed(s)
       /\ Insert(i, s, e)
       /\ req' = [req EXCEPT ![r] = [Idle EXCEPT !.at = "session", !.account = e]]
       /\ UNCHANGED <<users, verified, password, entered, history>>

-------------------------------------------------------------------------------
(* What a signed-in user may do to the account.                            *)

\* LinkProviderToken: any provider account, whatever its address.
LinkProviderToken(e, s, i) ==
    /\ e \in entered
    /\ Unclaimed(s)
    /\ Insert(i, s, e)
    /\ UNCHANGED <<users, verified, password, entered, req, history>>

\* Mutant: off by one in the guard of UnlinkIdentity.
NotEmpty(S) == S # {}

\* methods > 1.
MoreThanOne(S) == \E m, n \in S : m # n

\* UnlinkIdentity counts first.  The identity named may be anybody's; one
\* without a row comes to nothing.
UnlinkIdentity(r, e, i) ==
    /\ req[r].at = "idle"
    /\ e \in entered
    /\ i \in linked
    /\ MoreThanOne(Methods(e))
    /\ req' = [req EXCEPT ![r] = [Idle EXCEPT !.at = "delete", !.account = e,
                                              !.identity = i]]
    /\ UNCHANGED <<table, entered, history>>

\* Mutant: the DELETE is not scoped by user_id.
AnyRow(i, e) == i \in linked

\* The WHERE clause of DeleteIdentity.
OwnRow(i, e) == i \in linked /\ owner[i] = e

\* The other counts of this account's methods, taken and not yet acted upon.
CountsOf(r) == {q \in Request : /\ req[q].at = "delete"
                                /\ req[q].account = req[r].account}

DeleteIdentity(r) ==
    /\ req[r].at = "delete"
    /\ OwnRow(req[r].identity, req[r].account)
    /\ linked' = linked \ {req[r].identity}
    /\ req' = [req EXCEPT ![r] = Idle]
    /\ outdated' = (outdated \cup CountsOf(r)) \ {r}
    /\ overtaken' = IF r \in outdated THEN overtaken \cup {req[r].account}
                                      ELSE overtaken
    /\ UNCHANGED <<users, verified, password, owner, subject, entered>>

\* A statement fails, an index refuses, a row is not there: the request ends.
GiveUp(r) ==
    /\ req[r].at # "idle"
    /\ req' = [req EXCEPT ![r] = Idle]
    /\ outdated' = outdated \ {r}
    /\ UNCHANGED <<table, entered, overtaken>>

\* The process dies.
Crash == /\ req' = [r \in Request |-> Idle]
         /\ outdated' = {}
         /\ UNCHANGED <<table, entered, overtaken>>

Step(r) == \/ \E e \in Email : LoginUser(r, e)
           \/ StartSession(r)
           \/ \E s \in Subject, e \in Email : SignIn(r, s, e)
           \/ ByEmail(r)
           \/ \E i \in Identity : CreateUserWithIdentity(r, i)
           \/ \E i \in Identity : AutoLink(r, i)
           \/ \E e \in Email, i \in Identity : UnlinkIdentity(r, e, i)
           \/ DeleteIdentity(r)
           \/ GiveUp(r)

Next == \/ \E e \in Email : Register(e) \/ VerifyEmail(e)
        \/ \E e \in Email, s \in Subject, i \in Identity : LinkProviderToken(e, s, i)
        \/ \E r \in Request : Step(r)
        \/ Crash

Spec == Init /\ [][Next]_vars

-------------------------------------------------------------------------------
(* Properties.                                                             *)

Requests == [at       : {"idle", "session", "by_email", "create", "link", "delete"},
             subject  : Subject \cup {None},
             email    : Email \cup {None},
             account  : Email \cup {None},
             identity : Identity \cup {None}]

(* Type invariant: rows refer to rows that exist, requests carry what their *)
(* next statement binds.                                                    *)
TypeOK ==
    /\ users \subseteq Email
    /\ verified \cup password \cup entered \cup overtaken \subseteq users
    /\ users \subseteq verified \cup password
    /\ linked \subseteq Identity
    /\ outdated \subseteq Request
    /\ owner \in [Identity -> users \cup {None}]
    /\ subject \in [Identity -> Subject \cup {None}]
    /\ req \in [Request -> Requests]
    /\ \A i \in Identity : owner[i] # None <=> subject[i] # None
    /\ \A i \in linked : owner[i] # None
    /\ \A r \in Request :
          /\ req[r].at \in {"by_email", "create", "link"} =>
                req[r].subject # None /\ req[r].email # None
          /\ req[r].at = "link" => req[r].email \in users
          /\ req[r].at \in {"session", "delete"} => req[r].account \in users
          /\ req[r].at = "delete" => req[r].identity # None

(* A session is given, and a provider identity attached, only to accounts   *)
(* whose address was proven: an account somebody registered with an address *)
(* not theirs is never inherited together with its owner's provider login   *)
(* (Register, Login, signInWithProvider), however old the row the decision  *)
(* was taken on.                                                            *)
NothingBeforeProof ==
    /\ entered \subseteq verified
    /\ \A i \in linked : owner[i] \in verified

(* A provider account opens one account here, whatever sign-ins and links   *)
(* race for it (the unique index, CreateIdentity, CreateUserWithIdentity).  *)
OneAccountPerSubject ==
    \A i, j \in linked : subject[i] = subject[j] => i = j

(* An account without any way in lost an identity to an UnlinkIdentity that *)
(* counted before another one deleted; no other order of sign-ins, links    *)
(* and unlinks, of the owner or of others, locks anybody out.               *)
LockedOutOnlyByOverlap ==
    \A e \in users : Methods(e) = {} => e \in overtaken

(* What identities.sql says of CountAuthMethods: "Removing the last one     *)
(* would lock the owner out permanently, so nothing may drop this to zero". *)
LastMethodKept == \A e \in users : Methods(e) # {}
===============================================================================
