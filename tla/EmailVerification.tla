--------------------------- MODULE EmailVerification ---------------------------
(***************************************************************************)
(* Proving an address: Register, ResendEmailVerification and VerifyEmail   *)
(* over the table verification_tokens, with the mailer and the sweeper.    *)
(* Every statement is a step.  A resend retires the earlier links and then *)
(* inserts the new one, in two statements, so other requests of the same   *)
(* account may run in between; any statement may fail, mail may be lost    *)
(* and the process may die.                                                *)
(*                                                                         *)
(* The resend limiter may refuse at any time, which changes nothing here   *)
(* (RateLimit models it), and so does a link that is not usable.  A Link   *)
(* is drawn for one mail; once its row is swept nothing can come of it and *)
(* the model may use its name again.                                       *)
(***************************************************************************)
EXTENDS FiniteSets

CONSTANTS User, Link, Request, None

ASSUME NoneIsNoUserOrLink == None \notin User \cup Link

VARIABLES
    users,       \* accounts created by Register
    verified,    \* email_verified_at IS NOT NULL
    of,          \* user_id of a link's row, None without a row
    used,        \* used_at IS NOT NULL
    expired,     \* expires_at has passed
    mailed,      \* links that reached the inbox of their user
    req,         \* where each request stands, and its local variables
    \* history, read by the properties only
    newest,      \* the link inserted last for each user
    outdated,    \* requests whose retiring of links another insert followed
    overlapped   \* users for whom such a request went on to insert

table   == <<users, verified, of, used, expired>>
history == <<newest, outdated, overlapped>>
vars    == <<table, mailed, req, history>>

Idle == [at |-> "idle", user |-> None, link |-> None]

At(step, u, l) == [at |-> step, user |-> u, link |-> l]

Init == /\ users = {} /\ verified = {} /\ used = {} /\ expired = {} /\ mailed = {}
        /\ of = [l \in Link |-> None]
        /\ req = [r \in Request |-> Idle]
        /\ newest = [u \in User |-> None]
        /\ outdated = {} /\ overlapped = {}

-------------------------------------------------------------------------------
(* Sending links.                                                          *)

\* Register: CreateUser, with sendEmailVerification to follow.
Register(r, u) ==
    /\ req[r].at = "idle"
    /\ u \notin users
    /\ users' = users \cup {u}
    /\ req' = [req EXCEPT ![r] = At("insert", u, None)]
    /\ UNCHANGED <<verified, of, used, expired, mailed, history>>

\* Mutant: the error of UserByEmail is not looked at.
AnyUser(u) == u \notin verified

\* err # nil \/ user.EmailVerified() ends the request.
Unverified(u) == u \in users \ verified

\* ResendEmailVerification, once the limiter agrees: UserByEmail.
Resend(r, u) ==
    /\ req[r].at = "idle"
    /\ Unverified(u)
    /\ req' = [req EXCEPT ![r] = At("invalidate", u, None)]
    /\ UNCHANGED <<table, mailed, history>>

\* Mutant: only expired links are retired.
ExpiredLinksOf(u) == {l \in expired : of[l] = u}

\* The rows InvalidateEmailVerificationTokens finds.
LinksOf(u) == {l \in Link : of[l] = u}

InvalidateEmailVerificationTokens(r) ==
    LET u == req[r].user IN
    /\ req[r].at = "invalidate"
    /\ used' = used \cup LinksOf(u)
    /\ req' = [req EXCEPT ![r] = At("insert", u, None)]
    /\ UNCHANGED <<users, verified, of, expired, mailed, history>>

\* Requests that believe the user to be without a link.
Inserting(u) == {q \in Request : req[q].at = "insert" /\ req[q].user = u}

\* CreateVerificationToken.
CreateVerificationToken(r, l) ==
    LET u == req[r].user IN
    /\ req[r].at = "insert"
    /\ of[l] = None
    /\ of' = [of EXCEPT ![l] = u]
    /\ newest' = [newest EXCEPT ![u] = l]
    /\ outdated' = (outdated \cup Inserting(u)) \ {r}
    /\ overlapped' = IF r \in outdated THEN overlapped \cup {u} ELSE overlapped
    /\ req' = [req EXCEPT ![r] = At("mail", u, l)]
    /\ UNCHANGED <<users, verified, used, expired, mailed>>

\* SendEmailVerification; a link swept in the meantime is not worth keeping.
SendEmailVerification(r) ==
    /\ req[r].at = "mail"
    /\ mailed' = mailed \cup ({req[r].link} \ {None})
    /\ req' = [req EXCEPT ![r] = Idle]
    /\ UNCHANGED <<table, history>>

\* A statement fails, or mail does; Register and Resend log it and end.
GiveUp(r) ==
    /\ req[r].at # "idle"
    /\ req' = [req EXCEPT ![r] = Idle]
    /\ outdated' = outdated \ {r}
    /\ UNCHANGED <<table, mailed, newest, overlapped>>

-------------------------------------------------------------------------------
(* Using them, and time.                                                   *)

Usable(l) == of[l] # None /\ l \notin used \cup expired

\* Mutant: the link is burnt, and the address marked in a later statement.
BurnOnly(l) ==
    /\ l \in mailed
    /\ Usable(l)
    /\ used' = used \cup {l}
    /\ UNCHANGED <<users, verified, of, expired, mailed, req, history>>

\* ConsumeEmailVerification burns the link and marks the address in one.
VerifyEmail(l) ==
    /\ l \in mailed
    /\ Usable(l)
    /\ used' = used \cup {l}
    /\ verified' = verified \cup {of[l]}
    /\ UNCHANGED <<users, of, expired, mailed, req, history>>

Expire(l) ==
    /\ of[l] # None
    /\ l \notin expired
    /\ expired' = expired \cup {l}
    /\ UNCHANGED <<users, verified, of, used, mailed, req, history>>

\* DeleteExpiredVerificationTokens.  The names of the links are free again, so
\* nobody may go on holding them.
Sweep ==
    /\ expired # {}
    /\ of' = [l \in Link |-> IF l \in expired THEN None ELSE of[l]]
    /\ used' = used \ expired
    /\ expired' = {}
    /\ mailed' = mailed \ expired
    /\ req' = [r \in Request |-> IF req[r].link \in expired
                                 THEN [req[r] EXCEPT !.link = None] ELSE req[r]]
    /\ UNCHANGED <<users, verified, history>>

Crash ==
    /\ req' = [r \in Request |-> Idle]
    /\ outdated' = {}
    /\ UNCHANGED <<table, mailed, newest, overlapped>>

Next == \/ \E r \in Request, u \in User : Register(r, u) \/ Resend(r, u)
        \/ \E r \in Request : \/ InvalidateEmailVerificationTokens(r)
                              \/ \E l \in Link : CreateVerificationToken(r, l)
                              \/ SendEmailVerification(r)
                              \/ GiveUp(r)
        \/ \E l \in Link : VerifyEmail(l) \/ Expire(l)
        \/ Sweep
        \/ Crash

Spec == Init /\ [][Next]_vars

(* What it takes for an address to be proven in the end, beyond this code:  *)
(* the user keeps asking and opens the mail, neither PostgreSQL nor the     *)
(* mail server fails every time, and not every mail is late.  A request     *)
(* ends, the limiter refills, the sweeper loops and rows expire.            *)
ArriveInTime(r) == /\ req[r].link # None
                   /\ Usable(req[r].link)
                   /\ SendEmailVerification(r)

Fairness ==
    /\ \A u \in User : SF_vars(\E r \in Request : Resend(r, u))
    /\ \A r \in Request : /\ SF_vars(InvalidateEmailVerificationTokens(r))
                          /\ SF_vars(\E l \in Link : CreateVerificationToken(r, l))
                          /\ SF_vars(ArriveInTime(r))
                          /\ WF_vars(SendEmailVerification(r) \/ GiveUp(r))
    /\ \A l \in Link : SF_vars(VerifyEmail(l)) /\ WF_vars(Expire(l))
    /\ WF_vars(Sweep)

FairSpec == Spec /\ Fairness

-------------------------------------------------------------------------------
(* Properties.                                                             *)

Requests == [at   : {"idle", "invalidate", "insert", "mail"},
             user : User \cup {None},
             link : Link \cup {None}]

(* Type invariant: links belong to accounts, what is said of a link is said *)
(* of one with a row, and a request has the user its statement binds.       *)
TypeOK ==
    /\ users \subseteq User
    /\ verified \cup overlapped \subseteq users
    /\ of \in [Link -> users \cup {None}]
    /\ newest \in [User -> Link \cup {None}]
    /\ \A l \in used \cup expired \cup mailed : l \in Link /\ of[l] # None
    /\ req \in [Request -> Requests]
    /\ outdated \subseteq Request
    /\ \A r \in Request :
          /\ req[r].at # "idle" => req[r].user \in users
          /\ req[r].link # None => req[r].at = "mail" /\ of[req[r].link] = req[r].user

(* The promise of ResendEmailVerification, "Retire the earlier links so     *)
(* only the newest one works", as far as it holds: an older link works only *)
(* if two requests for the account overlapped between retiring the earlier  *)
(* links and inserting their own.                                           *)
OlderLinksRetired ==
    \A l \in Link : Usable(l) => l = newest[of[l]] \/ of[l] \in overlapped

(* The promise itself.                                                      *)
OnlyNewestWorks ==
    \A l \in Link : Usable(l) => l = newest[of[l]]

(* Links, mail, expiry and sweeps amount to what Accounts says of an        *)
(* account without a provider: it is registered once, then its address is   *)
(* proven, and only that of a registered account.                           *)
Account == INSTANCE Accounts
           WITH Email <- User, Subject <- {}, Identity <- {}, Request <- {},
                Password <- "password", password <- users, linked <- {},
                owner <- <<>>, subject <- <<>>, entered <- {}, req <- <<>>,
                outdated <- {}, overtaken <- {}

ImplementsAccounts == Account!Spec

(* No failure leaves an account in a place it cannot get out of: whatever   *)
(* mail was lost and whichever requests died, a registered user who keeps   *)
(* asking gets the address proven (the reason Register gives for not        *)
(* reporting a mail failure).                                               *)
EventuallyVerified == \A u \in User : u \in users ~> u \in verified
===============================================================================
