---------------------------- MODULE AccountsProofs ----------------------------
(***************************************************************************)
(* The safety properties of Accounts for any number of addresses, provider *)
(* accounts and concurrent requests.  The strengthening says what the      *)
(* requests know between their statements: whom a session was decided for  *)
(* was proven at that time and still is, and a count that nothing has      *)
(* outdated still holds.                                                   *)
(***************************************************************************)
EXTENDS Accounts, TLAPS

DecidedOnProof ==
    \A r \in Request :
        /\ req[r].at = "session" => req[r].account \in verified
        /\ req[r].at = "link" => req[r].email \in verified
        /\ req[r].at = "delete" => req[r].account \in entered

CountsHold ==
    \A r \in Request : req[r].at = "delete" /\ r \notin outdated =>
        MoreThanOne(Methods(req[r].account))

\* An account that only a provider can open has been given an identity.
ProofInv    == DecidedOnProof /\ NothingBeforeProof
IdentityInv == OneAccountPerSubject
MethodInv   == CountsHold /\ LockedOutOnlyByOverlap

IInv == TypeOK /\ ProofInv /\ IdentityInv /\ MethodInv

-------------------------------------------------------------------------------
LEMMA InitInv == Init => IInv
  BY NoneIsNothing
  DEF Init, IInv, TypeOK, Requests, Idle, ProofInv, DecidedOnProof, NothingBeforeProof,
      IdentityInv, OneAccountPerSubject, MethodInv, CountsHold, LockedOutOnlyByOverlap

LEMMA TypeStep == TypeOK /\ [Next]_vars => TypeOK'
<1> SUFFICES ASSUME TypeOK, [Next]_vars PROVE TypeOK'
  OBVIOUS
<1> USE NoneIsNothing DEF TypeOK, Requests, Idle, table, history
<1>1. ASSUME NEW e \in Email, Register(e) PROVE TypeOK'
  BY <1>1 DEF Register
<1>2. ASSUME NEW e \in Email, VerifyEmail(e) PROVE TypeOK'
  BY <1>2 DEF VerifyEmail
<1>3. ASSUME NEW e \in Email, NEW s \in Subject, NEW i \in Identity,
             LinkProviderToken(e, s, i)
      PROVE  TypeOK'
  BY <1>3 DEF LinkProviderToken, Insert
<1>4. ASSUME NEW r \in Request, NEW e \in Email, LoginUser(r, e) PROVE TypeOK'
  BY <1>4 DEF LoginUser, MayLogin
<1>5. ASSUME NEW r \in Request, StartSession(r) PROVE TypeOK'
  BY <1>5 DEF StartSession
<1>6. ASSUME NEW r \in Request, NEW s \in Subject, NEW e \in Email, SignIn(r, s, e)
      PROVE  TypeOK'
  <2>1. CASE req' = [req EXCEPT ![r] = [Idle EXCEPT !.at = "by_email",
                                                    !.subject = s, !.email = e]]
    BY <1>6, <2>1 DEF SignIn
  <2>2. ASSUME NEW i \in RowsOf(s),
               req' = [req EXCEPT ![r] = [Idle EXCEPT !.at = "session",
                                                      !.account = owner[i]]]
        PROVE  TypeOK'
    <3>1. owner[i] \in users
      BY DEF RowsOf
    <3>. QED BY <1>6, <2>2, <3>1 DEF SignIn
  <2>. QED BY <1>6, <2>1, <2>2 DEF SignIn
<1>7. ASSUME NEW r \in Request, ByEmail(r) PROVE TypeOK'
  BY <1>7 DEF ByEmail
<1>8. ASSUME NEW r \in Request, NEW i \in Identity, CreateUserWithIdentity(r, i)
      PROVE  TypeOK'
  <2>1. req[r].subject \in Subject /\ req[r].email \in Email
    BY <1>8 DEF CreateUserWithIdentity
  <2>2. /\ users' = users \cup {req[r].email}
        /\ owner' = [owner EXCEPT ![i] = req[r].email]
        /\ subject' = [subject EXCEPT ![i] = req[r].subject]
        /\ req' = [req EXCEPT ![r] = [Idle EXCEPT !.at = "session",
                                                  !.account = req[r].email]]
    BY <1>8 DEF CreateUserWithIdentity, Insert
  <2>3. owner' \in [Identity -> users' \cup {None}]
    BY <2>1, <2>2
  <2>4. req' \in [Request -> Requests]
    BY <2>1, <2>2
  <2>. QED BY <1>8, <2>1, <2>2, <2>3, <2>4 DEF CreateUserWithIdentity, Insert
<1>9. ASSUME NEW r \in Request, NEW i \in Identity, AutoLink(r, i) PROVE TypeOK'
  <2>1. req[r].subject \in Subject /\ req[r].email \in users
    BY <1>9 DEF AutoLink
  <2>2. /\ owner' = [owner EXCEPT ![i] = req[r].email]
        /\ subject' = [subject EXCEPT ![i] = req[r].subject]
        /\ linked' = linked \cup {i}
        /\ req' = [req EXCEPT ![r] = [Idle EXCEPT !.at = "session",
                                                  !.account = req[r].email]]
        /\ UNCHANGED <<users, verified, password, entered, history>>
    BY <1>9 DEF AutoLink, Insert
  <2>3. req' \in [Request -> Requests]
    BY <2>1, <2>2
  <2>. QED BY <2>1, <2>2, <2>3
<1>10. ASSUME NEW r \in Request, NEW e \in Email, NEW i \in Identity,
              UnlinkIdentity(r, e, i)
       PROVE  TypeOK'
  BY <1>10 DEF UnlinkIdentity
<1>11. ASSUME NEW r \in Request, DeleteIdentity(r) PROVE TypeOK'
  BY <1>11 DEF DeleteIdentity, OwnRow, CountsOf
<1>12. ASSUME NEW r \in Request, GiveUp(r) PROVE TypeOK'
  BY <1>12 DEF GiveUp
<1>13. CASE Crash
  BY <1>13 DEF Crash
<1>14. CASE UNCHANGED vars
  BY <1>14 DEF vars
<1>. QED
  BY <1>1, <1>2, <1>3, <1>4, <1>5, <1>6, <1>7, <1>8, <1>9, <1>10, <1>11, <1>12,
     <1>13, <1>14 DEF Next, Step

\* A decision to give a session or a row is taken on a proven address, and an
\* address once proven stays so until the decision is carried out.
LEMMA ProofStep == TypeOK /\ ProofInv /\ [Next]_vars => ProofInv'
<1> SUFFICES ASSUME TypeOK, ProofInv, [Next]_vars PROVE ProofInv'
  OBVIOUS
<1> USE NoneIsNothing
    DEF TypeOK, Requests, Idle, table, history, ProofInv, DecidedOnProof, NothingBeforeProof
<1>1. ASSUME NEW e \in Email, Register(e) \/ VerifyEmail(e) PROVE ProofInv'
  BY <1>1 DEF Register, VerifyEmail
<1>2. ASSUME NEW e \in Email, NEW s \in Subject, NEW i \in Identity,
             LinkProviderToken(e, s, i)
      PROVE  ProofInv'
  BY <1>2 DEF LinkProviderToken, Insert
<1>3. ASSUME NEW r \in Request, NEW e \in Email, LoginUser(r, e) PROVE ProofInv'
  BY <1>3 DEF LoginUser, MayLogin
<1>4. ASSUME NEW r \in Request, StartSession(r) PROVE ProofInv'
  BY <1>4 DEF StartSession
<1>5. ASSUME NEW r \in Request, NEW s \in Subject, NEW e \in Email, SignIn(r, s, e)
      PROVE  ProofInv'
  <2>1. CASE req' = [req EXCEPT ![r] = [Idle EXCEPT !.at = "by_email",
                                                    !.subject = s, !.email = e]]
    BY <1>5, <2>1 DEF SignIn
  <2>2. ASSUME NEW i \in RowsOf(s),
               req' = [req EXCEPT ![r] = [Idle EXCEPT !.at = "session",
                                                      !.account = owner[i]]]
        PROVE  ProofInv'
    BY <1>5, <2>2 DEF SignIn, RowsOf
  <2>. QED BY <1>5, <2>1, <2>2 DEF SignIn
<1>6. ASSUME NEW r \in Request, ByEmail(r) PROVE ProofInv'
  BY <1>6 DEF ByEmail, MayAutoLink
<1>7. ASSUME NEW r \in Request, NEW i \in Identity,
             CreateUserWithIdentity(r, i) \/ AutoLink(r, i)
      PROVE  ProofInv'
  <2>1. /\ linked' = linked \cup {i}
        /\ owner' = [owner EXCEPT ![i] = req[r].email]
        /\ req' = [req EXCEPT ![r] = [Idle EXCEPT !.at = "session",
                                                  !.account = req[r].email]]
        /\ verified \subseteq verified' /\ req[r].email \in verified'
        /\ entered' = entered
    BY <1>7 DEF CreateUserWithIdentity, AutoLink, Insert
  <2>. QED BY <2>1
<1>8. ASSUME NEW r \in Request, NEW e \in Email, NEW i \in Identity,
             UnlinkIdentity(r, e, i)
      PROVE  ProofInv'
  BY <1>8 DEF UnlinkIdentity
<1>9. ASSUME UNCHANGED <<verified, owner, entered>>,
             linked' \subseteq linked,
             \A q \in Request : req'[q] \in {req[q], Idle}
      PROVE  ProofInv'
  BY <1>9
<1>10. ASSUME \/ \E r \in Request : DeleteIdentity(r) \/ GiveUp(r)
              \/ Crash
              \/ UNCHANGED vars
       PROVE  ProofInv'
  BY <1>9, <1>10 DEF DeleteIdentity, GiveUp, Crash, vars
<1>. QED
  BY <1>1, <1>2, <1>3, <1>4, <1>5, <1>6, <1>7, <1>8, <1>10 DEF Next, Step

\* Only an INSERT could give a subject a second row, and the index refuses it.
LEMMA IdentityStep == TypeOK /\ IdentityInv /\ [Next]_vars => IdentityInv'
<1> SUFFICES ASSUME TypeOK, IdentityInv, [Next]_vars PROVE IdentityInv'
  OBVIOUS
<1> USE DEF TypeOK, table, IdentityInv, OneAccountPerSubject
<1>1. ASSUME NEW i \in Identity, NEW s \in Subject, NEW e, Unclaimed(s), Insert(i, s, e)
      PROVE  IdentityInv'
  <2>1. i \notin linked
    BY <1>1 DEF Insert
  <2>. QED BY <1>1, <2>1 DEF Unclaimed, RowsOf, Insert
<1>2. ASSUME NEW e \in Email, NEW s \in Subject, NEW i \in Identity,
             LinkProviderToken(e, s, i)
      PROVE  IdentityInv'
  BY <1>1, <1>2 DEF LinkProviderToken
<1>3. ASSUME NEW r \in Request, NEW i \in Identity,
             CreateUserWithIdentity(r, i) \/ AutoLink(r, i)
      PROVE  IdentityInv'
  <2>1. req[r].subject \in Subject
    BY <1>3, NoneIsNothing DEF CreateUserWithIdentity, AutoLink, Requests
  <2>2. Unclaimed(req[r].subject) /\ Insert(i, req[r].subject, req[r].email)
    BY <1>3 DEF CreateUserWithIdentity, AutoLink
  <2>. QED BY <1>1, <2>1, <2>2
<1>4. ASSUME linked' \subseteq linked, UNCHANGED subject PROVE IdentityInv'
  BY <1>4
<1>5. ASSUME \/ \E e \in Email : Register(e) \/ VerifyEmail(e)
             \/ \E r \in Request : \/ \E e \in Email : LoginUser(r, e)
                                   \/ StartSession(r)
                                   \/ \E s \in Subject, e \in Email : SignIn(r, s, e)
                                   \/ ByEmail(r)
                                   \/ \E e \in Email, i \in Identity : UnlinkIdentity(r, e, i)
                                   \/ DeleteIdentity(r)
                                   \/ GiveUp(r)
             \/ Crash
             \/ UNCHANGED vars
      PROVE  IdentityInv'
  BY <1>4, <1>5
  DEF Register, VerifyEmail, LoginUser, StartSession, SignIn, ByEmail, UnlinkIdentity,
      DeleteIdentity, GiveUp, Crash, vars
<1>. QED
  BY <1>2, <1>3, <1>5 DEF Next, Step

\* A count that nothing has outdated still holds when the DELETE runs, so one
\* method is left; a DELETE for one account takes nothing from another.
LEMMA MethodStep == TypeOK /\ ProofInv /\ MethodInv /\ [Next]_vars => MethodInv'
<1> SUFFICES ASSUME TypeOK, ProofInv, MethodInv, [Next]_vars PROVE MethodInv'
  OBVIOUS
<1>0. TypeOK'
  BY TypeStep
<1> USE NoneIsNothing, PasswordIsNone, <1>0
    DEF TypeOK, Requests, Idle, table, history, MethodInv, CountsHold, LockedOutOnlyByOverlap,
        MoreThanOne
<1>1. ASSUME \A e \in users : Methods(e) \subseteq Methods(e)',
             \A e \in users' \ users : Methods(e)' # {},
             UNCHANGED overtaken,
             \A q \in Request : req'[q].at = "delete" =>
                 \/ req'[q] = req[q] /\ (q \in outdated => q \in outdated')
                 \/ req'[q].account \in users /\ MoreThanOne(Methods(req'[q].account))
      PROVE  MethodInv'
  <2>1. CountsHold'
    BY <1>1
  <2>2. LockedOutOnlyByOverlap'
    BY <1>1
  <2>. QED BY <2>1, <2>2
<1>2. ASSUME NEW e \in Email, Register(e) PROVE MethodInv'
  <2>1. \A d \in users : Methods(d) \subseteq Methods(d)'
    BY <1>2 DEF Register, Methods
  <2>2. \A d \in users' \ users : Password \in Methods(d)'
    BY <1>2 DEF Register, Methods
  <2>. QED BY <1>1, <1>2, <2>1, <2>2 DEF Register
<1>3. ASSUME NEW i \in Identity, NEW s \in Subject, NEW e \in Email, Insert(i, s, e),
             password' = password, users' \subseteq users \cup {e},
             UNCHANGED <<outdated, overtaken>>,
             \A q \in Request : req'[q] = req[q] \/ req'[q].at = "session"
      PROVE  MethodInv'
  <2>1. \A d \in users : Methods(d) \subseteq Methods(d)'
    BY <1>3 DEF Insert, Methods
  <2>2. \A d \in users' \ users : i \in Methods(d)'
    BY <1>3 DEF Insert, Methods
  <2>. QED BY <1>1, <1>3, <2>1, <2>2
<1>4. ASSUME NEW e \in Email, NEW s \in Subject, NEW i \in Identity,
             LinkProviderToken(e, s, i)
      PROVE  MethodInv'
  BY <1>3, <1>4 DEF LinkProviderToken
<1>5. ASSUME NEW r \in Request, NEW i \in Identity,
             CreateUserWithIdentity(r, i) \/ AutoLink(r, i)
      PROVE  MethodInv'
  <2>1. req[r].subject \in Subject /\ req[r].email \in Email
    BY <1>5 DEF CreateUserWithIdentity, AutoLink
  <2>2. /\ Insert(i, req[r].subject, req[r].email)
        /\ password' = password /\ users' \subseteq users \cup {req[r].email}
        /\ UNCHANGED <<outdated, overtaken>>
        /\ \A q \in Request : req'[q] = req[q] \/ req'[q].at = "session"
    <3>1. CASE CreateUserWithIdentity(r, i)
      BY <3>1 DEF CreateUserWithIdentity
    <3>2. CASE AutoLink(r, i)
      BY <3>2 DEF AutoLink
    <3>. QED BY <1>5, <3>1, <3>2
  <2>. QED BY <1>3, <2>1, <2>2
<1>6. ASSUME NEW r \in Request, NEW e \in Email, NEW i \in Identity,
             UnlinkIdentity(r, e, i)
      PROVE  MethodInv'
  <2>1. \A d \in users : Methods(d) = Methods(d)'
    BY <1>6 DEF UnlinkIdentity, Methods
  <2>. QED BY <1>1, <1>6, <2>1 DEF UnlinkIdentity
<1>7. ASSUME NEW r \in Request, DeleteIdentity(r) PROVE MethodInv'
  <2> DEFINE a == req[r].account
             i == req[r].identity
  <2>1. /\ req[r].at = "delete"
        /\ i \in linked /\ owner[i] = a
        /\ a \in users /\ users' = users
        /\ req' = [req EXCEPT ![r] = Idle]
        /\ outdated' = (outdated \cup CountsOf(r)) \ {r}
    BY <1>7 DEF DeleteIdentity, OwnRow
  <2>2. \A e \in users : Methods(e)' = Methods(e) \ {i}
    BY <1>7 DEF DeleteIdentity, Methods
  <2>3. \A e \in users \ {a} : Methods(e)' = Methods(e)
    BY <2>1, <2>2 DEF Methods
  <2>4. CountsHold'
    <3>1. ASSUME NEW q \in Request, req'[q].at = "delete", q \notin outdated'
          PROVE  MoreThanOne(Methods(req[q].account))'
      <4>1. q # r /\ req'[q] = req[q]
        BY <2>1, <3>1
      <4>2. req[q].account # a /\ q \notin outdated
        BY <2>1, <3>1, <4>1 DEF CountsOf
      <4>3. MoreThanOne(Methods(req[q].account)) /\ req[q].account \in users
        BY <3>1, <4>1, <4>2
      <4>. QED BY <2>3, <4>1, <4>2, <4>3
    <3>. QED BY <3>1
  <2>5. LockedOutOnlyByOverlap'
    <3>1. overtaken \subseteq overtaken' /\ (r \in outdated => a \in overtaken')
      BY <1>7 DEF DeleteIdentity
    <3>2. CASE r \in outdated
      BY <2>1, <2>3, <3>1, <3>2
    <3>3. CASE r \notin outdated
      <4>1. \E m \in Methods(a) : m # i
        BY <2>1, <3>3
      <4>. QED BY <2>1, <2>2, <2>3, <3>1, <4>1
    <3>. QED BY <3>2, <3>3
  <2>. QED BY <2>4, <2>5
<1>8. ASSUME UNCHANGED <<users, password, linked, owner, overtaken>>,
             \A q \in Request : \/ req'[q] = req[q] /\ (q \in outdated => q \in outdated')
                                \/ req'[q].at # "delete"
      PROVE  MethodInv'
  <2>1. \A e \in users : Methods(e)' = Methods(e)
    BY <1>8 DEF Methods
  <2>. QED BY <1>1, <1>8, <2>1
<1>9. ASSUME NEW e \in Email, VerifyEmail(e) PROVE MethodInv'
  BY <1>8, <1>9 DEF VerifyEmail
<1>10. ASSUME NEW r \in Request,
              \/ \E e \in Email : LoginUser(r, e)
              \/ StartSession(r)
              \/ \E s \in Subject, e \in Email : SignIn(r, s, e)
              \/ ByEmail(r)
              \/ GiveUp(r)
       PROVE  MethodInv'
  <2>1. /\ UNCHANGED <<users, password, linked, owner, overtaken>>
        /\ outdated \ {r} \subseteq outdated'
    BY <1>10 DEF LoginUser, StartSession, SignIn, ByEmail, GiveUp
  <2>2. /\ req'[r].at # "delete"
        /\ \A q \in Request \ {r} : req'[q] = req[q]
    <3>1. ASSUME NEW s \in Subject, NEW e \in Email, SignIn(r, s, e) PROVE <2>2!:
      <4>1. CASE req' = [req EXCEPT ![r] = [Idle EXCEPT !.at = "by_email",
                                                        !.subject = s, !.email = e]]
        BY <4>1
      <4>2. ASSUME NEW i \in RowsOf(s),
                   req' = [req EXCEPT ![r] = [Idle EXCEPT !.at = "session",
                                                          !.account = owner[i]]]
            PROVE  <2>2!:
        BY <4>2
      <4>. QED BY <3>1, <4>1, <4>2 DEF SignIn
    <3>2. CASE ByEmail(r)
      BY <3>2 DEF ByEmail
    <3>3. ASSUME NEW e \in Email, LoginUser(r, e) PROVE <2>2!:
      BY <3>3 DEF LoginUser
    <3>4. CASE StartSession(r) \/ GiveUp(r)
      BY <3>4 DEF StartSession, GiveUp
    <3>. QED BY <1>10, <3>1, <3>2, <3>3, <3>4
  <2>. QED BY <1>8, <2>1, <2>2
<1>11. CASE Crash \/ UNCHANGED vars
  BY <1>8, <1>11 DEF Crash, vars
<1>. QED
  BY <1>2, <1>4, <1>5, <1>6, <1>7, <1>9, <1>10, <1>11 DEF Next, Step

THEOREM Invariant == Spec => []IInv
<1>1. Init => IInv
  BY InitInv
<1>2. IInv /\ [Next]_vars => IInv'
  BY TypeStep, ProofStep, IdentityStep, MethodStep DEF IInv
<1>. QED BY <1>1, <1>2, PTL DEF Spec

-------------------------------------------------------------------------------
(* What follows for every behaviour.                                       *)

\* TypeOK: every foreign key holds and every request carries its bindings.
THEOREM Typed == Spec => []TypeOK
  BY Invariant, PTL DEF IInv

\* NothingBeforeProof: email verification comes before sessions and links.
THEOREM ProofFirst == Spec => []NothingBeforeProof
<1>1. IInv => NothingBeforeProof
  BY DEF IInv, ProofInv
<1>. QED BY <1>1, Invariant, PTL

\* OneAccountPerSubject: a provider account leads to one account.
THEOREM OneAccount == Spec => []OneAccountPerSubject
<1>1. IInv => OneAccountPerSubject
  BY DEF IInv, IdentityInv
<1>. QED BY <1>1, Invariant, PTL

\* LockedOutOnlyByOverlap: the guard of UnlinkIdentity keeps the last way in
\* except when two unlinks of one account overlap.
THEOREM LockedOut == Spec => []LockedOutOnlyByOverlap
<1>1. IInv => LockedOutOnlyByOverlap
  BY DEF IInv, MethodInv
<1>. QED BY <1>1, Invariant, PTL
===============================================================================
